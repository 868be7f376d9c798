--------------------------- MODULE PackagingProofs ---------------------------
(***************************************************************************)
(* Proofs about the packaging of elementary streams.                       *)
(*                                                                         *)
(*   pesaudio2ts    frames are in the receiver in time, and each file      *)
(*                  starts with its video, over any number of files        *)
(*   pesvideo2ts    every byte that is read arrives in its order, the      *)
(*                  receiver's buffer holds what is sent to it, and        *)
(*                  decoding times go on from file to file                 *)
(*   esvideo2pes    what it writes is a file that pesvideo2ts can send,    *)
(*   pesdata2ts     and pes2es and ts2pes give it back                     *)
(***************************************************************************)
EXTENDS Packaging, TLAPS, WellFoundedInduction, NaturalsInduction, SequenceTheorems,
        FiniteSetTheorems

-----------------------------------------------------------------------------
(* Numbers.                                                                  *)

LEMMA Division ==
  ASSUME NEW x \in Nat, NEW d \in Nat \ {0}
  PROVE  /\ x \div d \in Nat /\ x % d \in Nat /\ x % d < d
         /\ x = (x \div d) * d + (x % d)
OBVIOUS

LEMMA Distributes ==
  ASSUME NEW a \in Int, NEW b \in Int, NEW d \in Int
  PROVE  /\ (a + b) * d = a * d + b * d /\ (a - b) * d = a * d - b * d
         /\ a * d \in Int /\ a * d = d * a
OBVIOUS

LEMMA KeepsOrder ==
  ASSUME NEW a \in Int, NEW b \in Int, NEW d \in Nat \ {0}
  PROVE  /\ a <= b => a * d <= b * d
         /\ a < b <=> a * d < b * d
OBVIOUS

LEMMA KeepsOrderToo ==
  ASSUME NEW a \in Int, NEW b \in Int, NEW d \in Nat, a <= b
  PROVE  a * d <= b * d
OBVIOUS

\* Division of any number.
LEMMA WholeDivision ==
  ASSUME NEW x \in Int, NEW d \in Nat \ {0}
  PROVE  /\ x \div d \in Int /\ x % d \in 0..(d - 1)
         /\ x = (x \div d) * d + (x % d)
OBVIOUS

\* Numbers that are a multiple of d apart have the same rest.
LEMMA SameRest ==
  ASSUME NEW a \in Int, NEW b \in Int, NEW k1 \in Int, NEW d \in Nat \ {0}, a = b + k1 * d
  PROVE  a % d = b % d
<1> DEFINE p == a \div d
           q == b \div d
           r == a % d
           s == b % d
           n == p - q
           z == n - k1
<1>1. p \in Int /\ q \in Int /\ r \in 0..(d - 1) /\ s \in 0..(d - 1) /\ a = p * d + r /\ b = q * d + s
  BY WholeDivision
<1> HIDE DEF p, q, r, s
<1>2. n * d = p * d - q * d /\ z * d = n * d - k1 * d
  <2>1. n * d = p * d - q * d
    BY <1>1, Distributes
  <2>2. n \in Int
    BY <1>1
  <2> HIDE DEF n
  <2>3. z * d = n * d - k1 * d
    BY <2>2, Distributes
  <2> QED
    BY <2>1, <2>3
<1>3. n \in Int /\ z \in Int
  BY <1>1
<1>4. p * d \in Int /\ q * d \in Int /\ n * d \in Int /\ k1 * d \in Int /\ z * d \in Int
  BY <1>1, <1>3, Distributes
<1> HIDE DEF n, z
<1> DEFINE pd == p * d
           qd == q * d
           nd == n * d
           kd == k1 * d
           zd == z * d
<1>5. a = pd + r /\ b = qd + s /\ nd = pd - qd /\ zd = nd - kd /\ a = b + kd
  BY <1>1, <1>2
<1>6. pd \in Int /\ qd \in Int /\ nd \in Int /\ kd \in Int /\ zd \in Int
  BY <1>4
<1> HIDE DEF pd, qd, nd, kd
<1>7. zd = s - r
  BY <1>1, <1>5, <1>6
<1>8. zd < d /\ zd > -d
  BY <1>1, <1>7
<1>9. z < 1 /\ z > -1
  <2>1. 1 * d = d /\ (-1) * d = -d
    OBVIOUS
  <2>2. (z < 1 <=> z * d < 1 * d) /\ (-1 < z <=> (-1) * d < z * d)
    BY <1>3, KeepsOrder
  <2> QED
    BY <1>6, <1>8, <2>1, <2>2
<1>10. z = 0
  BY <1>3, <1>9
<1>11. zd = 0
  BY <1>10
<1> HIDE DEF zd
<1> QED
  BY <1>1, <1>7, <1>11 DEF r, s
\* A time after another, when times wrap at d.
LEMMA NextTime ==
  ASSUME NEW x \in Nat, NEW y \in Nat, NEW d \in Nat \ {0}
  PROVE  /\ (x + (y % d)) % d = ((x % d) + y) % d
         /\ (((x + y) % d) - x) % d = y % d
<1> DEFINE p == x \div d
           q == y \div d
           r == x % d
           s == y % d
           a == (x + y) \div d
           b == (x + y) % d
<1>1. /\ p \in Int /\ q \in Int /\ a \in Int /\ r \in 0..(d - 1) /\ s \in 0..(d - 1) /\ b \in 0..(d - 1)
      /\ x = p * d + r /\ y = q * d + s /\ x + y = a * d + b
  <2>1. x \in Int /\ y \in Int /\ x + y \in Int
    OBVIOUS
  <2> QED
    BY <2>1, WholeDivision
<1> HIDE DEF p, q, r, s, a, b
<1>2. (x + s) % d = (r + y) % d
  <2>1. (p - q) * d = p * d - q * d /\ p * d \in Int /\ q * d \in Int /\ p - q \in Int
    BY <1>1, Distributes
  <2>2. x + s = (r + y) + (p - q) * d
    BY <1>1, <2>1
  <2>3. x + s \in Int /\ r + y \in Int
    BY <1>1
  <2> DEFINE u == x + s
             w == r + y
             z == p - q
  <2>4. u \in Int /\ w \in Int /\ z \in Int /\ u = w + z * d
    BY <2>1, <2>2, <2>3
  <2> HIDE DEF u, w, z
  <2>5. u % d = w % d
    BY <2>4, SameRest, ZenonT(60)
  <2> QED
    BY <2>5 DEF u, w
<1>3. (b - x) % d = y % d
  <2> DEFINE u == b - x
             w == y
             z == 0 - a
  <2>1. z * d = 0 * d - a * d /\ a * d \in Int /\ 0 * d = 0 /\ z \in Int
    BY <1>1, Distributes
  <2>2. u \in Int /\ w \in Int /\ z \in Int /\ u = w + z * d
    BY <1>1, <2>1
  <2> HIDE DEF u, w, z
  <2>3. u % d = w % d
    BY <2>2, SameRest, ZenonT(60)
  <2> QED
    BY <2>3 DEF u, w
<1> QED
  BY <1>2, <1>3 DEF r, s, b

\* A number below d is its rest.
LEMMA SmallRest ==
  ASSUME NEW d \in Nat \ {0}, NEW x \in 0..(d - 1)
  PROVE  x % d = x
<1>1. 0 \in Int /\ x \in Int /\ x \div d \in Int /\ x % d \in 0..(d - 1) /\ x = (x \div d) * d + (x % d)
  BY WholeDivision
<1> DEFINE q == x \div d
           r == x % d
<1>2. q * d < 1 * d /\ (-1) * d < q * d
  <2>1. q * d \in Int /\ 1 * d = d /\ (-1) * d = -d
    BY <1>1, Distributes
  <2> QED
    BY <1>1, <2>1
<1>3. q < 1 /\ -1 < q
  BY <1>1, <1>2, KeepsOrder
<1>4. q = 0
  BY <1>1, <1>3
<1> QED
  BY <1>1, <1>4

-----------------------------------------------------------------------------
(* pesaudio2ts.                                                              *)

\* The files are records of numbers.
AudioIsSound ==
  \A a \in AudioFiles : a \in Seq([frames : Nat, video : Nat, length : Nat]) /\ a # <<>>

\* The file whose length is looked at, when file i ends: the one before, and at first the
\* first one.
LooksAt(i) == IF i = 1 THEN {0, 1} ELSE {i - 1}

\* No file ends after its length, where that is looked at.
LengthsSuffice ==
  \A a \in AudioFiles : \A i \in DOMAIN a : \A n \in LooksAt(i) :
    n # 0 /\ a[n].length > 0
      => a[i].frames * Samples * PtsTime <= a[n].length * SampleRate

\* The first file has the two frames that keep their times.
TwoFrames == \A a \in AudioFiles : a[1].frames >= 2

\* What was sent before the first frame of the file.
Ahead == packets - k * FramePackets + (IF frame.whole THEN 0 ELSE Held)

AudioTypes ==
  /\ audio \in AudioFiles /\ file \in DOMAIN audio
  /\ k \in Nat /\ k <= audio[file].frames /\ number = k
  /\ named \in LooksAt(file)
  /\ packets \in Nat /\ offset \in Nat /\ past \in Nat
  /\ left \in Nat /\ left < Audio!PacketTime
  /\ index \in 0..2
  /\ frame.whole \in BOOLEAN /\ frame.last \in BOOLEAN /\ frame.pts \in Int

\* The frame that is being sent is the k-th of the file, and the frames that keep their
\* times are the first two of all.
Frames ==
  /\ ~frame.whole => k > 0
  /\ frame.last => k = 0
  /\ k = 0 /\ past > 0 => frame.last
  /\ past = 0 => index = IF k < 2 THEN k ELSE 2
  /\ past > 0 => index = 2
  /\ past = 0 => file = 1
  /\ k > 0 /\ (k > 2 \/ past > 0) => frame.pts = offset + Audio!Time(k - 1)

InOrder == AudioTypes /\ Frames

\* The first frame of the file is sent in time, but for the bits that bitrate has too little;
\* the others follow as their times do.
StartsInTime ==
  /\ (Ahead + FramePackets - Held) * Audio!PacketTime < offset * (Audio!bitrate + 1)
  /\ offset * Audio!bitrate < (Ahead + FramePackets + 2) * Audio!PacketTime

LEMMA AudioNumbers ==
  /\ FramePackets \in Nat \ {0} /\ Held \in 0..2 /\ Held < FramePackets /\ Held \in Nat
  /\ Samples \in Nat \ {0} /\ SampleRate \in Nat \ {0}
  /\ PtsTime \in Nat \ {0} /\ PacketBits \in Nat \ {0}
  /\ VideoStep \in Nat \ {0} /\ FileOffset \in Nat
  /\ Audio!PacketTime \in Nat \ {0}
  /\ Audio!bitrate \in Nat /\ Audio!bitrate + 1 \in Nat \ {0}
<1>1. /\ FramePackets \in Nat \ {0} /\ Held \in 0..2 /\ Held < FramePackets /\ Held \in Nat
      /\ Samples \in Nat \ {0} /\ SampleRate \in Nat \ {0}
      /\ PtsTime \in Nat \ {0} /\ PacketBits \in Nat \ {0}
      /\ VideoStep \in Nat \ {0} /\ FileOffset \in Nat
  BY PackagingAssumption DEF Audio!AudioAssumption
<1>2. PtsTime * PacketBits \in Nat \ {0}
  BY <1>1
<1>3. SampleRate * FramePackets * PacketBits \in Nat
  BY <1>1
<1>4. Audio!bitrate \in Nat
  BY <1>1, <1>3, Division DEF Audio!bitrate
<1> QED
  BY <1>1, <1>2, <1>4 DEF Audio!PacketTime

\* The time of frames, and what bitrate is of the rate that they need.
LEMMA TimeOfFrames ==
  ASSUME NEW n \in Nat
  PROVE  /\ Audio!Time(n) \in Nat
         /\ Audio!Time(n) * SampleRate <= n * Samples * PtsTime
         /\ n * Samples * PtsTime <= (Audio!Time(n) + 1) * SampleRate
<1> USE AudioNumbers
<1> DEFINE x == n * Samples * PtsTime
           q == x \div SampleRate
           qs == q * SampleRate
<1>1. x \in Nat
  OBVIOUS
<1> HIDE DEF x
<1>2. q \in Nat /\ x % SampleRate \in Nat /\ x % SampleRate < SampleRate /\ x = qs + (x % SampleRate)
  BY <1>1, Division
<1>3. Audio!Time(n) = q
  BY DEF Audio!Time, x
<1> HIDE DEF q
<1>4. (q + 1) * SampleRate = qs + SampleRate /\ qs \in Int
  BY <1>2, Distributes
<1> HIDE DEF qs
<1>5. qs <= x /\ x <= qs + SampleRate
  BY <1>1, <1>2, <1>4
<1> QED
  BY <1>2, <1>3, <1>4, <1>5 DEF qs, x

LEMMA RateOfFrames ==
  LET need == SampleRate * (FramePackets * PacketBits)
  IN  Audio!bitrate * Samples <= need /\ need < (Audio!bitrate + 1) * Samples
<1> USE AudioNumbers
<1> DEFINE x == SampleRate * FramePackets * PacketBits
           bs == Audio!bitrate * Samples
<1>1. x \in Nat /\ x = SampleRate * (FramePackets * PacketBits)
  OBVIOUS
<1> HIDE DEF x
<1>2. x = bs + (x % Samples) /\ x % Samples \in Nat /\ x % Samples < Samples
  BY <1>1, Division DEF Audio!bitrate, x
<1>3. (Audio!bitrate + 1) * Samples = bs + Samples /\ bs \in Int
  BY Distributes
<1> HIDE DEF bs
<1>4. bs <= x /\ x < bs + Samples
  BY <1>1, <1>2, <1>3
<1> QED
  BY <1>1, <1>3, <1>4 DEF bs

\* n frames against a time u: their packets are fewer than at bitrate and a bit per second
\* when they end before it, and not fewer than at bitrate when they end after it.
LEMMA FramesAtRate ==
  ASSUME NEW n \in Nat
  PROVE  /\ \A u \in Nat \ {0} : n * Samples * PtsTime <= u * SampleRate
              => (n * FramePackets) * Audio!PacketTime < u * (Audio!bitrate + 1)
         /\ \A u \in Nat : u * SampleRate <= n * Samples * PtsTime
              => u * Audio!bitrate <= (n * FramePackets) * Audio!PacketTime
<1> USE AudioNumbers
<1> DEFINE fb == FramePackets * PacketBits
           g == (n * FramePackets) * Audio!PacketTime
           x == n * Samples * PtsTime
           h == SampleRate * fb
           lo == Audio!bitrate
           up == lo + 1
<1>1. fb \in Nat \ {0} /\ g \in Nat /\ x \in Nat /\ h \in Nat /\ lo \in Nat /\ up \in Nat \ {0}
  OBVIOUS
<1>2. x * fb = g * Samples
  BY DEF Audio!PacketTime
<1>3. lo * Samples <= h /\ h < up * Samples
  BY RateOfFrames
<1> HIDE DEF fb, g, x, lo, up
<1>4. ASSUME NEW u \in Nat \ {0}, x <= u * SampleRate PROVE g < u * up
  <2>1. x * fb <= (u * SampleRate) * fb
    BY <1>1, <1>4, KeepsOrder
  <2>2. (u * SampleRate) * fb = h * u
    BY <1>1
  <2> HIDE DEF h
  <2>3. h * u < (up * Samples) * u
    BY <1>1, <1>3, KeepsOrder
  <2>4. (up * Samples) * u = (u * up) * Samples
    BY <1>1
  <2>5. x * fb \in Int /\ h * u \in Int /\ (u * up) * Samples \in Int /\ u * up \in Int
    BY <1>1
  <2>6. g * Samples < (u * up) * Samples
    BY <1>2, <2>1, <2>2, <2>3, <2>4, <2>5
  <2> QED
    BY <1>1, <2>5, <2>6, KeepsOrder
<1>5. ASSUME NEW u \in Nat, u * SampleRate <= x PROVE u * lo <= g
  <2>1. (u * SampleRate) * fb <= x * fb
    BY <1>1, <1>5, KeepsOrder
  <2>2. (u * SampleRate) * fb = h * u
    BY <1>1
  <2> HIDE DEF h
  <2>3. (lo * Samples) * u <= h * u
    BY <1>1, <1>3, KeepsOrderToo
  <2>4. (lo * Samples) * u = (u * lo) * Samples
    BY <1>1
  <2>5. x * fb \in Int /\ h * u \in Int /\ (u * lo) * Samples \in Int /\ u * lo \in Int
    BY <1>1
  <2>6. ~(g * Samples < (u * lo) * Samples)
    BY <1>1, <1>2, <2>1, <2>2, <2>3, <2>4, <2>5
  <2>7. ~(g < u * lo)
    BY <1>1, <2>5, <2>6, KeepsOrder
  <2> QED
    BY <1>1, <2>5, <2>7
<1> QED
  BY <1>4, <1>5 DEF g, x, lo, up

LEMMA AudioRecords ==
  ASSUME AudioIsSound, NEW a \in AudioFiles
  PROVE  /\ Len(a) \in Nat \ {0} /\ DOMAIN a = 1..Len(a) /\ 1 \in DOMAIN a
         /\ \A i \in DOMAIN a : /\ a[i].frames \in Nat /\ a[i].video \in Nat
                                /\ a[i].length \in Nat
<1> DEFINE R == [frames : Nat, video : Nat, length : Nat]
<1>1. \A r \in R : r.frames \in Nat /\ r.video \in Nat /\ r.length \in Nat
  OBVIOUS
<1>2. a \in Seq(R) /\ a # <<>>
  BY DEF AudioIsSound
<1> HIDE DEF R
<1>3. Len(a) \in Nat \ {0} /\ DOMAIN a = 1..Len(a) /\ \A i \in DOMAIN a : a[i] \in R
  BY <1>2
<1> QED
  BY <1>1, <1>3

\* The start of a file: p packets were sent before it, t is the time of its first frame, q
\* the packets up to that time, and x and y what is left over before and after.
LEMMA FileStarts ==
  ASSUME NEW p \in Nat, NEW t \in Nat, NEW q \in Nat, NEW x \in Nat, NEW y \in Nat,
         x < Audio!PacketTime, y < Audio!PacketTime,
         x + t * Audio!bitrate = q * Audio!PacketTime + y,
         (p + FramePackets) * Audio!PacketTime < t * (Audio!bitrate + 1),
         NEW s, s = p + (IF q - p - Audio!Lead > 0 THEN q - p - Audio!Lead ELSE 0) + Held
  PROVE  /\ s \in Nat
         /\ (s + FramePackets - Held) * Audio!PacketTime < t * (Audio!bitrate + 1)
         /\ t * Audio!bitrate < (s + FramePackets + 2) * Audio!PacketTime
<1> USE AudioNumbers DEF Audio!Lead
<1> DEFINE tp == t * Audio!bitrate
           tu == t * (Audio!bitrate + 1)
           qt == q * Audio!PacketTime
<1>1. tp \in Int /\ tu \in Int /\ tp <= tu /\ qt \in Int /\ x + tp = qt + y
  OBVIOUS
<1>2. /\ (q + 1) * Audio!PacketTime = qt + Audio!PacketTime /\ (q - 1) * Audio!PacketTime = qt - Audio!PacketTime
  BY Distributes
<1> HIDE DEF tp, tu, qt
<1>3. tp < (q + 1) * Audio!PacketTime /\ (q - 1) * Audio!PacketTime < tp
  BY <1>1, <1>2
<1>4. s \in Nat
  OBVIOUS
<1>5. CASE q - p - (FramePackets + 1) > 0
  <2>1. s + FramePackets - Held = q - 1
    BY <1>5
  <2>2. q + 1 <= s + FramePackets + 2 /\ s + FramePackets + 2 \in Int
    BY <2>1, <1>4
  <2>3. (q + 1) * Audio!PacketTime <= (s + FramePackets + 2) * Audio!PacketTime
    BY <2>2, KeepsOrder
  <2>4. (s + FramePackets + 2) * Audio!PacketTime \in Int
    BY <2>2
  <2> QED
    BY <1>1, <1>2, <1>3, <1>4, <2>1, <2>3, <2>4 DEF tp, tu
<1>6. CASE ~(q - p - (FramePackets + 1) > 0)
  <2>1. s + FramePackets - Held = p + FramePackets
    BY <1>6
  <2>2. q + 1 <= s + FramePackets + 2 /\ s + FramePackets + 2 \in Int
    BY <2>1, <1>4, <1>6
  <2>3. (q + 1) * Audio!PacketTime <= (s + FramePackets + 2) * Audio!PacketTime
    BY <2>2, KeepsOrder
  <2>4. (s + FramePackets + 2) * Audio!PacketTime \in Int
    BY <2>2
  <2> QED
    BY <1>1, <1>2, <1>3, <1>4, <2>1, <2>3, <2>4 DEF tp, tu
<1> QED
  BY <1>5, <1>6

\* What is left over is what the division of the packets leaves.
LEMMA PacketsUpTo ==
  ASSUME NEW t \in Nat, NEW x \in Nat
  PROVE  /\ Audio!PacketsTo(t, x) \in Nat
         /\ Audio!Rest(t, x) \in Nat /\ Audio!Rest(t, x) < Audio!PacketTime
         /\ x + t * Audio!bitrate = Audio!PacketsTo(t, x) * Audio!PacketTime + Audio!Rest(t, x)
<1>1. x + t * Audio!bitrate \in Nat
  BY AudioNumbers
<1> QED
  BY <1>1, AudioNumbers, Division DEF Audio!PacketsTo, Audio!Rest

\* An audio frame is not longer than a video frame.
ShortFrames == Samples * PtsTime <= VideoStep * SampleRate

LEMMA AudioStarts ==
  ASSUME AudioIsSound, TwoFrames, audio \in AudioFiles, Audio!AudioInit
  PROVE  InOrder /\ (ShortFrames => StartsInTime)
<1> USE AudioNumbers
<1>1. /\ file = 1 /\ k = 0 /\ named = 1 /\ past = 0 /\ offset = VideoStep /\ number = 0
      /\ index = 0 /\ left = 0 /\ frame = [pts |-> 0, whole |-> TRUE, last |-> FALSE]
  BY DEF Audio!AudioInit
<1> DEFINE q == Audio!PacketsTo(offset, 0)
<1>2. /\ q \in Nat
      /\ q * Audio!PacketTime <= offset * Audio!bitrate /\ offset * Audio!bitrate < (q + 1) * Audio!PacketTime
  <2>1. /\ q \in Nat /\ Audio!Rest(offset, 0) \in Nat /\ Audio!Rest(offset, 0) < Audio!PacketTime
        /\ 0 + offset * Audio!bitrate = q * Audio!PacketTime + Audio!Rest(offset, 0)
    BY <1>1, PacketsUpTo
  <2> DEFINE tp == offset * Audio!bitrate
             qt == q * Audio!PacketTime
  <2>2. tp \in Int /\ qt \in Int /\ (q + 1) * Audio!PacketTime = qt + Audio!PacketTime
    BY <1>1, <2>1, Distributes
  <2> HIDE DEF tp, qt, q
  <2>3. tp = qt + Audio!Rest(offset, 0)
    BY <2>1, <2>2 DEF tp, qt
  <2> QED
    BY <2>1, <2>2, <2>3 DEF tp, qt
<1>3. packets = IF q - (FramePackets + 1) > 0 THEN q - (FramePackets + 1) ELSE 0
  BY DEF Audio!AudioInit, Audio!Lead
<1> HIDE DEF q
<1>4. packets \in Nat /\ Ahead = packets
  BY <1>1, <1>2, <1>3 DEF Ahead
<1>5. AudioTypes
  BY <1>1, <1>4, AudioRecords DEF AudioTypes, LooksAt
<1>6. Frames
  BY <1>1 DEF Frames
<1>7. ASSUME ShortFrames PROVE StartsInTime
  <2>1. (packets + FramePackets - Held) * Audio!PacketTime < offset * (Audio!bitrate + 1)
    <3>1. CASE q - (FramePackets + 1) > 0
      <4>1. packets + FramePackets - Held < q /\ packets + FramePackets - Held \in Int
        BY <1>2, <1>3, <1>4, <3>1
      <4>2. (packets + FramePackets - Held) * Audio!PacketTime < q * Audio!PacketTime
        BY <1>2, <4>1, KeepsOrder
      <4>3. /\ (packets + FramePackets - Held) * Audio!PacketTime \in Int /\ q * Audio!PacketTime \in Int
            /\ offset * Audio!bitrate \in Int /\ offset * (Audio!bitrate + 1) \in Int
            /\ offset * Audio!bitrate <= offset * (Audio!bitrate + 1)
        BY <1>1, <1>2, <4>1
      <4> QED
        BY <1>2, <4>2, <4>3
    <3>2. CASE ~(q - (FramePackets + 1) > 0)
      <4>1. packets + FramePackets - Held <= FramePackets /\ packets + FramePackets - Held \in Int
        BY <1>2, <1>3, <1>4, <3>2
      <4>2. (packets + FramePackets - Held) * Audio!PacketTime <= FramePackets * Audio!PacketTime
        BY <4>1, KeepsOrder
      <4>3. (1 * FramePackets) * Audio!PacketTime < VideoStep * (Audio!bitrate + 1)
        <5>1. 1 * Samples * PtsTime <= VideoStep * SampleRate
          BY <1>7 DEF ShortFrames
        <5> QED
          BY <5>1, FramesAtRate
      <4>4. /\ (packets + FramePackets - Held) * Audio!PacketTime \in Int
            /\ FramePackets * Audio!PacketTime \in Int /\ 1 * FramePackets = FramePackets
            /\ VideoStep * (Audio!bitrate + 1) \in Int
        BY <4>1
      <4> QED
        BY <1>1, <4>2, <4>3, <4>4
    <3> QED
      BY <3>1, <3>2
  <2>2. offset * Audio!bitrate < (packets + FramePackets + 2) * Audio!PacketTime
    <3>1. q + 1 <= packets + FramePackets + 2 /\ packets + FramePackets + 2 \in Int
      BY <1>2, <1>3, <1>4
    <3>2. (q + 1) * Audio!PacketTime <= (packets + FramePackets + 2) * Audio!PacketTime
      BY <1>2, <3>1, KeepsOrder
    <3>3. /\ (q + 1) * Audio!PacketTime \in Int /\ (packets + FramePackets + 2) * Audio!PacketTime \in Int
          /\ offset * Audio!bitrate \in Int
      BY <1>1, <1>2, <3>1
    <3> QED
      BY <1>2, <3>2, <3>3
  <2> QED
    BY <1>4, <2>1, <2>2 DEF StartsInTime
<1> QED
  BY <1>5, <1>6, <1>7 DEF InOrder

LEMMA BeginKeeps ==
  ASSUME AudioIsSound, InOrder, Audio!Begin
  PROVE  InOrder' /\ (StartsInTime => StartsInTime')
<1> USE AudioNumbers
<1>1. /\ frame.whole /\ k < audio[file].frames
      /\ packets' = packets + FramePackets - Held
      /\ frame' = [pts |-> Audio!FramePts, whole |-> FALSE, last |-> FALSE]
      /\ k' = k + 1
      /\ IF index < 2 THEN index' = index + 1 /\ number' = index'
         ELSE number' = number + 1 /\ index' = index
      /\ UNCHANGED <<audio, file, named, offset, left, past>>
  BY DEF Audio!Begin
<1>2. AudioTypes /\ Frames
  BY DEF InOrder
<1>3. Audio!FramePts \in Int /\ (index = 2 => Audio!FramePts = offset + Audio!Time(k))
  BY <1>2, TimeOfFrames DEF AudioTypes, Audio!FramePts, Audio!FilePts
<1>4. AudioTypes'
  <2>1. audio[file].frames \in Nat
    BY <1>2, AudioRecords DEF AudioTypes
  <2> QED
    BY <1>1, <1>2, <1>3, <2>1 DEF AudioTypes, Frames
<1>5. Frames'
  BY <1>1, <1>2, <1>3 DEF AudioTypes, Frames
<1>6. Ahead' = Ahead
  <2>1. (k + 1) * FramePackets = k * FramePackets + FramePackets /\ k * FramePackets \in Int
    BY <1>2, Distributes DEF AudioTypes
  <2> QED
    BY <1>1, <1>2, <2>1 DEF AudioTypes, Ahead
<1>7. StartsInTime => StartsInTime'
  BY <1>1, <1>2, <1>6 DEF StartsInTime
<1> QED
  BY <1>4, <1>5, <1>7 DEF InOrder

LEMMA FinishKeeps ==
  ASSUME AudioIsSound, InOrder, Audio!Finish
  PROVE  InOrder' /\ (StartsInTime => StartsInTime')
<1> USE AudioNumbers
<1>1. /\ ~frame.whole /\ packets' = packets + Held
      /\ frame' = [frame EXCEPT !.whole = TRUE]
      /\ UNCHANGED <<audio, file, k, named, offset, number, index, left, past>>
  BY DEF Audio!Finish
<1>2. AudioTypes /\ Frames
  BY DEF InOrder
<1>3. frame'.whole = TRUE /\ frame'.last = frame.last /\ frame'.pts = frame.pts
  BY <1>1, <1>2 DEF AudioTypes
<1>4. AudioTypes'
  BY <1>1, <1>2, <1>3 DEF AudioTypes
<1>5. Frames'
  BY <1>1, <1>2, <1>3 DEF AudioTypes, Frames
<1>6. Ahead' = Ahead
  BY <1>1, <1>2, <1>3 DEF AudioTypes, Ahead
<1>7. StartsInTime => StartsInTime'
  BY <1>1, <1>2, <1>6 DEF StartsInTime
<1> QED
  BY <1>4, <1>5, <1>7 DEF InOrder

\* The time at which the next file starts is not before the end of the last frame.
LEMMA StartsAfterFrames ==
  ASSUME AudioIsSound, InOrder, k = audio[file].frames
  PROVE  \E u \in Nat \ {0} : /\ Audio!Start = offset + u
                              /\ LengthsSuffice => k * Samples * PtsTime <= u * SampleRate
<1> USE AudioNumbers
<1>1. AudioTypes
  BY DEF InOrder
<1>2. k \in Nat /\ offset \in Nat /\ Audio!NextPts = offset + Audio!Time(k)
  BY <1>1 DEF AudioTypes, Audio!NextPts
<1>3. CASE named # 0 /\ audio[named].length > 0
  <2>1. named \in DOMAIN audio
    BY <1>1, <1>3, AudioRecords DEF AudioTypes, LooksAt
  <2>2. audio[named].length \in Nat \ {0}
    BY <1>1, <1>3, <2>1, AudioRecords DEF AudioTypes
  <2>3. LengthsSuffice => k * Samples * PtsTime <= audio[named].length * SampleRate
    BY <1>1, <1>3 DEF AudioTypes, LengthsSuffice
  <2> QED
    BY <1>3, <2>2, <2>3 DEF Audio!Start
<1>4. CASE ~(named # 0 /\ audio[named].length > 0)
  <2> DEFINE n == Audio!NextPts
             e == n \div VideoStep
             u == (e + 1) * VideoStep - offset
  <2>1. n \in Nat /\ Audio!Time(k) \in Nat
    BY <1>2, TimeOfFrames
  <2>2. e \in Nat /\ n % VideoStep < VideoStep /\ n = e * VideoStep + (n % VideoStep)
        /\ n % VideoStep \in Nat
    BY <2>1, Division
  <2>3. Audio!Start = (e + 1) * VideoStep
    BY <1>4 DEF Audio!Start, Audio!Rounded
  <2> HIDE DEF n, e
  <2>4. (e + 1) * VideoStep = e * VideoStep + VideoStep /\ e * VideoStep \in Nat
    BY <2>2, Distributes
  <2>5. n + 1 <= (e + 1) * VideoStep
    BY <2>1, <2>2, <2>4
  <2>6. n = offset + Audio!Time(k)
    BY <1>2 DEF n
  <2>7. u \in Nat \ {0} /\ Audio!Start = offset + u /\ Audio!Time(k) + 1 <= u
    BY <1>2, <2>1, <2>3, <2>4, <2>5, <2>6
  <2> HIDE DEF u
  <2>8. (Audio!Time(k) + 1) * SampleRate <= u * SampleRate
    BY <2>1, <2>7, KeepsOrder
  <2>9. /\ k * Samples * PtsTime \in Int /\ (Audio!Time(k) + 1) * SampleRate \in Int
        /\ u * SampleRate \in Int
    BY <1>2, <2>1, <2>7
  <2>10. k * Samples * PtsTime <= u * SampleRate
    BY <1>2, <2>8, <2>9, TimeOfFrames
  <2> QED
    BY <2>7, <2>10
<1> QED
  BY <1>3, <1>4

LEMMA NextFileKeeps ==
  ASSUME AudioIsSound, TwoFrames, InOrder, Audio!NextAudioFile
  PROVE  InOrder' /\ (LengthsSuffice /\ StartsInTime => StartsInTime')
<1> USE AudioNumbers
<1> DEFINE t == Audio!Start
           q == Audio!PacketsTo(t, left)
           y == Audio!Rest(t, left)
<1>1. /\ ~frame.whole /\ k = audio[file].frames
      /\ past' = past + 1
      /\ packets' = packets + (IF q - packets - Audio!Lead > 0 THEN q - packets - Audio!Lead
                               ELSE 0) + Held
      /\ left' = y
      /\ frame' = [frame EXCEPT !.whole = TRUE, !.last = TRUE]
      /\ k' = 0 /\ number' = 0 /\ offset' = t
      /\ IF file < Len(audio) THEN file' = file + 1 /\ named' = file
         ELSE file' = 1 /\ named' = 0
      /\ audio' = audio /\ index' = index
  BY DEF Audio!NextAudioFile
<1>2. AudioTypes /\ Frames
  BY DEF InOrder
<1>3. PICK u \in Nat \ {0} : /\ t = offset + u
                             /\ LengthsSuffice => k * Samples * PtsTime <= u * SampleRate
  BY <1>1, StartsAfterFrames
<1> HIDE DEF t
<1>4. /\ t \in Nat /\ q \in Nat /\ y \in Nat /\ y < Audio!PacketTime
      /\ left + t * Audio!bitrate = q * Audio!PacketTime + y
  <2>1. t \in Nat /\ left \in Nat
    BY <1>2, <1>3 DEF AudioTypes
  <2> QED
    BY <2>1, PacketsUpTo
<1> HIDE DEF q, y
<1>5. ASSUME LengthsSuffice, StartsInTime
      PROVE  (packets + FramePackets) * Audio!PacketTime < t * (Audio!bitrate + 1)
  <2> DEFINE a == Ahead + FramePackets - Held
             kp == k * FramePackets
             up == Audio!bitrate + 1
  <2>1. /\ a \in Int /\ kp \in Int /\ offset \in Int /\ k \in Nat
        /\ packets + FramePackets = a + kp
    <3>1. k \in Nat /\ packets \in Int /\ kp \in Int /\ offset \in Int
      BY <1>2, Distributes DEF AudioTypes
    <3>2. Ahead = packets - kp + Held
      BY <1>1 DEF Ahead
    <3> HIDE DEF kp
    <3> QED
      BY <3>1, <3>2
  <2>2. a * Audio!PacketTime < offset * up
    BY <1>5 DEF StartsInTime
  <2>3. kp * Audio!PacketTime < u * up
    BY <1>3, <1>5, <2>1, FramesAtRate
  <2>4. up \in Int
    OBVIOUS
  <2> HIDE DEF a, kp, up
  <2>5. /\ (a + kp) * Audio!PacketTime = a * Audio!PacketTime + kp * Audio!PacketTime
        /\ (offset + u) * up = offset * up + u * up
        /\ a * Audio!PacketTime \in Int /\ kp * Audio!PacketTime \in Int
        /\ offset * up \in Int /\ u * up \in Int
    BY <2>1, <2>4, Distributes
  <2>6. (packets + FramePackets) * Audio!PacketTime < t * up
    BY <1>3, <2>1, <2>2, <2>3, <2>5
  <2> QED
    BY <2>6 DEF up
<1>6. packets' \in Nat
  <2>1. packets \in Nat /\ q \in Nat
    BY <1>2, <1>4 DEF AudioTypes
  <2>2. packets' = packets + (IF q - packets - Audio!Lead > 0 THEN q - packets - Audio!Lead
                              ELSE 0) + Held
    BY <1>1
  <2> QED
    BY <2>1, <2>2 DEF Audio!Lead
<1> HIDE AudioNumbers
<1>7. frame'.whole = TRUE /\ frame'.last = TRUE /\ frame'.pts = frame.pts
  BY <1>1, <1>2 DEF AudioTypes
<1>8. AudioTypes'
  <2>1. /\ Len(audio) \in Nat \ {0} /\ DOMAIN audio = 1..Len(audio)
        /\ file' \in DOMAIN audio => audio[file'].frames \in Nat
    BY <1>2, AudioRecords DEF AudioTypes
  <2>2. file' \in DOMAIN audio /\ named' \in LooksAt(file')
    <3>1. file \in 1..Len(audio)
      BY <1>2, <2>1 DEF AudioTypes
    <3>2. CASE file < Len(audio)
      <4>1. file' = file + 1 /\ named' = file /\ file' # 1 /\ file' - 1 = file
        BY <1>1, <2>1, <3>1, <3>2
      <4>2. file' \in 1..Len(audio)
        BY <2>1, <3>1, <3>2, <4>1
      <4>3. named' \in LooksAt(file')
        BY <4>1 DEF LooksAt
      <4> QED
        BY <2>1, <4>2, <4>3
    <3>3. CASE ~(file < Len(audio))
      <4>1. file' = 1 /\ named' = 0
        BY <1>1, <3>3
      <4>2. file' \in 1..Len(audio)
        BY <2>1, <4>1
      <4>3. named' \in LooksAt(file')
        BY <4>1 DEF LooksAt
      <4> QED
        BY <2>1, <4>2, <4>3
    <3> QED
      BY <3>2, <3>3
  <2>3. /\ audio' \in AudioFiles /\ file' \in DOMAIN audio' /\ named' \in LooksAt(file')
        /\ k' \in Nat /\ k' <= audio'[file'].frames /\ number' = k'
    BY <1>1, <1>2, <2>1, <2>2 DEF AudioTypes
  <2>4. /\ packets' \in Nat /\ offset' \in Nat /\ past' \in Nat
        /\ left' \in Nat /\ left' < Audio!PacketTime /\ index' \in 0..2
    <3>1. packets' \in Nat
      BY <1>6
    <3>2. offset' \in Nat /\ left' \in Nat /\ left' < Audio!PacketTime
      BY <1>1, <1>3, <1>4
    <3>3. past' \in Nat
      BY <1>1, <1>2, SMTT(30) DEF AudioTypes
    <3>4. index' \in 0..2
      BY <1>1, <1>2 DEF AudioTypes
    <3> QED
      BY <3>1, <3>2, <3>3, <3>4
  <2>5. frame'.whole \in BOOLEAN /\ frame'.last \in BOOLEAN /\ frame'.pts \in Int
    BY <1>2, <1>7 DEF AudioTypes
  <2> QED
    BY <2>3, <2>4, <2>5 DEF AudioTypes
<1>9. Frames'
  <2>1. past > 0 => index = 2
    BY <1>2 DEF Frames
  <2>2. past = 0 => index = 2
    BY <1>1, <1>2 DEF AudioTypes, Frames, TwoFrames
  <2> QED
    BY <1>1, <1>2, <1>7, <2>1, <2>2 DEF AudioTypes, Frames
<1>10. Ahead' = packets'
  BY <1>1, <1>6, <1>7, AudioNumbers DEF Ahead
<1>11. ASSUME LengthsSuffice, StartsInTime
       PROVE  StartsInTime'
  <2>1. (packets + FramePackets) * Audio!PacketTime < t * (Audio!bitrate + 1)
    BY <1>5, <1>11
  <2>2. /\ (packets' + FramePackets - Held) * Audio!PacketTime < t * (Audio!bitrate + 1)
        /\ t * Audio!bitrate < (packets' + FramePackets + 2) * Audio!PacketTime
    BY <1>1, <1>2, <1>3, <1>4, <2>1, FileStarts DEF AudioTypes
  <2> QED
    BY <1>1, <1>10, <2>2 DEF StartsInTime
<1> QED
  BY <1>8, <1>9, <1>11 DEF InOrder

LEMMA AudioInductive ==
  ASSUME AudioIsSound, TwoFrames, InOrder, [Audio!AudioNext]_audioVars
  PROVE  InOrder' /\ (LengthsSuffice /\ StartsInTime => StartsInTime')
<1>1. CASE Audio!Begin
  BY <1>1, BeginKeeps
<1>2. CASE Audio!Finish
  BY <1>2, FinishKeeps
<1>3. CASE Audio!NextAudioFile
  BY <1>3, NextFileKeeps
<1>4. CASE UNCHANGED audioVars
  BY <1>4 DEF audioVars, InOrder, AudioTypes, Frames, StartsInTime, Ahead
<1> QED
  BY <1>1, <1>2, <1>3, <1>4 DEF Audio!AudioNext

\* A frame that is whole is the k-th of those that follow the first as their times do.
LEMMA FramesInTime ==
  ASSUME InOrder, StartsInTime, frame.whole, ~frame.last, k > 2 \/ past > 0
  PROVE  /\ (packets - Held) * Audio!PacketTime < (frame.pts + 1) * (Audio!bitrate + 1)
         /\ frame.pts * Audio!bitrate < (packets + 2) * Audio!PacketTime
<1> USE AudioNumbers
<1>1. AudioTypes /\ Frames /\ StartsInTime
  BY DEF InOrder
<1>2. k \in Nat /\ k # 0
  BY <1>1 DEF AudioTypes, Frames
<1>3. PICK j \in Nat : j = k - 1
  BY <1>2
<1>4. PICK w \in Nat : /\ frame.pts = offset + w
                       /\ w * SampleRate <= j * Samples * PtsTime
                       /\ j * Samples * PtsTime <= (w + 1) * SampleRate
  <2>1. frame.pts = offset + Audio!Time(j)
    BY <1>1, <1>2, <1>3 DEF Frames
  <2> QED
    BY <2>1, TimeOfFrames
<1> DEFINE a == Ahead + FramePackets - Held
           z == Ahead + FramePackets + 2
           jp == j * FramePackets
           lo == Audio!bitrate
           up == Audio!bitrate + 1
<1>5. jp * Audio!PacketTime < (w + 1) * up /\ w * lo <= jp * Audio!PacketTime
  BY <1>4, FramesAtRate, w + 1 \in Nat \ {0}
<1>6. a * Audio!PacketTime < offset * up /\ offset * lo < z * Audio!PacketTime
  BY <1>1 DEF StartsInTime
<1>7. /\ a \in Int /\ z \in Int /\ jp \in Int /\ offset \in Int /\ lo \in Int /\ up \in Int
      /\ packets - Held = a + jp /\ packets + 2 = z + jp
  <2>1. jp \in Int /\ packets \in Int /\ offset \in Int
    BY <1>1, Distributes DEF AudioTypes
  <2>2. k * FramePackets = jp + FramePackets
    BY <1>2, <1>3, Distributes
  <2> HIDE DEF jp
  <2>3. Ahead = packets - jp - FramePackets
    BY <1>1, <2>1, <2>2 DEF AudioTypes, Ahead
  <2> QED
    BY <2>1, <2>3
<1> HIDE DEF a, z, jp, lo, up
<1>8. /\ (a + jp) * Audio!PacketTime = a * Audio!PacketTime + jp * Audio!PacketTime
      /\ (z + jp) * Audio!PacketTime = z * Audio!PacketTime + jp * Audio!PacketTime
      /\ (offset + (w + 1)) * up = offset * up + (w + 1) * up
      /\ (offset + w) * lo = offset * lo + w * lo
      /\ a * Audio!PacketTime \in Int /\ z * Audio!PacketTime \in Int
      /\ jp * Audio!PacketTime \in Int /\ offset * up \in Int /\ (w + 1) * up \in Int
      /\ offset * lo \in Int /\ w * lo \in Int
  BY <1>7, Distributes, w + 1 \in Int
<1>9. frame.pts + 1 = offset + (w + 1)
  BY <1>4, <1>7
<1>10. (packets - Held) * Audio!PacketTime < (frame.pts + 1) * up
  BY <1>5, <1>6, <1>7, <1>8, <1>9
<1>11. frame.pts * lo < (packets + 2) * Audio!PacketTime
  BY <1>4, <1>5, <1>6, <1>7, <1>8
<1> QED
  BY <1>10, <1>11 DEF lo, up

\* Audio is in its order, or not read at all.
AudioOrVideo ==
  \/ kind = "audio" /\ InOrder /\ StartsInTime
  \/ kind = "video" /\ index = 0

\* Frames of audio are whole in the receiver at most two packets before it is time for them,
\* and late by less than a tick and one bit for each second since the start, over any number
\* of files: when no file ends after its length, the first two frames are in the first file,
\* and an audio frame is not longer than a video frame.
THEOREM AudioIsInTime ==
  ASSUME AudioIsSound, TwoFrames, ShortFrames, LengthsSuffice
  PROVE  Spec => []InTime
<1>1. Init => AudioOrVideo
  <2> SUFFICES ASSUME Init PROVE AudioOrVideo
    OBVIOUS
  <2>1. Audio!AudioInit
    BY DEF Init
  <2>2. CASE kind = "audio"
    BY <2>1, <2>2, AudioStarts DEF Init, AudioOrVideo
  <2>3. CASE kind = "video"
    BY <2>1, <2>3 DEF AudioOrVideo, Audio!AudioInit
  <2> QED
    BY <2>2, <2>3 DEF Init
<1>2. AudioOrVideo /\ [Next]_vars => AudioOrVideo'
  <2> SUFFICES ASSUME AudioOrVideo, [Next]_vars PROVE AudioOrVideo'
    OBVIOUS
  <2>1. CASE VideoPart
    <3>1. kind = "video" /\ UNCHANGED <<kind, audioVars>>
      BY <2>1 DEF VideoPart
    <3> QED
      BY <3>1 DEF AudioOrVideo, audioVars
  <2>2. CASE AudioPart
    <3>1. kind = "audio" /\ kind' = "audio" /\ Audio!AudioNext
      BY <2>2 DEF AudioPart
    <3> QED
      BY <3>1, AudioInductive DEF AudioOrVideo
  <2>3. CASE UNCHANGED vars
    <3>1. UNCHANGED <<kind, audioVars>> /\ UNCHANGED index
      BY <2>3 DEF vars, audioVars
    <3> QED
      BY <3>1, AudioInductive DEF AudioOrVideo
  <2> QED
    BY <2>1, <2>2, <2>3 DEF Next
<1>3. AudioOrVideo => InTime
  BY FramesInTime DEF AudioOrVideo, InTime, Audio!InTime
<1> QED
  BY <1>1, <1>2, <1>3, PTL DEF Spec

\* Audio ends less than a video frame before its video does, and the length that is looked
\* at is that of the video.
FitsVideo ==
  \A a \in AudioFiles : \A i \in DOMAIN a :
    /\ a[i].video % VideoStep = 0
    /\ a[i].video - VideoStep <= Audio!Time(a[i].frames)
    /\ Audio!Time(a[i].frames) < a[i].video
    /\ \A n \in LooksAt(i) : n # 0 /\ a[n].length > 0 => a[n].length = a[i].video

\* The video frame after the end of n is where a video of v ends that started at x.
LEMMA RoundsToVideo ==
  ASSUME NEW x \in Nat, NEW v \in Nat, NEW n \in Nat, x % VideoStep = 0, v % VideoStep = 0,
         v - VideoStep <= n, n < v
  PROVE  /\ (((x + n) \div VideoStep) + 1) * VideoStep = x + v
         /\ (x + v) % VideoStep = 0
<1> USE AudioNumbers
<1> DEFINE u == x \div VideoStep
           w == v \div VideoStep
           d == (x + n) \div VideoStep
<1>1. u \in Nat /\ w \in Nat /\ x = u * VideoStep /\ v = w * VideoStep
  BY Division
<1>2. d \in Nat /\ d * VideoStep <= x + n /\ x + n < d * VideoStep + VideoStep
  <2>1. /\ d \in Nat /\ (x + n) % VideoStep \in Nat /\ (x + n) % VideoStep < VideoStep
        /\ x + n = d * VideoStep + ((x + n) % VideoStep)
    BY Division, x + n \in Nat
  <2> HIDE DEF d
  <2>2. d * VideoStep \in Int
    BY <2>1
  <2> QED
    BY <2>1, <2>2
<1>3. (x + v) % VideoStep = 0
  <2> DEFINE e == (x + v) \div VideoStep
             r == (x + v) % VideoStep
  <2>1. e \in Nat /\ r \in Nat /\ r < VideoStep /\ x + v = e * VideoStep + r
    BY Division, x + v \in Nat
  <2> HIDE DEF e, r, u, w
  <2>2. /\ (u + w) * VideoStep = x + v /\ (e + 1) * VideoStep = e * VideoStep + VideoStep
        /\ e * VideoStep \in Int
    BY <1>1, <2>1, Distributes
  <2>3. e * VideoStep <= (u + w) * VideoStep /\ (u + w) * VideoStep < (e + 1) * VideoStep
    BY <2>1, <2>2
  <2>4. u + w < e + 1
    BY <1>1, <2>1, <2>3, KeepsOrder
  <2>5. e <= u + w
    <3> SUFFICES ASSUME u + w < e PROVE FALSE
      BY <1>1, <2>1
    <3>1. (u + w) * VideoStep < e * VideoStep
      BY <1>1, <2>1, KeepsOrder
    <3> QED
      BY <2>1, <2>2, <3>1
  <2>6. e = u + w
    BY <1>1, <2>1, <2>4, <2>5
  <2> QED
    BY <2>1, <2>2, <2>6 DEF r
<1> HIDE DEF u, w, d
<1>4. /\ (u + w) * VideoStep = x + v
      /\ (u + w - 1) * VideoStep = x + v - VideoStep
      /\ (d + 1) * VideoStep = d * VideoStep + VideoStep
      /\ d * VideoStep \in Int
  <2>1. (u + w) * VideoStep = x + v
    BY <1>1, Distributes
  <2>2. (u + w - 1) * VideoStep = (u + w) * VideoStep - 1 * VideoStep
    BY <1>1, Distributes
  <2> QED
    BY <1>1, <1>2, <2>1, <2>2, Distributes
<1>5. d < u + w
  <2>1. d * VideoStep < (u + w) * VideoStep
    BY <1>2, <1>4
  <2> QED
    BY <1>1, <1>2, <2>1, KeepsOrder
<1>6. u + w - 1 < d + 1
  <2>1. (u + w - 1) * VideoStep < (d + 1) * VideoStep
    BY <1>2, <1>4
  <2> QED
    BY <1>1, <1>2, <2>1, KeepsOrder
<1>7. d + 1 = u + w
  BY <1>1, <1>2, <1>5, <1>6
<1> QED
  BY <1>3, <1>4, <1>7 DEF d

\* The next file starts when the video of the one that ended does.
LEMMA StartsWithVideo ==
  ASSUME AudioIsSound, FitsVideo, InOrder, k = audio[file].frames, offset % VideoStep = 0
  PROVE  /\ Audio!Start = offset + audio[file].video
         /\ Audio!Start % VideoStep = 0
<1> DEFINE n == Audio!Time(k)
           v == audio[file].video
<1>1. AudioTypes
  BY DEF InOrder
<1>2. /\ v \in Nat /\ n \in Nat /\ offset \in Nat
      /\ v % VideoStep = 0 /\ v - VideoStep <= n /\ n < v
      /\ named # 0 /\ audio[named].length > 0 => audio[named].length = v
  <2>1. /\ audio \in AudioFiles /\ file \in DOMAIN audio /\ named \in LooksAt(file)
        /\ k \in Nat /\ offset \in Nat
    BY <1>1 DEF AudioTypes
  <2>2. v \in Nat /\ audio[file].frames \in Nat
    BY <2>1, AudioRecords
  <2>3. n \in Nat
    BY <2>1, TimeOfFrames
  <2>4. /\ v % VideoStep = 0 /\ v - VideoStep <= n /\ n < v
        /\ \A i \in LooksAt(file) : i # 0 /\ audio[i].length > 0 => audio[i].length = v
    BY <2>1 DEF FitsVideo
  <2> QED
    BY <2>1, <2>2, <2>3, <2>4
<1>3. Audio!NextPts = offset + n
  BY <1>1 DEF AudioTypes, Audio!NextPts
<1> HIDE DEF n, v
<1>4. Audio!Rounded = offset + v /\ (offset + v) % VideoStep = 0
  BY <1>2, <1>3, RoundsToVideo DEF Audio!Rounded
<1> QED
  BY <1>2, <1>4 DEF Audio!Start, v

\* Each audio file starts when its video does, over any number of files: when audio ends
\* less than a video frame before its video, and the lengths that are given are the right
\* ones.
THEOREM AudioKeepsStep ==
  ASSUME AudioIsSound, TwoFrames, FitsVideo
  PROVE  Spec => []InStepWithVideo
<1> DEFINE Inv == /\ kind = "audio" => InOrder
                  /\ offset % VideoStep = 0 /\ offset = video
<1>1. Init => Inv
  <2> SUFFICES ASSUME Init PROVE Inv
    OBVIOUS
  <2>1. Audio!AudioInit /\ video = VideoStep
    BY DEF Init
  <2>2. kind = "audio" => InOrder
    BY <2>1, AudioStarts DEF Init
  <2>3. offset = VideoStep
    BY <2>1 DEF Audio!AudioInit
  <2> QED
    BY <2>1, <2>2, <2>3, AudioNumbers
<1>2. Inv /\ [Next]_vars => Inv'
  <2> SUFFICES ASSUME Inv, [Next]_vars PROVE Inv'
    OBVIOUS
  <2>1. CASE VideoPart
    <3>1. kind = "video" /\ UNCHANGED <<kind, audioVars, video>>
      BY <2>1 DEF VideoPart
    <3> QED
      BY <3>1 DEF audioVars
  <2>2. CASE AudioPart
    <3>1. /\ kind = "audio" /\ kind' = "audio" /\ Audio!AudioNext
          /\ video' = IF past' # past THEN video + audio[file].video ELSE video
      BY <2>2 DEF AudioPart
    <3>2. InOrder /\ InOrder'
      BY <3>1, AudioInductive
    <3>3. CASE Audio!Begin \/ Audio!Finish
      <4>1. UNCHANGED <<offset, past>>
        BY <3>3 DEF Audio!Begin, Audio!Finish
      <4> QED
        BY <3>1, <3>2, <4>1
    <3>4. CASE Audio!NextAudioFile
      <4>1. k = audio[file].frames /\ offset' = Audio!Start /\ past' = past + 1
        BY <3>4 DEF Audio!NextAudioFile
      <4>2. past' # past
        BY <3>2, <4>1 DEF InOrder, AudioTypes
      <4>3. Audio!Start = offset + audio[file].video /\ Audio!Start % VideoStep = 0
        BY <3>2, <4>1, StartsWithVideo
      <4> QED
        BY <3>1, <3>2, <4>1, <4>2, <4>3
    <3> QED
      BY <3>1, <3>3, <3>4 DEF Audio!AudioNext
  <2>3. CASE UNCHANGED vars
    <3>1. UNCHANGED <<kind, audioVars, video, offset>>
      BY <2>3 DEF vars, audioVars
    <3> QED
      BY <3>1, AudioInductive
  <2> QED
    BY <2>1, <2>2, <2>3 DEF Next
<1>3. Inv => InStepWithVideo
  BY DEF InStepWithVideo
<1> QED
  BY <1>1, <1>2, <1>3, PTL DEF Spec

LEMMA LeastNumber ==
  ASSUME NEW S, S \subseteq Nat, S # {}
  PROVE  \E j \in S : \A n \in S : j <= n
<1> DEFINE R == OpToRel(<, Nat)
<1>1. IsWellFoundedOn(R, Nat)
  BY NatLessThanWellFounded
<1>2. \A x, y \in Nat : <<x, y>> \in R <=> x < y
  BY DEF OpToRel
<1> HIDE DEF R
<1>3. PICK j \in S : \A n \in S : ~(<<n, j>> \in R)
  BY <1>1, WFMin
<1>4. ASSUME NEW n \in S PROVE j <= n
  <2>1. j \in Nat /\ n \in Nat /\ ~(<<n, j>> \in R)
    BY <1>3
  <2>2. ~(n < j)
    BY <1>2, <2>1, Zenon
  <2> QED
    BY <2>1, <2>2
<1> QED
  BY <1>4

\* Induction, over a set of numbers.
LEMMA Counting ==
  ASSUME NEW S, 0 \in S, \A n \in Nat : n \in S => n + 1 \in S
  PROVE  \A n \in Nat : n \in S
<1> SUFFICES ASSUME Nat \ S # {} PROVE FALSE
  OBVIOUS
<1>1. PICK j \in Nat \ S : \A n \in Nat \ S : j <= n
  BY LeastNumber
<1>2. j # 0 /\ j - 1 \in Nat /\ ~(j <= j - 1)
  BY <1>1
<1>3. j - 1 \in S
  BY <1>1, <1>2
<1>4. (j - 1) + 1 \in S
  BY <1>2, <1>3
<1> QED
  BY <1>1, <1>4

-----------------------------------------------------------------------------
(* Tokens.                                                                    *)

\* What EsOf has after token i.
EsNext(s, f, i) == IF i = 0 THEN <<>>
                   ELSE IF IsHeader(s[i]) THEN f[i - 1] ELSE Append(f[i - 1], s[i])
IsEs(s, f) == f = [i \in 0..Len(s) |-> EsNext(s, f, i)]

LEMMA EsNextIs ==
  ASSUME NEW s, NEW n \in Nat, NEW f, f = [i \in 0..n |-> EsNext(s, f, i)]
  PROVE  \A i \in 0..n : f[i] = EsNext(s, f, i)
<1> DEFINE F == [i \in 0..n |-> EsNext(s, f, i)]
<1>1. \A i \in 0..n : F[i] = EsNext(s, f, i)
  OBVIOUS
<1>2. f = F
  OBVIOUS
<1> HIDE DEF F
<1> QED
  BY <1>1, <1>2

LEMMA EsExists ==
  ASSUME NEW T, NEW s \in Seq(T)
  PROVE  \E f : IsEs(s, f)
<1> DEFINE P(n, f) == f = [i \in 0..n |-> EsNext(s, f, i)]
           S == {n \in Nat : \E f : P(n, f)}
<1>1. 0 \in S
  <2> DEFINE f == [i \in 0..0 |-> <<>>]
  <2>1. P(0, f)
    BY DEF EsNext
  <2> QED
    BY <2>1
<1>2. ASSUME NEW n \in Nat, n \in S PROVE n + 1 \in S
  <2>1. PICK f : P(n, f)
    BY <1>2
  <2>5. \A i \in 0..n : f[i] = EsNext(s, f, i)
    BY <2>1, EsNextIs
  <2> DEFINE g == [i \in 0..(n + 1) |-> IF i <= n THEN f[i] ELSE EsNext(s, f, n + 1)]
  <2>2. \A i \in 0..n : g[i] = f[i]
    OBVIOUS
  <2>3. ASSUME NEW i \in 0..(n + 1) PROVE g[i] = EsNext(s, g, i)
    <3>1. CASE i = 0
      BY <2>2, <2>5, <3>1 DEF EsNext
    <3>2. CASE i # 0 /\ i <= n
      <4>1. g[i - 1] = f[i - 1] /\ g[i] = f[i] /\ f[i] = EsNext(s, f, i)
        BY <2>2, <2>5, <3>2
      <4> QED
        BY <3>2, <4>1 DEF EsNext
    <3>3. CASE i = n + 1
      <4>1. g[i - 1] = f[i - 1] /\ g[i] = EsNext(s, f, i)
        BY <2>2, <3>3
      <4> QED
        BY <3>3, <4>1 DEF EsNext
    <3> QED
      BY <3>1, <3>2, <3>3
  <2>4. P(n + 1, g)
    BY <2>3
  <2>6. \E h : P(n + 1, h)
    BY <2>4
  <2> QED
    BY <2>6
<1> HIDE DEF S
<1>3. Len(s) \in S
  BY <1>1, <1>2, Counting
<1> QED
  BY <1>3 DEF S, IsEs

\* EsOf looks at nothing of headers.
LEMMA EsAgree ==
  ASSUME NEW T, NEW U, NEW s \in Seq(T), NEW t \in Seq(U), NEW f, NEW g, IsEs(s, f), IsEs(t, g),
         NEW k0 \in Nat, k0 <= Len(s), k0 <= Len(t),
         \A i \in 1..k0 : /\ IsHeader(s[i]) <=> IsHeader(t[i])
                          /\ IsHeader(s[i]) \/ s[i] = t[i]
  PROVE  f[k0] = g[k0]
<1> DEFINE S == {n \in Nat : n <= k0 => f[n] = g[n]}
<1>0. /\ \A n \in 0..k0 : f[n] = EsNext(s, f, n)
      /\ \A n \in 0..k0 : g[n] = EsNext(t, g, n)
  <2>1. \A n \in 0..Len(s) : f[n] = EsNext(s, f, n)
    BY EsNextIs DEF IsEs
  <2>2. \A n \in 0..Len(t) : g[n] = EsNext(t, g, n)
    BY EsNextIs DEF IsEs
  <2> QED
    BY <2>1, <2>2
<1>1. 0 \in S
  BY <1>0 DEF EsNext
<1>2. ASSUME NEW n \in Nat, n \in S PROVE n + 1 \in S
  <2> SUFFICES ASSUME n + 1 <= k0 PROVE f[n + 1] = g[n + 1]
    OBVIOUS
  <2>1. /\ f[n] = g[n] /\ n + 1 \in 1..k0 /\ (n + 1) - 1 = n /\ n + 1 # 0
        /\ f[n + 1] = EsNext(s, f, n + 1) /\ g[n + 1] = EsNext(t, g, n + 1)
    BY <1>0, <1>2
  <2>2. /\ f[n + 1] = IF IsHeader(s[n + 1]) THEN f[n] ELSE Append(f[n], s[n + 1])
        /\ g[n + 1] = IF IsHeader(t[n + 1]) THEN g[n] ELSE Append(g[n], t[n + 1])
    BY <2>1 DEF EsNext
  <2> QED
    BY <2>1, <2>2
<1> HIDE DEF S
<1>3. k0 \in S
  BY <1>1, <1>2, Counting
<1> QED
  BY <1>3 DEF S

LEMMA EsOfIs ==
  ASSUME NEW T, NEW s \in Seq(T), NEW f, IsEs(s, f)
  PROVE  EsOf(s) = f[Len(s)]
<1> DEFINE e == CHOOSE g : IsEs(s, g)
<1>1. IsEs(s, e)
  OBVIOUS
<1>2. EsOf(s) = e[Len(s)]
  BY DEF EsOf, IsEs, EsNext
<1> HIDE DEF e
<1> QED
  BY <1>1, <1>2, EsAgree

LEMMA EsSame ==
  ASSUME NEW T, NEW U, NEW s \in Seq(T), NEW t \in Seq(U), Len(s) = Len(t),
         \A i \in 1..Len(s) : /\ IsHeader(s[i]) <=> IsHeader(t[i])
                              /\ IsHeader(s[i]) \/ s[i] = t[i]
  PROVE  EsOf(s) = EsOf(t)
<1>1. PICK f : IsEs(s, f)
  BY EsExists
<1>2. PICK g : IsEs(t, g)
  BY EsExists
<1>3. Len(s) \in Nat
  OBVIOUS
<1>4. f[Len(s)] = g[Len(s)]
  BY <1>1, <1>2, <1>3, EsAgree
<1> QED
  BY <1>1, <1>2, <1>4, EsOfIs

LEMMA EsEmpty == EsOf(<<>>) = <<>>
<1>1. <<>> \in Seq({}) /\ Len(<<>>) = 0
  OBVIOUS
<1>2. PICK f : IsEs(<<>>, f)
  BY <1>1, EsExists
<1>3. f[0] = <<>>
  <2>1. f[0] = EsNext(<<>>, f, 0)
    BY <1>1, <1>2, EsNextIs DEF IsEs
  <2> QED
    BY <2>1 DEF EsNext
<1>4. EsOf(<<>>) = f[Len(<<>>)]
  BY <1>1, <1>2, EsOfIs
<1> QED
  BY <1>1, <1>3, <1>4

LEMMA EsAppend ==
  ASSUME NEW T, NEW s \in Seq(T), NEW x \in T
  PROVE  EsOf(Append(s, x)) = IF IsHeader(x) THEN EsOf(s) ELSE Append(EsOf(s), x)
<1> DEFINE t == Append(s, x)
           n == Len(s)
<1>1. /\ t \in Seq(T) /\ Len(t) = n + 1 /\ t[n + 1] = x /\ n \in Nat
      /\ \A i \in 1..n : t[i] = s[i]
  OBVIOUS
<1> HIDE DEF t, n
<1>2. PICK f : IsEs(s, f)
  BY EsExists
<1>3. PICK g : IsEs(t, g)
  BY <1>1, EsExists
<1>4. f[n] = g[n]
  <2>1. n <= Len(s) /\ n <= Len(t)
    BY <1>1 DEF n
  <2> QED
    BY <1>1, <1>2, <1>3, <2>1, EsAgree
<1>5. g[n + 1] = EsNext(t, g, n + 1)
  <2>1. Len(t) \in Nat /\ n + 1 \in 0..Len(t)
    BY <1>1
  <2> QED
    BY <1>3, <2>1, EsNextIs DEF IsEs
<1>6. g[n + 1] = IF IsHeader(x) THEN g[n] ELSE Append(g[n], x)
  BY <1>1, <1>5 DEF EsNext
<1>7. EsOf(s) = f[n] /\ EsOf(t) = g[n + 1]
  BY <1>1, <1>2, <1>3, EsOfIs DEF n
<1> QED
  BY <1>4, <1>6, <1>7 DEF t

\* A sequence is what it was before its last element, and that.
LEMMA LastOne ==
  ASSUME NEW T, NEW s \in Seq(T), NEW n \in Nat, Len(s) = n + 1
  PROVE  /\ SubSeq(s, 1, n) \in Seq(T) /\ Len(SubSeq(s, 1, n)) = n /\ s[n + 1] \in T
         /\ s = Append(SubSeq(s, 1, n), s[n + 1])
<1>1. /\ SubSeq(s, 1, n) \in Seq(T) /\ Len(SubSeq(s, 1, n)) = n /\ s[n + 1] \in T
      /\ \A i \in 1..n : SubSeq(s, 1, n)[i] = s[i]
  OBVIOUS
<1> DEFINE t == Append(SubSeq(s, 1, n), s[n + 1])
<1>2. t \in Seq(T) /\ Len(t) = n + 1 /\ \A i \in 1..(n + 1) : t[i] = s[i]
  BY <1>1
<1>3. s = t
  <2> HIDE DEF t
  <2>1. s = [i \in 1..(n + 1) |-> s[i]]
    OBVIOUS
  <2>2. t = [i \in 1..(n + 1) |-> t[i]]
    BY <1>2
  <2> QED
    BY <1>2, <2>1, <2>2
<1> QED
  BY <1>1, <1>3

LEMMA EsType ==
  ASSUME NEW T
  PROVE  \A s \in Seq(T) : EsOf(s) \in Seq(T) /\ Len(EsOf(s)) <= Len(s)
<1> DEFINE S == {n \in Nat : \A s \in Seq(T) : Len(s) = n
                                => EsOf(s) \in Seq(T) /\ Len(EsOf(s)) <= n}
<1>1. 0 \in S
  <2>1. ASSUME NEW s \in Seq(T), Len(s) = 0 PROVE EsOf(s) = <<>>
    BY <2>1, EsEmpty, s = <<>>
  <2> QED
    BY <2>1
<1>2. ASSUME NEW n \in Nat, n \in S PROVE n + 1 \in S
  <2> SUFFICES ASSUME NEW s \in Seq(T), Len(s) = n + 1
               PROVE  EsOf(s) \in Seq(T) /\ Len(EsOf(s)) <= n + 1
    OBVIOUS
  <2> DEFINE t == SubSeq(s, 1, n)
             x == s[n + 1]
  <2>1. t \in Seq(T) /\ Len(t) = n /\ x \in T /\ s = Append(t, x)
    BY LastOne
  <2> HIDE DEF t, x
  <2>2. EsOf(t) \in Seq(T) /\ Len(EsOf(t)) <= n
    BY <1>2, <2>1
  <2>3. EsOf(s) = EsOf(t) \/ EsOf(s) = Append(EsOf(t), x)
    BY <2>1, EsAppend
  <2> QED
    BY <2>1, <2>2, <2>3, SMTT(30)
<1> HIDE DEF S
<1>3. \A n \in Nat : n \in S
  BY <1>1, <1>2, Counting
<1> QED
  BY <1>3 DEF S

LEMMA EsConcat ==
  ASSUME NEW T, NEW s \in Seq(T)
  PROVE  \A t \in Seq(T) : EsOf(s \o t) = EsOf(s) \o EsOf(t)
<1> DEFINE S == {n \in Nat : \A t \in Seq(T) : Len(t) = n => EsOf(s \o t) = EsOf(s) \o EsOf(t)}
<1>0. EsOf(s) \in Seq(T)
  BY EsType
<1>1. 0 \in S
  <2>1. ASSUME NEW t \in Seq(T), Len(t) = 0 PROVE EsOf(s \o t) = EsOf(s) \o EsOf(t)
    <3>1. t = <<>> /\ s \o <<>> = s /\ EsOf(s) \o <<>> = EsOf(s)
      BY <1>0, <2>1
    <3> QED
      BY <3>1, EsEmpty
  <2> QED
    BY <2>1
<1>2. ASSUME NEW n \in Nat, n \in S PROVE n + 1 \in S
  <2> SUFFICES ASSUME NEW t \in Seq(T), Len(t) = n + 1
               PROVE  EsOf(s \o t) = EsOf(s) \o EsOf(t)
    OBVIOUS
  <2> DEFINE r == SubSeq(t, 1, n)
             x == t[n + 1]
  <2>1. r \in Seq(T) /\ Len(r) = n /\ x \in T /\ t = Append(r, x)
    BY LastOne
  <2> HIDE DEF r, x
  <2>2. EsOf(s \o r) = EsOf(s) \o EsOf(r)
    BY <1>2, <2>1
  <2>3. s \o r \in Seq(T) /\ s \o t = Append(s \o r, x)
    BY <2>1
  <2>4. /\ EsOf(s \o t) = IF IsHeader(x) THEN EsOf(s \o r) ELSE Append(EsOf(s \o r), x)
        /\ EsOf(t) = IF IsHeader(x) THEN EsOf(r) ELSE Append(EsOf(r), x)
    BY <2>1, <2>3, EsAppend
  <2>5. EsOf(r) \in Seq(T)
    BY <2>1, EsType
  <2>6. EsOf(s) \o Append(EsOf(r), x) = Append(EsOf(s) \o EsOf(r), x)
    BY <1>0, <2>1, <2>5
  <2> QED
    BY <2>2, <2>4, <2>6
<1> HIDE DEF S
<1>3. \A n \in Nat : n \in S
  BY <1>1, <1>2, Counting
<1> QED
  BY <1>3 DEF S

LEMMA EsOne ==
  ASSUME NEW T, NEW x \in T
  PROVE  EsOf(<<x>>) = IF IsHeader(x) THEN <<>> ELSE <<x>>
<1>1. <<x>> = Append(<<>>, x) /\ <<>> \in Seq(T) /\ Append(<<>>, x) = <<x>>
  OBVIOUS
<1> QED
  BY <1>1, EsAppend, EsEmpty

-----------------------------------------------------------------------------
(* Packets.                                                                   *)

\* What ts2pes takes from a packet.
Payload(p) == IF p.adapt \in {1, 3} THEN p.data ELSE <<>>

LEMMA PesInNone == PesIn(<<>>) = <<>>
<1>1. [j \in DOMAIN <<>> |-> Payload(<<>>[j])] = <<>>
  OBVIOUS
<1>2. PesIn(<<>>) = FlattenSeq([j \in DOMAIN <<>> |-> Payload(<<>>[j])])
  BY DEF PesIn, Payload
<1>3. Len(<<>>) = 0
  OBVIOUS
<1> QED
  BY <1>1, <1>2, <1>3 DEF FlattenSeq

LEMMA PesInOne ==
  ASSUME NEW p
  PROVE  PesIn(<<p>>) = Payload(p)
<1> DEFINE s == <<Payload(p)>>
           P(f) == f = [i \in 1..Len(s) |-> IF i = 1 THEN s[i] ELSE f[i - 1] \o s[i]]
           e == CHOOSE f : P(f)
<1>1. [j \in DOMAIN <<p>> |-> Payload(<<p>>[j])] = s
  OBVIOUS
<1>2. Len(s) = 1 /\ s[1] = Payload(p)
  OBVIOUS
<1>3. PesIn(<<p>>) = FlattenSeq(s)
  BY <1>1 DEF PesIn, Payload
<1>4. FlattenSeq(s) = e[1]
  BY <1>2 DEF FlattenSeq
<1>5. P([i \in 1..1 |-> s[1]])
  BY <1>2
<1>6. P(e)
  BY <1>5
<1>7. e[1] = s[1]
  <2> HIDE DEF e
  <2> DEFINE g == [i \in 1..Len(s) |-> IF i = 1 THEN s[i] ELSE e[i - 1] \o s[i]]
  <2>1. e = g
    BY <1>6
  <2>2. g[1] = s[1]
    BY <1>2
  <2> HIDE DEF g
  <2> QED
    BY <2>1, <2>2
<1> QED
  BY <1>2, <1>3, <1>4, <1>7

LEMMA PesInTwo ==
  ASSUME NEW p, NEW q
  PROVE  PesIn(<<p, q>>) = Payload(p) \o Payload(q)
<1> DEFINE s == <<Payload(p), Payload(q)>>
           P(f) == f = [i \in 1..Len(s) |-> IF i = 1 THEN s[i] ELSE f[i - 1] \o s[i]]
           e == CHOOSE f : P(f)
<1>1. [j \in DOMAIN <<p, q>> |-> Payload(<<p, q>>[j])] = s
  OBVIOUS
<1>2. Len(s) = 2 /\ s[1] = Payload(p) /\ s[2] = Payload(q)
  OBVIOUS
<1>3. PesIn(<<p, q>>) = FlattenSeq(s)
  BY <1>1 DEF PesIn, Payload
<1>4. FlattenSeq(s) = e[2]
  BY <1>2 DEF FlattenSeq
<1>5. P([i \in 1..2 |-> IF i = 1 THEN s[1] ELSE s[1] \o s[2]])
  BY <1>2
<1>6. P(e)
  BY <1>5
<1>7. e[1] = s[1] /\ e[2] = e[1] \o s[2]
  <2> HIDE DEF e
  <2> DEFINE g == [i \in 1..Len(s) |-> IF i = 1 THEN s[i] ELSE e[i - 1] \o s[i]]
  <2>1. e = g
    BY <1>6
  <2>2. g[1] = s[1] /\ g[2] = e[1] \o s[2]
    BY <1>2
  <2> HIDE DEF g
  <2> QED
    BY <2>1, <2>2
<1> QED
  BY <1>2, <1>3, <1>4, <1>7

-----------------------------------------------------------------------------
(* The queue.                                                                 *)

SumNext(q, f, i) == IF i = 0 THEN 0 ELSE f[i - 1] + q[i]
IsSum(q, f) == f = [i \in 0..Len(q) |-> SumNext(q, f, i)]

LEMMA SumNextIs ==
  ASSUME NEW q, NEW n \in Nat, NEW f, f = [i \in 0..n |-> SumNext(q, f, i)]
  PROVE  \A i \in 0..n : f[i] = SumNext(q, f, i)
<1> DEFINE F == [i \in 0..n |-> SumNext(q, f, i)]
<1>1. \A i \in 0..n : F[i] = SumNext(q, f, i)
  OBVIOUS
<1>2. f = F
  OBVIOUS
<1> HIDE DEF F
<1> QED
  BY <1>1, <1>2

LEMMA SumExists ==
  ASSUME NEW q \in Seq(Nat)
  PROVE  \E f : IsSum(q, f)
<1> DEFINE P(n, f) == f = [i \in 0..n |-> SumNext(q, f, i)]
           S == {n \in Nat : \E f : P(n, f)}
<1>1. 0 \in S
  <2> DEFINE f == [i \in 0..0 |-> 0]
  <2>1. P(0, f)
    BY DEF SumNext
  <2> QED
    BY <2>1
<1>2. ASSUME NEW n \in Nat, n \in S PROVE n + 1 \in S
  <2>1. PICK f : P(n, f)
    BY <1>2
  <2>2. \A i \in 0..n : f[i] = SumNext(q, f, i)
    BY <2>1, SumNextIs
  <2> DEFINE g == [i \in 0..(n + 1) |-> IF i <= n THEN f[i] ELSE SumNext(q, f, n + 1)]
  <2>3. \A i \in 0..n : g[i] = f[i]
    OBVIOUS
  <2>4. ASSUME NEW i \in 0..(n + 1) PROVE g[i] = SumNext(q, g, i)
    <3>1. CASE i = 0
      BY <2>2, <2>3, <3>1 DEF SumNext
    <3>2. CASE i # 0 /\ i <= n
      <4>1. g[i - 1] = f[i - 1] /\ g[i] = f[i] /\ f[i] = SumNext(q, f, i)
        BY <2>2, <2>3, <3>2
      <4> QED
        BY <3>2, <4>1 DEF SumNext
    <3>3. CASE i = n + 1
      <4>1. g[i - 1] = f[i - 1] /\ g[i] = SumNext(q, f, i)
        BY <2>3, <3>3
      <4> QED
        BY <3>3, <4>1 DEF SumNext
    <3> QED
      BY <3>1, <3>2, <3>3
  <2>5. P(n + 1, g)
    BY <2>4
  <2>6. \E h : P(n + 1, h)
    BY <2>5
  <2> QED
    BY <2>6
<1> HIDE DEF S
<1>3. Len(q) \in S
  BY <1>1, <1>2, Counting, SMTT(30)
<1> QED
  BY <1>3 DEF S, IsSum

\* The sums of two queues of which one goes on with the other from place d, where a is.
LEMMA SumsAgree ==
  ASSUME NEW q \in Seq(Nat), NEW r \in Seq(Nat), NEW f, NEW g, IsSum(q, f), IsSum(r, g),
         NEW d \in Nat, NEW n0 \in Nat, n0 + d <= Len(q), n0 <= Len(r), f[d] \in Nat,
         \A i \in 1..n0 : q[i + d] = r[i]
  PROVE  g[n0] \in Nat /\ f[n0 + d] = f[d] + g[n0]
<1> DEFINE S == {n \in Nat : n <= n0 => g[n] \in Nat /\ f[n + d] = f[d] + g[n]}
<1>0. /\ \A n \in 0..Len(q) : f[n] = SumNext(q, f, n)
      /\ \A n \in 0..Len(r) : g[n] = SumNext(r, g, n)
  <2>1. \A n \in 0..Len(q) : f[n] = SumNext(q, f, n)
    BY SumNextIs DEF IsSum
  <2>2. \A n \in 0..Len(r) : g[n] = SumNext(r, g, n)
    BY SumNextIs DEF IsSum
  <2> QED
    BY <2>1, <2>2
<1>1. 0 \in S
  <2>1. g[0] = 0
    BY <1>0 DEF SumNext
  <2> QED
    BY <2>1
<1>2. ASSUME NEW n \in Nat, n \in S PROVE n + 1 \in S
  <2> SUFFICES ASSUME n + 1 <= n0
               PROVE  g[n + 1] \in Nat /\ f[(n + 1) + d] = f[d] + g[n + 1]
    OBVIOUS
  <2>1. g[n] \in Nat /\ f[n + d] = f[d] + g[n]
    BY <1>2
  <2> DEFINE a == n + 1
             b == (n + 1) + d
  <2>2. /\ a \in 1..n0 /\ a \in 0..Len(r) /\ b \in 0..Len(q) /\ a # 0 /\ b # 0
        /\ a - 1 = n /\ b - 1 = n + d /\ b = a + d /\ a \in 1..Len(r)
    OBVIOUS
  <2> HIDE DEF a, b
  <2>3. f[b] = SumNext(q, f, b) /\ g[a] = SumNext(r, g, a)
    BY <1>0, <2>2
  <2>7. q[b] = r[a] /\ r[a] \in Nat
    <3>1. q[a + d] = r[a]
      BY <2>2
    <3>2. r[a] \in Nat
      BY <2>2, ElementOfSeq
    <3> QED
      BY <2>2, <3>1, <3>2
  <2>4. f[b] = f[n + d] + r[a] /\ g[a] = g[n] + r[a]
    BY <2>2, <2>3, <2>7 DEF SumNext
  <2>5. f[d] \in Nat
    OBVIOUS
  <2>6. g[a] \in Nat /\ f[b] = f[d] + g[a]
    <3> DEFINE u == g[n]
               v == f[d]
               w == r[a]
    <3>1. u \in Nat /\ v \in Nat /\ w \in Nat /\ f[b] = (v + u) + w /\ g[a] = u + w
      BY <2>1, <2>4, <2>5, <2>7
    <3> HIDE DEF u, v, w
    <3>2. (v + u) + w = v + (u + w) /\ u + w \in Nat
      BY <3>1
    <3> QED
      BY <3>1, <3>2 DEF v
  <2> QED
    BY <2>6 DEF a, b
<1> HIDE DEF S
<1>3. n0 \in S
  BY <1>1, <1>2, Counting
<1> QED
  BY <1>3 DEF S

LEMMA SumStarts ==
  ASSUME NEW q \in Seq(Nat), NEW f, IsSum(q, f)
  PROVE  f[0] = 0 /\ \A n \in 0..Len(q) : f[n] \in Nat
<1>0. \A n \in 0..Len(q) : f[n] = SumNext(q, f, n)
  BY SumNextIs DEF IsSum
<1>1. f[0] = 0
  BY <1>0 DEF SumNext
<1>2. ASSUME NEW n \in 0..Len(q) PROVE f[n] \in Nat
  BY <1>1, SumsAgree
<1> QED
  BY <1>1, <1>2

LEMMA TotalIs ==
  ASSUME NEW q \in Seq(Nat), NEW f, IsSum(q, f)
  PROVE  Total(q) = f[Len(q)]
<1> DEFINE e == CHOOSE g : IsSum(q, g)
<1>1. IsSum(q, e)
  OBVIOUS
<1>2. Total(q) = e[Len(q)]
  BY DEF Total, IsSum, SumNext
<1> HIDE DEF e
<1>3. f[0] = 0 /\ e[0] = 0 /\ Len(q) \in Nat
  BY <1>1, SumStarts
<1>4. e[Len(q)] \in Nat /\ f[Len(q) + 0] = f[0] + e[Len(q)]
  BY <1>1, <1>3, SumsAgree
<1> QED
  BY <1>2, <1>3, <1>4

LEMMA TotalType ==
  ASSUME NEW q \in Seq(Nat)
  PROVE  Total(q) \in Nat
<1>1. PICK f : IsSum(q, f)
  BY SumExists
<1> QED
  BY <1>1, SumStarts, TotalIs

LEMMA TotalEmpty == Total(<<>>) = 0
<1>1. <<>> \in Seq(Nat) /\ Len(<<>>) = 0
  OBVIOUS
<1>2. PICK f : IsSum(<<>>, f)
  BY <1>1, SumExists
<1>3. f[0] = 0 /\ Total(<<>>) = f[Len(<<>>)]
  BY <1>1, <1>2, SumStarts, TotalIs
<1> QED
  BY <1>1, <1>3

LEMMA TotalAppend ==
  ASSUME NEW q \in Seq(Nat), NEW x \in Nat
  PROVE  Total(Append(q, x)) = Total(q) + x
<1> DEFINE r == Append(q, x)
           n == Len(q)
<1>1. /\ r \in Seq(Nat) /\ Len(r) = n + 1 /\ r[n + 1] = x /\ n \in Nat
      /\ \A i \in 1..n : r[i] = q[i]
  OBVIOUS
<1> HIDE DEF r
<1>2. PICK f : IsSum(r, f)
  BY <1>1, SumExists
<1>3. PICK g : IsSum(q, g)
  BY SumExists
<1>4. f[0] = 0 /\ g[n] \in Nat
  BY <1>1, <1>2, <1>3, SumStarts
<1>5. f[n + 0] = f[0] + g[n]
  <2>1. n + 0 <= Len(r) /\ n <= Len(q) /\ f[0] \in Nat /\ \A i \in 1..n : r[i + 0] = q[i]
    BY <1>1, <1>4
  <2> HIDE DEF n
  <2> QED
    BY <1>1, <1>2, <1>3, <2>1, SumsAgree
<1>6. f[n + 1] = f[n] + x
  <2>1. f[n + 1] = SumNext(r, f, n + 1)
    <3>1. Len(r) \in Nat /\ n + 1 \in 0..Len(r)
      BY <1>1
    <3> QED
      BY <1>2, <3>1, SumNextIs DEF IsSum
  <2> QED
    BY <1>1, <2>1 DEF SumNext
<1>7. Total(r) = f[n + 1] /\ Total(q) = g[n]
  BY <1>1, <1>2, <1>3, TotalIs
<1> QED
  BY <1>1, <1>4, <1>5, <1>6, <1>7 DEF r

LEMMA TotalTail ==
  ASSUME NEW q \in Seq(Nat), q # <<>>
  PROVE  /\ Head(q) \in Nat /\ Tail(q) \in Seq(Nat)
         /\ Total(q) = Head(q) + Total(Tail(q))
<1> DEFINE r == Tail(q)
           n == Len(r)
<1>1. /\ Head(q) \in Nat /\ r \in Seq(Nat) /\ n \in Nat /\ Len(q) = n + 1 /\ Head(q) = q[1]
      /\ \A i \in 1..n : q[i + 1] = r[i]
  OBVIOUS
<1> HIDE DEF r, n
<1>2. PICK f : IsSum(q, f)
  BY SumExists
<1>3. PICK g : IsSum(r, g)
  BY <1>1, SumExists
<1>4. f[1] = q[1]
  <2>1. f[1] = SumNext(q, f, 1)
    <3>1. Len(q) \in Nat /\ 1 \in 0..Len(q)
      BY <1>1
    <3> QED
      BY <1>2, <3>1, SumNextIs DEF IsSum
  <2>2. f[0] = 0
    BY <1>2, SumStarts
  <2> QED
    BY <1>1, <2>1, <2>2 DEF SumNext
<1>5. g[n] \in Nat /\ f[n + 1] = f[1] + g[n]
  <2>1. n + 1 <= Len(q) /\ n <= Len(r) /\ f[1] \in Nat
    BY <1>1, <1>4 DEF n
  <2>2. 1 \in Nat /\ \A i \in 1..n : q[i + 1] = r[i]
    BY <1>1
  <2> HIDE DEF n
  <2>3. r \in Seq(Nat) /\ n \in Nat
    BY <1>1
  <2> QED
    BY <1>2, <1>3, <2>1, <2>2, <2>3, SumsAgree
<1>6. Total(q) = f[n + 1] /\ Total(r) = g[n]
  BY <1>1, <1>2, <1>3, TotalIs DEF n
<1> QED
  BY <1>1, <1>4, <1>5, <1>6 DEF r

-----------------------------------------------------------------------------
(* pesvideo2ts.                                                               *)

\* A header with a DTS.
Both(t) == t.kind = "pes" /\ t.both

\* What follows a token of a file: a DTS when there should be one, and nowhere else, and no
\* header right after the beginning of another.
Follows(t, u) == (Both(t) <=> u.kind = "dts") /\ (t.kind = "pes" => u.kind # "pes")

\* A file begins with a header, and does not end in the beginning of one.  T has all tokens.
SoundFile(T, p) ==
  /\ p \in Seq(T) /\ Len(p) >= 2 /\ p[1].kind = "pes" /\ p[Len(p)].kind # "pes"
  /\ \A i \in 1..(Len(p) - 1) : Follows(p[i], p[i + 1])

FilesAreSound(T) ==
  /\ VideoFiles # {}
  /\ \A t \in T : /\ t.kind = "pes" => t \in [kind : {"pes"}, pts : 0..(PtsMax - 1), both : BOOLEAN]
                  /\ t.kind = "dts" => t \in [kind : {"dts"}, dts : 0..(PtsMax - 1)]
  /\ \A v \in VideoFiles : 1 \in DOMAIN v /\ \A i \in DOMAIN v : SoundFile(T, PesOf(v[i].stream))

\* The payload of a packet, with its payload_unit_start_indicator.
Marked(unit, d) ==
  /\ d # <<>> => (unit <=> d[1].kind = "pes")
  /\ \A j \in 2..Len(d) : d[j].kind # "pes"

\* A header is not cut.
Timed(d) == Both(d[1]) => Len(d) > 1 /\ d[2].kind = "dts"

Shipments(T) ==
  {x \in [packet : [pusi : BOOLEAN, adapt : {1, 3}, data : Seq(T)], es : Int] :
     x.packet.data # <<>> /\ Len(x.packet.data) <= Room /\ Marked(x.packet.pusi, x.packet.data) /\ Timed(x.packet.data)}

\* Of two packets the second has one byte.
Shipping(T) ==
  \/ toSend = <<>>
  \/ \E x \in Shipments(T) : toSend = <<x>>
  \/ \E x \in Shipments(T), y \in Shipments(T) : toSend = <<x, y>> /\ Len(y.packet.data) = 1

StreamTypes(T) ==
  /\ 1 \in DOMAIN files /\ \A i \in DOMAIN files : SoundFile(T, files[i].pes)
  /\ open \in DOMAIN files /\ at \in Nat
  /\ loopOn \in BOOLEAN /\ byteRead \in BOOLEAN /\ pusi \in BOOLEAN
  /\ look \in Seq(T) /\ data \in Seq(T) /\ Len(data) < Room
  /\ Shipping(T)
  /\ es \in [input : Int, old : Int, last : Int]

\* The input has ended, and what is left of it is in the look-ahead buffer.
AtEnd == ~loopOn /\ ~byteRead /\ at = Len(files[open].pes)

\* Where the loop is.
Phases ==
  /\ pc \in {"look", "next", "head", "fill", "send", "nulls", "ended"}
  /\ pc # "ended" => at <= Len(files[open].pes)
  /\ pc # "ended" /\ look # <<>> /\ at # 0 => look[Len(look)] = files[open].pes[at]
  /\ at = 0 => pc = "look" /\ loopOn /\ look[1].kind # "pes"
  /\ pc \in {"look", "next"} \/ (pc = "ended" /\ loopOn) => Len(look) = 1
  /\ pc = "next" => loopOn
  /\ pc \in {"head", "fill"} => (Len(look) = 2 /\ byteRead) \/ (Len(look) = 1 /\ AtEnd)
  /\ pc \in {"send", "nulls"} => \/ IsStart /\ byteRead /\ pusi
                                 \/ Len(look) = 1 /\ byteRead /\ ~pusi
                                 \/ look = <<>> /\ AtEnd
  /\ pc = "ended" /\ ~loopOn => look = <<>>
  /\ pc = "send" => toSend # <<>>
  /\ pc \notin {"send", "nulls"} => toSend = <<>>

\* What is in the packet.
Payloads ==
  /\ Marked(pusi, data)
  /\ pc \in {"look", "next"} \/ (pc = "ended" /\ loopOn) => (data = <<>> => ~pusi)
  /\ pc = "head" => (data = <<>> => ~pusi \/ IsStart)
  /\ pc = "fill" => IF IsStart THEN data = <<>> /\ pusi ELSE (data = <<>> => ~pusi)
  /\ pc \in {"send", "nulls"} => data = <<>>
  /\ pc = "ended" /\ ~loopOn => data = <<>>

\* After the first half of a header comes the second.
NextIsDts == at < Len(files[open].pes) /\ files[open].pes[at + 1].kind = "dts"
Headers ==
  /\ data # <<>> /\ Both(data[1]) => IF Len(data) = 1 THEN look # <<>> /\ look[1].kind = "dts"
                                     ELSE data[2].kind = "dts"
  /\ look # <<>> /\ Both(look[1]) => IF Len(look) = 2 THEN look[2].kind = "dts" ELSE NextIsDts
  /\ Len(look) = 2 /\ Both(look[2]) => NextIsDts
  /\ pc = "next" => at = Len(files[open].pes)
  /\ pc = "ended" /\ look # <<>> => look[1].kind # "pes"
  /\ Len(look) = 2 /\ look[1].kind = "pes" => look[2].kind # "pes"

Chain(T) == StreamTypes(T) /\ Phases /\ Payloads /\ Headers

\* What follows a header of a file.
LEMMA FollowsHeader ==
  ASSUME NEW T, NEW p, SoundFile(T, p), NEW i \in 1..Len(p), p[i].kind = "pes"
  PROVE  i < Len(p) /\ p[i + 1].kind # "pes" /\ (Both(p[i]) <=> p[i + 1].kind = "dts")
<1>1. p[Len(p)].kind # "pes" /\ Len(p) \in Nat
  BY DEF SoundFile
<1>2. i # Len(p)
  BY <1>1
<1>3. i \in 1..(Len(p) - 1)
  BY <1>1, <1>2
<1>4. Follows(p[i], p[i + 1])
  BY <1>3 DEF SoundFile
<1>5. p[i + 1].kind # "pes" /\ (Both(p[i]) <=> p[i + 1].kind = "dts")
  BY <1>4 DEF Follows
<1> QED
  BY <1>3, <1>5

LEMMA FollowsInFile ==
  ASSUME NEW T, NEW p, SoundFile(T, p), NEW i \in 1..Len(p), Both(p[i])
  PROVE  i < Len(p) /\ p[i + 1].kind = "dts"
BY FollowsHeader DEF Both

LEMMA StreamStarts ==
  ASSUME NEW T, FilesAreSound(T), Init
  PROVE  Chain(T)
<1>1. PICK v \in VideoFiles : files = FilesOf(v) /\ loopOn \in BOOLEAN
  <2>1. Some(VideoFiles) \in VideoFiles
    BY DEF FilesAreSound, Some
  <2> QED
    BY <2>1 DEF Init
<1>2. 1 \in DOMAIN files /\ \A i \in DOMAIN files : SoundFile(T, files[i].pes)
  BY <1>1 DEF FilesAreSound, FilesOf
<1>3. VideoInit
  BY DEF Init
<1> DEFINE p == files[1].pes
<1>4. /\ p \in Seq(T) /\ Len(p) \in Nat /\ Len(p) >= 2 /\ p[1].kind = "pes"
  BY <1>2 DEF SoundFile
<1> HIDE DEF p
<1>5. /\ open = 1 /\ at = 2 /\ look = SubSeq(p, 1, 2) /\ byteRead = TRUE
      /\ data = <<>> /\ pusi = TRUE /\ toSend = <<>> /\ pc = "head"
      /\ es = [input |-> 2, old |-> 0, last |-> 0]
  BY <1>3 DEF VideoInit, LookAhead, p
<1>6. look \in Seq(T) /\ Len(look) = 2 /\ look[1] = p[1] /\ look[2] = p[2]
  BY <1>4, <1>5
<1>7. data \in Seq(T) /\ Len(data) = 0
  BY <1>5
<1>8. StreamTypes(T)
  BY <1>1, <1>2, <1>4, <1>5, <1>6, <1>7, RoomAssumption DEF StreamTypes, Shipping, p
<1>9. IsStart
  BY <1>4, <1>6 DEF IsStart, LookAhead
<1>10. Phases
  BY <1>1, <1>4, <1>5, <1>6, <1>9 DEF Phases, p
<1>11. Payloads
  BY <1>5, <1>7, <1>9 DEF Payloads, Marked
<1>12. Headers
  <2>1. /\ Both(p[1]) => 1 < Len(p) /\ p[1 + 1].kind = "dts"
        /\ Both(p[2]) => 2 < Len(p) /\ p[2 + 1].kind = "dts"
    <3>1. SoundFile(T, p) /\ 1 \in 1..Len(p) /\ 2 \in 1..Len(p)
      BY <1>2, <1>4 DEF p
    <3> QED
      BY <3>1, FollowsInFile
  <2>2. 1 + 1 = 2 /\ at = 2 /\ files[open].pes = p
    BY <1>5 DEF p
  <2>3. Both(p[2]) => NextIsDts
    BY <2>1, <2>2 DEF NextIsDts
  <2>4. p[2].kind # "pes"
    <3>1. SoundFile(T, p) /\ 1 \in 1..Len(p)
      BY <1>2, <1>4 DEF p
    <3>2. p[1 + 1].kind # "pes"
      BY <1>4, <3>1, FollowsHeader
    <3> QED
      BY <2>2, <3>2
  <2> QED
    BY <1>5, <1>6, <2>1, <2>2, <2>3, <2>4 DEF Headers
<1> QED
  BY <1>8, <1>10, <1>11, <1>12 DEF Chain

LEMMA Soundness ==
  ASSUME NEW T, StreamTypes(T)
  PROVE  /\ files[open].pes \in Seq(T) /\ Len(files[open].pes) \in Nat
         /\ Len(files[open].pes) >= 2 /\ files[open].pes[Len(files[open].pes)].kind # "pes"
         /\ look \in Seq(T) /\ Len(look) \in Nat /\ data \in Seq(T) /\ Len(data) \in Nat
         /\ Len(data) < Room /\ at \in Nat /\ es \in [input : Int, old : Int, last : Int]
BY DEF StreamTypes, SoundFile

LEMMA AppendIs ==
  ASSUME NEW T, NEW s \in Seq(T), NEW x \in T
  PROVE  /\ Append(s, x) \in Seq(T) /\ Len(Append(s, x)) = Len(s) + 1 /\ Len(s) \in Nat
         /\ \A j \in 1..Len(s) : Append(s, x)[j] = s[j]
         /\ Append(s, x)[Len(s) + 1] = x
OBVIOUS

LEMMA NotEmpty ==
  ASSUME NEW T, NEW s \in Seq(T)
  PROVE  /\ Len(s) \in Nat /\ (s = <<>> <=> Len(s) = 0)
         /\ Len(s) = 1 => s # <<>>
         /\ Len(s) = 2 => s # <<>>
<1>1. Len(s) \in Nat /\ (s = <<>> <=> Len(s) = 0)
  BY EmptySeq
<1> QED
  BY <1>1

\* A token is added to the look-ahead buffer.
LEMMA Looked ==
  ASSUME NEW T, NEW l \in Seq(T), NEW p \in Seq(T), NEW i \in 1..Len(p)
  PROVE  Len(l) = 1 => /\ Append(l, p[i]) \in Seq(T) /\ Len(Append(l, p[i])) = 2
                       /\ Append(l, p[i])[1] = l[1] /\ Append(l, p[i])[2] = p[i]
<1> DEFINE x == p[i]
<1>1. x \in T
  BY ElementOfSeq
<1> HIDE DEF x
<1>2. /\ Append(l, x) \in Seq(T) /\ Len(Append(l, x)) = Len(l) + 1
      /\ \A j \in 1..Len(l) : Append(l, x)[j] = l[j]
      /\ Append(l, x)[Len(l) + 1] = x
  BY <1>1, AppendIs
<1>3. Len(l) = 1 => Append(l, x)[1] = l[1] /\ Append(l, x)[2] = x /\ Len(Append(l, x)) = 2
  BY <1>2
<1> QED
  BY <1>2, <1>3 DEF x

LEMMA LookKeeps ==
  ASSUME NEW T, Chain(T), Look
  PROVE  Chain(T)'
<1> DEFINE p == files[open].pes
           some == at < Len(p)
<1>1. StreamTypes(T) /\ Phases /\ Payloads /\ Headers
  BY DEF Chain
<1>2. /\ p \in Seq(T) /\ Len(p) \in Nat /\ Len(p) >= 2 /\ look \in Seq(T) /\ at \in Nat
      /\ es \in [input : Int, old : Int, last : Int]
  BY <1>1, Soundness
<1>3. pc = "look" /\ Len(look) = 1 /\ toSend = <<>> /\ at <= Len(p)
  BY <1>1 DEF Look, Phases
<1>4. /\ byteRead' = some
      /\ IF some THEN /\ look' = Append(look, p[at + 1]) /\ at' = at + 1
                      /\ es' = [es EXCEPT !.input = @ + 1]
         ELSE UNCHANGED <<look, at, es>>
      /\ pc' = IF ~some /\ loopOn THEN "next" ELSE "head"
      /\ UNCHANGED <<files, loopOn, open, data, pusi, toSend>>
  BY <1>3 DEF Look, LookAhead
<1>5. /\ look' \in Seq(T) /\ Len(look') = (IF some THEN 2 ELSE 1)
      /\ look'[1] = look[1] /\ (some => look'[2] = p[at + 1])
  <2> HIDE DEF p
  <2>1. CASE some
    <3>1. at + 1 \in 1..Len(p)
      BY <1>2, <2>1
    <3>2. look' = Append(look, p[at + 1])
      BY <1>4, <2>1
    <3>3. Len(look) = 1 => /\ Append(look, p[at + 1]) \in Seq(T) /\ Len(Append(look, p[at + 1])) = 2
                           /\ Append(look, p[at + 1])[1] = look[1]
                           /\ Append(look, p[at + 1])[2] = p[at + 1]
      BY <1>2, <3>1, Looked
    <3> HIDE DEF some
    <3> QED
      BY <1>3, <2>1, <3>2, <3>3
  <2>2. CASE ~some
    <3> HIDE DEF some
    <3> QED
      BY <1>2, <1>3, <1>4, <2>2
  <2> QED
    BY <2>1, <2>2
<1>6. at' \in Nat /\ at' <= Len(p) /\ (some => at' = at + 1) /\ (~some => at' = Len(p))
  BY <1>2, <1>3, <1>4, SMTT(30)
<1>7. es' \in [input : Int, old : Int, last : Int]
  BY <1>2, <1>4
<1> HIDE DEF some
<1>8. StreamTypes(T)'
  <2>1. (Shipping(T))'
    BY <1>3, <1>4 DEF Shipping
  <2>2. byteRead' \in BOOLEAN
    BY <1>4 DEF some
  <2> QED
    BY <1>1, <1>4, <1>5, <1>6, <1>7, <2>1, <2>2 DEF StreamTypes
<1>12. at # 0 => look[1] = p[at]
  <2>1. look # <<>>
    BY <1>2, <1>3, NotEmpty
  <2> QED
    BY <1>1, <1>3, <2>1 DEF Phases
<1>13. at = 0 => look[1].kind # "pes"
  BY <1>1 DEF Phases
<1>9. Phases'
  <2>1. look'[Len(look')] = p[at'] /\ at' # 0
    <3>1. CASE some
      <4>1. Len(look') = 2 /\ look'[2] = p[at + 1] /\ at' = at + 1
        BY <1>5, <1>6, <3>1
      <4> QED
        BY <1>2, <4>1
    <3>2. CASE ~some
      <4>1. look' = look /\ Len(look') = 1 /\ at' = at /\ at' = Len(p)
        BY <1>4, <1>5, <1>6, <3>2
      <4> QED
        BY <1>2, <1>12, <4>1
    <3> QED
      BY <3>1, <3>2
  <2> QED
    BY <1>2, <1>3, <1>4, <1>5, <1>6, <2>1 DEF Phases, AtEnd
<1>10. Payloads'
  BY <1>1, <1>3, <1>4 DEF Payloads
<1>11. Headers'
  <2>1. Len(look') # 0 /\ look' # <<>>
    BY <1>5
  <2>2. some /\ Both(look'[2]) => NextIsDts'
    <3>1. ASSUME some, Both(p[at + 1]) PROVE at + 1 < Len(p) /\ p[(at + 1) + 1].kind = "dts"
      <4>1. SoundFile(T, p)
        BY <1>1 DEF StreamTypes
      <4>2. at + 1 \in 1..Len(p)
        BY <1>2, <3>1 DEF some
      <4> HIDE DEF p
      <4> QED
        BY <3>1, <4>1, <4>2, FollowsInFile
    <3> QED
      BY <1>4, <1>5, <1>6, <3>1 DEF NextIsDts
  <2>3. Both(look[1]) => some /\ p[at + 1].kind = "dts"
    <3>1. look # <<>>
      BY <1>2, <1>3, NotEmpty
    <3> QED
      BY <1>1, <1>3, <3>1 DEF Headers, NextIsDts, some
  <2>4. pc' = "next" => at' = Len(p)
    BY <1>4, <1>6
  <2>5. data # <<>> /\ Both(data[1]) => IF Len(data) = 1 THEN look[1].kind = "dts"
                                        ELSE data[2].kind = "dts"
    BY <1>1 DEF Headers
  <2>6. pc' # "ended" /\ Len(look') \in {1, 2} /\ (Len(look') = 2 <=> some)
    BY <1>4, <1>5
  <2>7. some /\ look[1].kind = "pes" => p[at + 1].kind # "pes"
    <3> SUFFICES ASSUME some, look[1].kind = "pes" PROVE p[at + 1].kind # "pes"
      OBVIOUS
    <3>1. p[at].kind = "pes" /\ at # 0
      BY <1>12, <1>13
    <3>2. SoundFile(T, p) /\ at \in 1..Len(p)
      BY <1>1, <1>2, <3>1 DEF StreamTypes, some
    <3> HIDE DEF p
    <3> QED
      BY <3>1, <3>2, FollowsHeader
  <2> QED
    BY <1>4, <1>5, <2>1, <2>2, <2>3, <2>4, <2>5, <2>6, <2>7 DEF Headers
<1> QED
  BY <1>8, <1>9, <1>10, <1>11 DEF Chain

LEMMA NextFileKeepsStream ==
  ASSUME NEW T, Chain(T), NextFile
  PROVE  Chain(T)'
<1>1. StreamTypes(T) /\ Phases /\ Payloads /\ Headers
  BY DEF Chain
<1>2. /\ pc = "next" /\ Len(look) = 1 /\ toSend = <<>> /\ loopOn
      /\ UNCHANGED <<files, loopOn, data, pusi, toSend>>
  BY <1>1 DEF NextFile, Phases
<1>3. PICK i \in DOMAIN files : Opened(i) \/ (i = 1 /\ Missing)
  BY <1>1 DEF NextFile, MayOpen, StreamTypes
<1> DEFINE p == files[i].pes
<1>4. p \in Seq(T) /\ Len(p) \in Nat /\ Len(p) >= 2
  BY <1>1 DEF StreamTypes, SoundFile
<1>5. look \in Seq(T) /\ at \in Nat /\ es \in [input : Int, old : Int, last : Int]
  BY <1>1, Soundness
<1>6. (Shipping(T))'
  BY <1>2 DEF Shipping
<1>9. look # <<>> /\ look[1].kind # "pes" /\ ~Both(look[1]) /\ at # 0
  <2>1. look # <<>>
    BY <1>2, <1>5, NotEmpty
  <2>2. at = Len(files[open].pes) /\ at # 0 /\ look[1] = files[open].pes[at]
    BY <1>1, <1>2, <2>1, Soundness DEF Headers, Phases
  <2> QED
    BY <1>1, <2>1, <2>2, Soundness DEF Both
<1>10. data # <<>> /\ Both(data[1]) => IF Len(data) = 1 THEN look[1].kind = "dts"
                                      ELSE data[2].kind = "dts"
  BY <1>1 DEF Headers
<1>7. CASE byteRead' = TRUE /\ pc' = "head" /\ at' = 1 /\ look' = Append(look, p[1])
           /\ es' = [es EXCEPT !.input = @ + 1] /\ open' = i
  <2>1. look' \in Seq(T) /\ Len(look') = 2 /\ look'[1] = look[1] /\ look'[2] = p[1]
    <3>1. 1 \in 1..Len(p)
      BY <1>4
    <3> HIDE DEF p
    <3> QED
      BY <1>2, <1>4, <1>5, <1>7, <3>1, Looked, SMTT(30)
  <2>2. StreamTypes(T)'
    <3>1. es' \in [input : Int, old : Int, last : Int]
      BY <1>5, <1>7
    <3> QED
      BY <1>1, <1>2, <1>6, <1>7, <2>1, <3>1 DEF StreamTypes
  <2>3. Phases'
    <3>1. look'[Len(look')] = files'[open'].pes[at'] /\ at' = 1 /\ at' <= Len(files'[open'].pes)
      BY <1>2, <1>4, <1>7, <2>1
    <3>2. Len(look') = 2 /\ byteRead' /\ pc' = "head" /\ toSend' = <<>>
      BY <1>2, <1>7, <2>1
    <3> QED
      BY <3>1, <3>2 DEF Phases
  <2>4. Payloads'
    BY <1>1, <1>2, <1>7 DEF Payloads
  <2>5. Headers'
    <3>1. Both(p[1]) => 1 < Len(p) /\ p[1 + 1].kind = "dts"
      <4>1. SoundFile(T, p) /\ 1 \in 1..Len(p)
        BY <1>1, <1>4 DEF StreamTypes
      <4> HIDE DEF p
      <4> QED
        BY <4>1, FollowsInFile
    <3>2. Both(look'[2]) => NextIsDts'
      BY <1>2, <1>7, <2>1, <3>1 DEF NextIsDts
    <3>3. look' # <<>>
      BY <2>1
    <3> QED
      BY <1>2, <1>7, <1>9, <1>10, <2>1, <3>2, <3>3 DEF Headers
  <2> QED
    BY <2>2, <2>3, <2>4, <2>5 DEF Chain
<1>8. CASE byteRead' = FALSE /\ pc' = "ended" /\ open' = i /\ UNCHANGED <<at, look, es>>
  <2>1. StreamTypes(T)'
    BY <1>1, <1>2, <1>5, <1>6, <1>8 DEF StreamTypes
  <2>2. Phases'
    BY <1>2, <1>8, <1>9 DEF Phases
  <2>3. Payloads'
    BY <1>1, <1>2, <1>8 DEF Payloads
  <2>4. Headers'
    BY <1>2, <1>5, <1>8, <1>9, <1>10 DEF Headers
  <2> QED
    BY <2>1, <2>2, <2>3, <2>4 DEF Chain
<1> QED
  BY <1>3, <1>7, <1>8 DEF Opened, Missing

LEMMA ReopenKeepsStream ==
  ASSUME NEW T, Chain(T), Reopen
  PROVE  Chain(T)'
<1>1. StreamTypes(T) /\ Phases /\ Payloads /\ Headers
  BY DEF Chain
<1>2. /\ pc = "ended" /\ loopOn /\ at' = 0 /\ open' = 1 /\ pc' = "look"
      /\ UNCHANGED <<files, loopOn, look, byteRead, data, pusi, toSend, es>>
  BY DEF Reopen
<1>3. Len(look) = 1 /\ toSend = <<>>
  BY <1>1, <1>2 DEF Phases
<1>4. StreamTypes(T)'
  <2>1. (Shipping(T))'
    BY <1>2, <1>3 DEF Shipping
  <2> QED
    BY <1>1, <1>2, <2>1 DEF StreamTypes
<1>8. look # <<>> /\ look[1].kind # "pes"
  <2>1. look \in Seq(T)
    BY <1>1, Soundness
  <2>2. look # <<>>
    BY <1>3, <2>1, NotEmpty
  <2> QED
    BY <1>1, <1>2, <2>2 DEF Headers
<1>5. Phases'
  <2>1. Len(files[1].pes) \in Nat
    BY <1>1 DEF StreamTypes, SoundFile
  <2> QED
    BY <1>2, <1>3, <1>8, <2>1 DEF Phases
<1>6. Payloads'
  BY <1>1, <1>2 DEF Payloads
<1>7. Headers'
  BY <1>1, <1>2, <1>3, <1>8 DEF Headers, Both
<1> QED
  BY <1>4, <1>5, <1>6, <1>7 DEF Chain

LEMMA FrontAndLast ==
  ASSUME NEW T, NEW d \in Seq(T), d # <<>>
  PROVE  /\ Len(d) \in Nat \ {0} /\ Front(d) \in Seq(T) /\ Len(Front(d)) = Len(d) - 1
         /\ Last(d) \in T /\ Last(d) = d[Len(d)] /\ \A j \in 1..(Len(d) - 1) : Front(d)[j] = d[j]
         /\ Front(d) \o <<Last(d)>> = d
<1> DEFINE n == Len(d) - 1
<1>1. n \in Nat /\ Len(d) = n + 1 /\ Len(d) \in Nat \ {0}
  OBVIOUS
<1>2. Front(d) = SubSeq(d, 1, n) /\ Last(d) = d[n + 1]
  BY <1>1 DEF Front, Last
<1>3. \A j \in 1..n : SubSeq(d, 1, n)[j] = d[j]
  BY <1>1
<1> HIDE DEF n
<1>4. /\ SubSeq(d, 1, n) \in Seq(T) /\ Len(SubSeq(d, 1, n)) = n /\ d[n + 1] \in T
      /\ d = Append(SubSeq(d, 1, n), d[n + 1])
  BY <1>1, LastOne
<1>5. Append(SubSeq(d, 1, n), d[n + 1]) = SubSeq(d, 1, n) \o <<d[n + 1]>>
  BY <1>4, AppendIsConcat
<1> QED
  BY <1>1, <1>2, <1>3, <1>4, <1>5 DEF n

\* The packets that are to be sent have the payload, and its bytes are counted.
LEMMA SendingIs ==
  ASSUME NEW T, NEW d \in Seq(T), d # <<>>, Len(d) <= Room, pusi \in BOOLEAN, Marked(pusi, d), Timed(d),
         es'.input \in Int, es.old \in Int
  PROVE  \/ \E x \in Shipments(T) :
              /\ Sending(d) = <<x>> /\ x.packet.data = d /\ x.es = es'.input - es.old
         \/ \E x \in Shipments(T), y \in Shipments(T) :
              /\ Sending(d) = <<x, y>> /\ Len(d) > 2
              /\ x.packet.data = Front(d) /\ y.packet.data = <<Last(d)>>
              /\ x.es + y.es = es'.input - es.old /\ y.es = 1
<1> DEFINE n == es'.input - es.old
<1>0. n \in Int /\ Room \in Nat /\ Room > 3 /\ Len(d) \in Nat \ {0}
  BY FrontAndLast, RoomAssumption
<1>1. CASE Len(d) # Room - 1
  <2> DEFINE a == IF Len(d) = Room THEN 1 ELSE 3
             p == TsPacket(pusi, a, d)
             x == [packet |-> p, es |-> n]
  <2>1. Packets(pusi, d) = <<p>>
    BY <1>1 DEF Packets
  <2>2. Len(<<p>>) = 1 /\ DOMAIN <<p>> = {1} /\ <<p>>[1] = p
    OBVIOUS
  <2>3. Sending(d) = [j \in {1} |-> [packet |-> p, es |-> es'.input - es.old - (1 - 1)]]
    BY <2>1, <2>2 DEF Sending
  <2>4. es'.input - es.old - (1 - 1) = n
    BY <1>0
  <2>5. Sending(d) = <<x>>
    BY <2>3, <2>4
  <2>6. p \in [pusi : BOOLEAN, adapt : {1, 3}, data : Seq(T)] /\ p.data = d /\ p.pusi = pusi
    BY DEF TsPacket
  <2>7. x \in Shipments(T)
    <3> HIDE DEF p, n
    <3> QED
      BY <1>0, <2>6 DEF Shipments
  <2> QED
    BY <2>5, <2>6, <2>7
<1>2. CASE Len(d) = Room - 1
  <2> DEFINE p == TsPacket(pusi, 3, Front(d))
             q == TsPacket(FALSE, 3, <<Last(d)>>)
             x == [packet |-> p, es |-> n - 1]
             y == [packet |-> q, es |-> 1]
  <2>1. Packets(pusi, d) = <<p, q>>
    <3>1. Len(d) # Room
      BY <1>0, <1>2
    <3> QED
      BY <1>2, <3>1, Zenon DEF Packets
  <2>2. Len(<<p, q>>) = 2 /\ DOMAIN <<p, q>> = 1..2 /\ <<p, q>>[1] = p /\ <<p, q>>[2] = q
    OBVIOUS
  <2>3. Sending(d) = [j \in 1..2 |-> [packet |-> <<p, q>>[j],
                                      es |-> IF j = 2 /\ j > 1 THEN 1
                                             ELSE es'.input - es.old - (2 - 1)]]
    <3> HIDE DEF p, q
    <3> QED
      BY <2>1, <2>2 DEF Sending
  <2>4. es'.input - es.old - (2 - 1) = n - 1
    BY <1>0
  <2>5. Sending(d) = <<x, y>>
    <3> HIDE DEF p, q, n
    <3> QED
      BY <2>2, <2>3, <2>4
  <2>6. /\ Front(d) \in Seq(T) /\ Len(Front(d)) = Room - 2 /\ Last(d) \in T /\ Last(d) = d[Len(d)]
        /\ \A j \in 1..(Room - 2) : Front(d)[j] = d[j]
    <3>1. /\ Front(d) \in Seq(T) /\ Len(Front(d)) = Len(d) - 1 /\ Last(d) \in T
          /\ Last(d) = d[Len(d)] /\ \A j \in 1..(Len(d) - 1) : Front(d)[j] = d[j]
      BY FrontAndLast
    <3>2. Len(d) - 1 = Room - 2
      BY <1>0, <1>2
    <3> QED
      BY <3>1, <3>2
  <2>7. /\ p \in [pusi : BOOLEAN, adapt : {1, 3}, data : Seq(T)] /\ p.data = Front(d)
        /\ p.pusi = pusi
    BY <2>6 DEF TsPacket
  <2>8. /\ q \in [pusi : BOOLEAN, adapt : {1, 3}, data : Seq(T)] /\ q.data = <<Last(d)>>
        /\ q.pusi = FALSE
    BY <2>6 DEF TsPacket
  <2>9. Front(d) # <<>> /\ Marked(pusi, Front(d)) /\ Timed(Front(d))
    <3> DEFINE g == Front(d)
    <3>1. /\ g \in Seq(T) /\ Len(g) = Room - 2 /\ \A j \in 1..(Room - 2) : g[j] = d[j]
          /\ \A j \in 2..(Room - 2) : d[j].kind # "pes"
          /\ pusi <=> d[1].kind = "pes"
      BY <1>0, <1>2, <2>6 DEF Marked
    <3> HIDE DEF g
    <3>2. g # <<>> /\ g[1] = d[1]
      BY <1>0, <3>1
    <3>3. ASSUME NEW j \in 2..Len(g) PROVE g[j].kind # "pes"
      <4>1. j \in 1..(Room - 2) /\ j \in 2..(Room - 2)
        BY <1>0, <3>1
      <4> QED
        BY <3>1, <4>1
    <3>5. Timed(g)
      <4>1. Len(g) > 1 /\ g[2] = d[2]
        <5>1. 2 \in 1..(Room - 2)
          BY <1>0
        <5> QED
          BY <1>0, <3>1, <5>1
      <4> QED
        BY <3>2, <4>1 DEF Timed
    <3>4. g # <<>> /\ Marked(pusi, g) /\ Timed(g)
      BY <3>1, <3>2, <3>3, <3>5 DEF Marked
    <3> QED
      BY <3>4 DEF g
  <2>10. <<Last(d)>> # <<>> /\ Marked(FALSE, <<Last(d)>>) /\ Timed(<<Last(d)>>)
    BY <1>0, <1>2, <2>6 DEF Marked, Timed, Both
  <2> HIDE DEF p, q
  <2>11. x \in Shipments(T) /\ y \in Shipments(T)
    <3>1. x.packet = p /\ x \in [packet : [pusi : BOOLEAN, adapt : {1, 3}, data : Seq(T)], es : Int]
      BY <1>0, <2>7
    <3>2. y.packet = q /\ y \in [packet : [pusi : BOOLEAN, adapt : {1, 3}, data : Seq(T)], es : Int]
      BY <2>8
    <3> HIDE DEF x, y
    <3>3. Len(p.data) <= Room /\ Len(q.data) <= Room
      <4>1. Len(p.data) = Room - 2
        BY <2>6, <2>7
      <4>2. Len(<<Last(d)>>) = 1
        OBVIOUS
      <4>3. Len(q.data) = 1
        BY <2>8, <4>2
      <4> QED
        BY <1>0, <4>1, <4>3
    <3> QED
      BY <2>7, <2>8, <2>9, <2>10, <3>1, <3>2, <3>3 DEF Shipments
  <2>12. x.es + y.es = n /\ y.es = 1
    BY <1>0
  <2>13. x.packet = p /\ y.packet = q
    OBVIOUS
  <2>14. Len(d) > 2
    BY <1>0, <1>2
  <2> HIDE DEF x, y, n
  <2>15. /\ Sending(d) = <<x, y>> /\ Len(d) > 2
         /\ x.packet.data = Front(d) /\ y.packet.data = <<Last(d)>>
         /\ x.es + y.es = n /\ y.es = 1
    BY <2>5, <2>7, <2>8, <2>12, <2>13, <2>14
  <2> QED
    BY <2>11, <2>15 DEF n
<1> QED
  BY <1>1, <1>2

LEMMA SendingShips ==
  ASSUME NEW T, NEW d \in Seq(T), d # <<>>, Len(d) <= Room, pusi \in BOOLEAN, Marked(pusi, d), Timed(d),
         es'.input \in Int, es.old \in Int, toSend' = Sending(d)
  PROVE  (Shipping(T))' /\ toSend' # <<>>
<1>1. CASE \E x \in Shipments(T) : Sending(d) = <<x>>
  BY <1>1 DEF Shipping
<1>2. CASE \E x \in Shipments(T), y \in Shipments(T) :
             Sending(d) = <<x, y>> /\ y.packet.data = <<Last(d)>>
  <2>1. PICK x \in Shipments(T), y \in Shipments(T) :
               Sending(d) = <<x, y>> /\ y.packet.data = <<Last(d)>>
    BY <1>2
  <2>2. Len(<<Last(d)>>) = 1
    OBVIOUS
  <2>3. toSend' = <<x, y>> /\ Len(y.packet.data) = 1
    BY <2>1, <2>2
  <2>4. toSend' # <<>>
    BY <2>3
  <2> QED
    BY <2>3, <2>4 DEF Shipping
<1>3. \/ \E x \in Shipments(T) : Sending(d) = <<x>>
      \/ \E x \in Shipments(T), y \in Shipments(T) :
             Sending(d) = <<x, y>> /\ y.packet.data = <<Last(d)>>
  BY SendingIs
<1> QED
  BY <1>1, <1>2, <1>3

LEMMA FindHeaderKeepsStream ==
  ASSUME NEW T, Chain(T), FindHeader
  PROVE  Chain(T)'
<1>1. StreamTypes(T) /\ Phases /\ Payloads /\ Headers
  BY DEF Chain
<1>2. /\ look \in Seq(T) /\ data \in Seq(T) /\ Len(data) < Room /\ Len(data) \in Nat
      /\ es \in [input : Int, old : Int, last : Int] /\ pusi \in BOOLEAN
  BY <1>1, Soundness DEF StreamTypes
<1>3. /\ pc = "head" /\ toSend = <<>>
      /\ UNCHANGED <<files, loopOn, open, at, look, byteRead>>
      /\ IsStart' = IsStart
  BY <1>1 DEF FindHeader, reader, Phases, IsStart
<1>4. CASE ~IsStart
  <2>1. pc' = "fill" /\ UNCHANGED <<es, toSend, data, pusi>>
    BY <1>4 DEF FindHeader
  <2>2. StreamTypes(T)'
    <3>1. (Shipping(T))'
      BY <1>3, <2>1 DEF Shipping
    <3> QED
      BY <1>1, <1>3, <2>1, <3>1 DEF StreamTypes
  <2>3. Phases'
    BY <1>1, <1>3, <2>1 DEF Phases, AtEnd
  <2>4. Payloads'
    BY <1>1, <1>3, <1>4, <2>1 DEF Payloads
  <2>5. Headers'
    BY <1>1, <1>3, <2>1 DEF Headers, NextIsDts
  <2> QED
    BY <2>2, <2>3, <2>4, <2>5 DEF Chain
<1>5. CASE IsStart
  <2>1. /\ toSend' = IF data = <<>> THEN <<>> ELSE Sending(data)
        /\ data' = <<>> /\ pusi' = TRUE
        /\ pc' = IF data = <<>> THEN "fill" ELSE "send"
        /\ es' = [input |-> es.input - HeaderSize, last |-> es.input - HeaderSize,
                  old |-> IF data = <<>> THEN es.old ELSE es.input - HeaderSize]
    BY <1>5 DEF FindHeader
  <2>2. Len(look) = 2 /\ byteRead
    BY <1>1, <1>3, <1>5 DEF Phases, IsStart, LookAhead
  <2>3. es' \in [input : Int, old : Int, last : Int]
    <3>1. HeaderSize \in Int
      BY DEF HeaderSize
    <3> QED
      BY <1>2, <2>1, <3>1
  <2>4. (Shipping(T))' /\ (data # <<>> => toSend' # <<>>)
    <3>1. CASE data = <<>>
      BY <2>1, <3>1 DEF Shipping
    <3>2. CASE data # <<>>
      <4>1. Marked(pusi, data) /\ es'.input \in Int /\ es.old \in Int /\ Len(data) <= Room
        BY <1>1, <1>2, <2>3, RoomAssumption DEF Payloads
      <4>2. Timed(data)
        <5>1. look[1].kind = "pes" /\ Len(data) # 0
          BY <1>2, <1>5, <3>2 DEF IsStart
        <5>2. Both(data[1]) => Len(data) # 1 /\ data[2].kind = "dts"
          BY <1>1, <3>2, <5>1 DEF Headers
        <5> DEFINE n == Len(data)
        <5>3. n \in Nat /\ n # 0 /\ (Both(data[1]) => n # 1)
          BY <1>2, <5>1, <5>2
        <5> HIDE DEF n
        <5>4. Both(data[1]) => n > 1
          BY <5>3
        <5> QED
          BY <5>2, <5>4 DEF Timed, n
      <4> QED
        BY <1>2, <2>1, <3>2, <4>1, <4>2, SendingShips
    <3> QED
      BY <3>1, <3>2
  <2>5. data' \in Seq(T) /\ Len(data') = 0
    BY <2>1
  <2>6. StreamTypes(T)'
    BY <1>1, <1>2, <1>3, <2>1, <2>3, <2>4, <2>5, RoomAssumption DEF StreamTypes
  <2>7. Phases'
    BY <1>1, <1>3, <1>5, <2>1, <2>2, <2>4 DEF Phases, AtEnd
  <2>8. Payloads'
    BY <1>3, <1>5, <2>1, <2>5 DEF Payloads, Marked
  <2>9. Headers'
    BY <1>1, <1>3, <2>1, <2>2 DEF Headers, NextIsDts
  <2> QED
    BY <2>6, <2>7, <2>8, <2>9 DEF Chain
<1> QED
  BY <1>4, <1>5

\* What Fill does: the payload becomes d, and rest is left.
LEMMA FillDoes ==
  ASSUME NEW T, Chain(T), Fill
  PROVE  LET d == Append(data, look[1])
         IN  /\ look # <<>> /\ look[1] \in T /\ d \in Seq(T) /\ Len(d) = Len(data) + 1
             /\ Len(d) <= Room /\ d # <<>> /\ Marked(pusi, d) /\ (Len(d) > 1 => Timed(d))
             /\ look' = Tail(look) /\ look' \in Seq(T) /\ Len(look') = Len(look) - 1
             /\ \/ /\ Len(look) = 2 /\ byteRead /\ look'[1] = look[2]
                   /\ IF Len(d) = Room
                      THEN /\ pc' = "send" /\ data' = <<>> /\ pusi' = FALSE
                           /\ es' = [es EXCEPT !.old = es.input] /\ toSend' = Sending(d)
                      ELSE /\ pc' = "look" /\ data' = d /\ pusi' = pusi /\ es' = es
                           /\ toSend' = <<>>
                \/ /\ Len(look) = 1 /\ AtEnd /\ look' = <<>> /\ Timed(d)
                   /\ pc' = "send" /\ data' = <<>> /\ pusi' \in BOOLEAN
                   /\ es' = [es EXCEPT !.old = es.input] /\ toSend' = Sending(d)
<1> DEFINE d == Append(data, look[1])
<1>1. StreamTypes(T) /\ Phases /\ Payloads /\ Headers /\ pc = "fill" /\ pusi \in BOOLEAN
  BY DEF Chain, Fill, StreamTypes
<1>2. /\ look \in Seq(T) /\ data \in Seq(T) /\ Len(data) < Room /\ Len(data) \in Nat
      /\ Len(look) \in Nat
  BY <1>1, Soundness
<1>3. (Len(look) = 2 /\ byteRead) \/ (Len(look) = 1 /\ AtEnd)
  BY <1>1 DEF Phases
<1>4. look # <<>> /\ look[1] \in T
  BY <1>2, <1>3
<1>5. /\ d \in Seq(T) /\ Len(d) = Len(data) + 1
      /\ \A j \in 1..Len(data) : d[j] = data[j]
      /\ d[Len(data) + 1] = look[1]
  BY <1>2, <1>4, AppendIs
<1>6. Len(d) <= Room /\ d # <<>>
  BY <1>2, <1>5, RoomAssumption
<1>7. Tail(look) \in Seq(T) /\ Len(Tail(look)) = Len(look) - 1
  BY <1>2, <1>4, HeadTailProperties
<1>8. IF IsStart THEN data = <<>> /\ pusi /\ look[1].kind = "pes"
      ELSE (data = <<>> => ~pusi) /\ look[1].kind # "pes"
  <2>1. CASE Len(look) = 2
    BY <1>1, <2>1 DEF Payloads, IsStart, LookAhead
  <2>2. CASE Len(look) = 1 /\ AtEnd
    <3>1. look[1] = files[open].pes[Len(files[open].pes)]
      BY <1>1, <1>4, <2>2 DEF Phases, AtEnd
    <3>2. look[1].kind # "pes"
      BY <1>1, <3>1, Soundness
    <3>3. ~IsStart
      BY <2>2 DEF IsStart, LookAhead
    <3> QED
      BY <1>1, <3>2, <3>3 DEF Payloads
  <2> QED
    BY <1>3, <2>1, <2>2
<1> HIDE DEF d
<1>9. Marked(pusi, d)
  <2>1. CASE data = <<>>
    <3>1. Len(d) = 1 /\ d[1] = look[1]
      BY <1>5, <2>1
    <3> QED
      BY <1>8, <2>1, <3>1 DEF Marked
  <2>2. CASE data # <<>>
    <3>1. Marked(pusi, data) /\ look[1].kind # "pes" /\ Len(data) >= 1
      BY <1>1, <1>2, <1>8, <2>2 DEF Payloads
    <3>2. d[1] = data[1]
      BY <1>2, <1>5, <3>1
    <3>3. ASSUME NEW j \in 2..Len(d) PROVE d[j].kind # "pes"
      <4>1. CASE j = Len(data) + 1
        BY <1>5, <3>1, <4>1
      <4>2. CASE j # Len(data) + 1
        <5>1. j \in 2..Len(data) /\ j \in 1..Len(data)
          BY <1>2, <1>5, <4>2
        <5> QED
          BY <1>5, <3>1, <5>1 DEF Marked
      <4> QED
        BY <4>1, <4>2
    <3> QED
      BY <2>2, <3>1, <3>2, <3>3 DEF Marked
  <2> QED
    BY <2>1, <2>2
<1>13. Len(d) > 1 => Timed(d)
  <2> SUFFICES ASSUME Len(d) > 1, Both(d[1]) PROVE d[2].kind = "dts"
    BY DEF Timed
  <2>1. Len(data) >= 1 /\ d[1] = data[1] /\ data # <<>>
    BY <1>2, <1>5
  <2>2. IF Len(data) = 1 THEN look[1].kind = "dts" ELSE data[2].kind = "dts"
    BY <1>1, <2>1 DEF Headers
  <2>3. Len(data) = 1 => d[2] = look[1]
    BY <1>5
  <2>4. Len(data) # 1 => d[2] = data[2]
    <3> DEFINE n == Len(data)
    <3>1. n \in Nat /\ n >= 1 /\ \A j \in 1..n : d[j] = data[j]
      BY <1>2, <1>5, <2>1
    <3> HIDE DEF n
    <3>2. n # 1 => 2 \in 1..n
      BY <3>1
    <3> QED
      BY <3>1, <3>2 DEF n
  <2> QED
    BY <2>2, <2>3, <2>4
<1>14. Len(look) = 1 /\ AtEnd => look[1] = files[open].pes[Len(files[open].pes)]
  BY <1>1, <1>4 DEF Phases, AtEnd
<1>15. Len(look) = 1 /\ AtEnd => Timed(d)
  <2>1. CASE Len(d) = 1
    <3>1. d[1] = look[1]
      BY <1>2, <1>5, <2>1
    <3> QED
      BY <1>1, <1>14, <3>1, Soundness DEF Timed, Both
  <2> QED
    BY <1>5, <1>6, <1>13, <2>1
<1>10. /\ look' = Tail(look)
       /\ LET send == Len(d) = Room \/ (~byteRead /\ Tail(look) = <<>>)
          IN  /\ data' = IF send THEN <<>> ELSE d
              /\ pusi' = (pusi /\ ~(send /\ Len(d) = Room))
              /\ es' = IF send THEN [es EXCEPT !.old = es.input] ELSE es
              /\ toSend' = IF send THEN Sending(d) ELSE <<>>
              /\ pc' = IF send THEN "send" ELSE IF byteRead \/ Tail(look) # <<>> THEN "look"
                       ELSE "ended"
  <2>1. look # <<>> /\ (byteRead \/ ~loopOn)
    BY <1>3, <1>4 DEF AtEnd
  <2> QED
    BY <1>6, <2>1 DEF Fill, d
<1>11. CASE Len(look) = 2 /\ byteRead
  <2>1. Tail(look)[1] = look[2]
    <3>1. \A j \in 1..Len(Tail(look)) : Tail(look)[j] = look[j + 1]
      BY <1>2, <1>4, HeadTailProperties
    <3>2. 1 \in 1..Len(Tail(look)) /\ 1 + 1 = 2
      BY <1>7, <1>11
    <3> QED
      BY <3>1, <3>2
  <2>2. IF Len(d) = Room
        THEN /\ pc' = "send" /\ data' = <<>> /\ pusi' = FALSE
             /\ es' = [es EXCEPT !.old = es.input] /\ toSend' = Sending(d)
        ELSE /\ pc' = "look" /\ data' = d /\ pusi' = pusi /\ es' = es
             /\ toSend' = <<>>
    BY <1>1, <1>10, <1>11
  <2> QED
    BY <1>4, <1>5, <1>6, <1>7, <1>9, <1>10, <1>11, <1>13, <2>1, <2>2 DEF d
<1>12. CASE Len(look) = 1 /\ AtEnd
  <2>3. ~byteRead
    BY <1>12 DEF AtEnd
  <2>1. Tail(look) = <<>> /\ ~byteRead
    <3> DEFINE l == Tail(look)
    <3>1. l \in Seq(T) /\ Len(l) = 0
      BY <1>2, <1>7, <1>12
    <3> HIDE DEF l
    <3>2. l = <<>>
      BY <3>1
    <3> QED
      BY <2>3, <3>2 DEF l
  <2>2. /\ pc' = "send" /\ data' = <<>> /\ pusi' \in BOOLEAN
        /\ es' = [es EXCEPT !.old = es.input] /\ toSend' = Sending(d) /\ look' = <<>>
    BY <1>1, <1>10, <2>1
  <2> QED
    BY <1>4, <1>5, <1>6, <1>7, <1>9, <1>10, <1>12, <1>13, <1>15, <2>2 DEF d
<1> QED
  BY <1>3, <1>11, <1>12

-----------------------------------------------------------------------------
(* Recursion.                                                                 *)

\* A state for each number, from the one before.
Unfolds(S, b, n, g) ==
  \E f \in [0..n -> S] : f[0] = b /\ \A i \in 1..n : f[i] = g[f[i - 1]][i]

LEMMA Recursion ==
  ASSUME NEW S, NEW b \in S, NEW n \in Nat, NEW g \in [S -> [1..n -> S]]
  PROVE  Unfolds(S, b, n, g)
<1> DEFINE P(j, f) == f \in [0..j -> S] /\ f[0] = b /\ \A i \in 1..j : f[i] = g[f[i - 1]][i]
           M == {j \in Nat : j <= n => \E f : P(j, f)}
<1>1. 0 \in M
  <2> DEFINE f == [i \in 0..0 |-> b]
  <2>1. P(0, f)
    OBVIOUS
  <2> HIDE DEF P
  <2> QED
    BY <2>1
<1>2. ASSUME NEW j \in Nat, j \in M PROVE j + 1 \in M
  <2> HIDE DEF P
  <2> SUFFICES ASSUME j + 1 <= n PROVE \E f : P(j + 1, f)
    OBVIOUS
  <2>0. j <= n
    OBVIOUS
  <2>1. PICK f : P(j, f)
    BY <1>2, <2>0
  <2> USE DEF P
  <2> DEFINE x == g[f[j]][j + 1]
             h == [i \in 0..(j + 1) |-> IF i <= j THEN f[i] ELSE x]
  <2>2. x \in S
    <3>1. f[j] \in S /\ j + 1 \in 1..n
      BY <2>1
    <3> QED
      BY <3>1
  <2>3. (\A i \in 0..j : h[i] = f[i]) /\ h[j + 1] = x
    OBVIOUS
  <2>4. h \in [0..(j + 1) -> S]
    BY <2>1, <2>2
  <2>5. h[0] = b
    BY <2>1, <2>3
  <2>6. ASSUME NEW i \in 1..(j + 1) PROVE h[i] = g[h[i - 1]][i]
    <3>1. CASE i <= j
      <4>1. h[i] = f[i] /\ h[i - 1] = f[i - 1] /\ i \in 1..j
        BY <2>3, <3>1
      <4> HIDE DEF h
      <4> QED
        BY <2>1, <4>1
    <3>2. CASE i = j + 1
      <4>1. h[i] = x /\ h[i - 1] = f[j]
        BY <2>3, <3>2
      <4> HIDE DEF h
      <4> QED
        BY <3>2, <4>1
    <3> QED
      BY <3>1, <3>2
  <2>7. P(j + 1, h)
    BY <2>4, <2>5, <2>6
  <2> HIDE DEF P, h
  <2> QED
    BY <2>7
<1> HIDE DEF M
<1>3. n \in M
  BY <1>1, <1>2, Counting
<1>4. \E f : P(n, f)
  BY <1>3 DEF M
<1> QED
  BY <1>4 DEF Unfolds

-----------------------------------------------------------------------------
(* esvideo2pes.                                                               *)

\* All that is in files of PES packets.
Tokens ==
  StreamTokens \cup [kind : {"cut"}] \cup [kind : {"cut"}, ref : Nat, b : BOOLEAN]
               \cup [kind : {"cut"}, at : Nat]
               \cup [kind : {"pes"}, pts : 0..(PtsMax - 1), both : BOOLEAN]
               \cup [kind : {"dts"}, dts : 0..(PtsMax - 1)]

Packing ==
  [pc : {"first", "skip", "scan", "look", "done", "exit"}, dts : Nat, base : Nat, ref : Nat,
   first_gop : Nat, a_gop : Int, held : Seq(StreamTokens), frames : Nat, out : Seq(Tokens)]

LEMMA TokenKinds ==
  /\ \A t \in StreamTokens :
       /\ t.kind \in {"seq", "pic", "data"} /\ ~IsHeader(t) /\ ~Both(t) /\ t \in Tokens
       /\ t.kind = "pic" => t.ref \in Nat /\ t.b \in BOOLEAN
       /\ Cut(t) \in Tokens /\ Cut(t).kind = "cut"
  /\ \A t \in Tokens :
       /\ t.kind = "pes" => t \in [kind : {"pes"}, pts : 0..(PtsMax - 1), both : BOOLEAN]
       /\ t.kind = "dts" => t \in [kind : {"dts"}, dts : 0..(PtsMax - 1)]
<1>1. ASSUME NEW t \in StreamTokens
      PROVE  /\ t.kind \in {"seq", "pic", "data"} /\ ~IsHeader(t) /\ ~Both(t) /\ t \in Tokens
             /\ t.kind = "pic" => t.ref \in Nat /\ t.b \in BOOLEAN
             /\ Cut(t) \in Tokens /\ Cut(t).kind = "cut"
  <2>1. CASE t \in [kind : {"seq"}]
    BY <2>1 DEF IsHeader, Both, Cut, Tokens, StreamTokens
  <2>2. CASE t \in [kind : {"pic"}, ref : Nat, b : BOOLEAN]
    BY <2>2 DEF IsHeader, Both, Cut, Tokens, StreamTokens
  <2>3. CASE t \in [kind : {"data"}, at : Nat]
    BY <2>3 DEF IsHeader, Both, Cut, Tokens, StreamTokens
  <2> QED
    BY <2>1, <2>2, <2>3 DEF StreamTokens
<1>2. ASSUME NEW t \in Tokens
      PROVE  /\ t.kind = "pes" => t \in [kind : {"pes"}, pts : 0..(PtsMax - 1), both : BOOLEAN]
             /\ t.kind = "dts" => t \in [kind : {"dts"}, dts : 0..(PtsMax - 1)]
  BY DEF Tokens, StreamTokens
<1> QED
  BY <1>1, <1>2

LEMMA HeaderTokens ==
  ASSUME NEW x \in Int, NEW y \in Int, NEW f \in BOOLEAN
  PROVE  /\ PtsToken(x, f) \in Tokens /\ PtsToken(x, f).kind = "pes" /\ PtsToken(x, f).both = f
         /\ DtsToken(y) \in Tokens /\ DtsToken(y).kind = "dts"
         /\ Header(x, y) \in Seq(Tokens) /\ Len(Header(x, y)) = 2
         /\ Header(x, y)[1] = PtsToken(x, TRUE) /\ Header(x, y)[2] = DtsToken(y)
<1>1. x % PtsMax \in 0..(PtsMax - 1) /\ y % PtsMax \in 0..(PtsMax - 1)
  BY TimesAssumption
<1>2. ASSUME NEW z \in BOOLEAN
      PROVE  PtsToken(x, z) \in Tokens /\ PtsToken(x, z).kind = "pes" /\ PtsToken(x, z).both = z
  BY <1>1 DEF PtsToken, Tokens
<1>3. DtsToken(y) \in Tokens /\ DtsToken(y).kind = "dts"
  BY <1>1 DEF DtsToken, Tokens
<1>4. /\ Header(x, y) \in Seq(Tokens) /\ Len(Header(x, y)) = 2
      /\ Header(x, y)[1] = PtsToken(x, TRUE) /\ Header(x, y)[2] = DtsToken(y)
  <2> DEFINE u == PtsToken(x, TRUE)
             v == DtsToken(y)
  <2>1. u \in Tokens /\ v \in Tokens /\ Header(x, y) = <<u, v>>
    BY <1>2, <1>3 DEF Header
  <2> HIDE DEF u, v
  <2>2. <<u, v>> \in Seq(Tokens) /\ Len(<<u, v>>) = 2 /\ <<u, v>>[1] = u /\ <<u, v>>[2] = v
    BY <2>1
  <2> QED
    BY <2>1, <2>2, Zenon DEF u, v
<1> QED
  BY <1>2, <1>3, <1>4

\* What the steps of esvideo2pes do.
Same(v, w) == w.base = v.base /\ w.held = v.held /\ w.first_gop = v.first_gop /\ w.a_gop = v.a_gop

LEMMA Joins ==
  ASSUME NEW s \in Seq(Tokens), NEW r \in Seq(Tokens), NEW t \in StreamTokens
  PROVE  /\ t \in Tokens /\ Append(s, t) \in Seq(Tokens) /\ (s \o r) \o <<t>> \in Seq(Tokens)
         /\ s \o r \in Seq(Tokens) /\ (s \o r) \o <<t>> = Append(s \o r, t)
<1>1. t \in Tokens
  BY TokenKinds
<1> QED
  BY <1>1

LEMMA PresentedType ==
  ASSUME NEW x \in Nat, NEW y \in Nat
  PROVE  Presented(x, y) \in Nat
<1>1. PtsStep \in Nat
  BY TimesAssumption
<1>2. \A a, b \in Nat : a * b \in Nat
  OBVIOUS
<1>3. y * PtsStep \in Nat
  BY <1>1, <1>2
<1> DEFINE z == y * PtsStep
<1> HIDE DEF z
<1>4. (x + z) + PtsStep \in Nat
  BY <1>1, <1>3 DEF z
<1> QED
  BY <1>4 DEF z, Presented

LEMMA FirstIs ==
  ASSUME NEW v \in Packing, NEW t \in StreamTokens, v.pc = "first"
  PROVE  LET w == PesStep(v, t)
         IN  /\ w \in Packing /\ w.pc = "skip" /\ w.out = Append(Header(PtsStep, 0), t)
             /\ w.dts = v.dts /\ w.frames = 1 /\ Same(v, w)
<1> DEFINE o == Append(Header(PtsStep, 0), t)
           w == [v EXCEPT !.pc = "skip", !.frames = 1, !.out = o]
<1>1. Header(PtsStep, 0) \in Seq(Tokens) /\ Header(PtsStep, 0) \o <<t>> = o
  <2>1. Header(PtsStep, 0) \in Seq(Tokens)
    <3>1. PtsStep \in Int /\ 0 \in Int /\ TRUE \in BOOLEAN
      BY TimesAssumption
    <3> QED
      BY <3>1, HeaderTokens
  <2> DEFINE h == Header(PtsStep, 0)
  <2> HIDE DEF h
  <2>2. h \in Seq(Tokens) => h \o <<t>> = Append(h, t)
    OBVIOUS
  <2> QED
    BY <2>1, <2>2 DEF h
<1>2. o \in Seq(Tokens)
  BY <1>1, Joins
<1>3. PesStep(v, t) = w
  BY <1>1 DEF PesStep, First
<1> HIDE DEF o
<1>4. w \in Packing /\ w.pc = "skip" /\ w.out = o /\ w.dts = v.dts /\ w.frames = 1 /\ Same(v, w)
  BY <1>2 DEF Packing, Same
<1> QED
  BY <1>3, <1>4 DEF o

LEMMA SkipIs ==
  ASSUME NEW v \in Packing, NEW t \in StreamTokens, v.pc = "skip"
  PROVE  LET w == PesStep(v, t)
         IN  /\ w \in Packing /\ w.out = Append(v.out, t) /\ w.frames = v.frames /\ Same(v, w)
             /\ IF t.kind = "pic" THEN w.pc = "scan" /\ w.dts = v.dts + PtsStep
                ELSE w.pc = "skip" /\ w.dts = v.dts
<1> DEFINE o == Append(v.out, t)
           d == IF t.kind = "pic" THEN v.dts + PtsStep ELSE v.dts
           p == IF t.kind = "pic" THEN "scan" ELSE v.pc
           w == [v EXCEPT !.out = o, !.dts = d, !.pc = p]
<1>1. o \in Seq(Tokens) /\ d \in Nat /\ p \in {"scan", "skip"}
  <2>1. v.out \in Seq(Tokens) /\ v.dts \in Nat
    BY DEF Packing
  <2>2. o \in Seq(Tokens)
    BY <2>1, Joins
  <2>3. v.dts + PtsStep \in Nat
    BY <2>1, TimesAssumption
  <2> HIDE DEF o
  <2> QED
    BY <2>1, <2>2, <2>3
<1>2. PesStep(v, t) = w
  BY DEF PesStep, Skip
<1> HIDE DEF o, d, p
<1>3. w \in Packing /\ w.out = o /\ w.frames = v.frames /\ Same(v, w) /\ w.pc = p /\ w.dts = d
  BY <1>1 DEF Packing, Same
<1> QED
  BY <1>2, <1>3 DEF o, d, p

LEMMA DataIs ==
  ASSUME NEW v \in Packing, NEW t \in StreamTokens, v.pc = "scan", t.kind = "data"
  PROVE  LET w == PesStep(v, t)
         IN  /\ w \in Packing /\ w.out = Append(v.out, t) /\ w.frames = v.frames /\ Same(v, w)
             /\ w.pc = "scan" /\ w.dts = v.dts
<1> DEFINE o == Append(v.out, t)
           w == [v EXCEPT !.out = o]
<1>1. o \in Seq(Tokens)
  BY Joins DEF Packing
<1>2. PesStep(v, t) = w
  BY DEF PesStep
<1> HIDE DEF o
<1>3. w \in Packing /\ w.out = o /\ w.frames = v.frames /\ Same(v, w) /\ w.pc = "scan" /\ w.dts = v.dts
  BY <1>1 DEF Packing, Same
<1> QED
  BY <1>2, <1>3 DEF o

LEMMA PictureIs ==
  ASSUME NEW v \in Packing, NEW t \in StreamTokens, v.pc = "scan", t.kind = "pic"
  PROVE  LET w == PesStep(v, t)
         IN  /\ w \in Packing /\ w.frames = v.frames + 1 /\ Same(v, w)
             /\ w.pc = "scan" /\ w.dts = v.dts + PtsStep
             /\ \/ \E x \in Nat : w.out = (v.out \o <<PtsToken(x, FALSE)>>) \o <<t>>
                \/ \E x, y \in Nat : w.out = (v.out \o Header(x, y)) \o <<t>>
<1> DEFINE x == Presented(v.base, t.ref)
           h == IF t.b THEN <<PtsToken(x, FALSE)>> ELSE Header(x, v.dts)
           o == (v.out \o h) \o <<t>>
           d == v.dts + PtsStep
           f == v.frames + 1
           q == t.ref
           w == [v EXCEPT !.out = o, !.dts = d, !.frames = f, !.ref = q]
<1>1. x \in Nat
  <2>1. v.base \in Nat /\ t.ref \in Nat
    BY TokenKinds DEF Packing
  <2> QED
    BY <2>1, PresentedType
<1>2. v.dts \in Nat /\ v.out \in Seq(Tokens) /\ d \in Nat /\ f \in Nat /\ q \in Nat
  BY TimesAssumption, TokenKinds DEF Packing
<1> HIDE DEF x, d, f, q
<1>3. h \in Seq(Tokens)
  <2>1. PtsToken(x, FALSE) \in Tokens /\ Header(x, v.dts) \in Seq(Tokens)
    <3>1. x \in Int /\ v.dts \in Int /\ FALSE \in BOOLEAN /\ TRUE \in BOOLEAN
      BY <1>1, <1>2
    <3> QED
      BY <3>1, HeaderTokens
  <2> DEFINE u == PtsToken(x, FALSE)
  <2> HIDE DEF u
  <2>2. u \in Tokens => <<u>> \in Seq(Tokens)
    OBVIOUS
  <2> QED
    BY <2>1, <2>2 DEF u
<1>4. PesStep(v, t) = w
  BY DEF PesStep, Picture, x, d, f, q
<1>5. \/ h = <<PtsToken(x, FALSE)>>
      \/ h = Header(x, v.dts)
  OBVIOUS
<1> HIDE DEF h
<1>6. o \in Seq(Tokens)
  BY <1>2, <1>3, Joins
<1>7. \/ \E z \in Nat : o = (v.out \o <<PtsToken(z, FALSE)>>) \o <<t>>
      \/ \E z, y \in Nat : o = (v.out \o Header(z, y)) \o <<t>>
  BY <1>1, <1>2, <1>5
<1> HIDE DEF o
<1>8. /\ w \in Packing /\ w.frames = f /\ Same(v, w) /\ w.pc = "scan" /\ w.dts = d /\ w.out = o
  BY <1>2, <1>6 DEF Packing, Same
<1> QED
  BY <1>4, <1>7, <1>8 DEF d, f

LEMMA SequenceIs ==
  ASSUME NEW v \in Packing, NEW t \in StreamTokens, v.pc = "scan", t.kind = "seq"
  PROVE  LET w == PesStep(v, t)
         IN  /\ w \in Packing /\ w.pc = "look" /\ w.held = <<t>> /\ w.out = v.out
             /\ w.dts = v.dts /\ w.base = v.base /\ w.frames = v.frames
             /\ w.first_gop = v.first_gop /\ w.a_gop = v.a_gop
<1> DEFINE h == <<t>>
           w == [v EXCEPT !.pc = "look", !.held = h]
<1>1. h \in Seq(StreamTokens)
  OBVIOUS
<1>2. PesStep(v, t) = w
  BY DEF PesStep
<1> HIDE DEF h
<1>3. /\ w \in Packing /\ w.pc = "look" /\ w.held = h /\ w.out = v.out
      /\ w.dts = v.dts /\ w.base = v.base /\ w.frames = v.frames
      /\ w.first_gop = v.first_gop /\ w.a_gop = v.a_gop
  BY <1>1 DEF Packing
<1> QED
  BY <1>2, <1>3 DEF h

LEMMA HeldIs ==
  ASSUME NEW v \in Packing, NEW t \in StreamTokens, v.pc = "look", ~TooVerbose(v), t.kind # "pic"
  PROVE  LET w == PesStep(v, t)
         IN  /\ w \in Packing /\ w.pc = "look" /\ w.held = Append(v.held, t) /\ w.out = v.out
             /\ w.dts = v.dts /\ w.base = v.base /\ w.frames = v.frames
             /\ w.first_gop = v.first_gop /\ w.a_gop = v.a_gop
<1> DEFINE h == Append(v.held, t)
           w == [v EXCEPT !.held = h]
<1>1. h \in Seq(StreamTokens)
  BY DEF Packing
<1>2. PesStep(v, t) = w
  BY DEF PesStep
<1> HIDE DEF h
<1>3. /\ w \in Packing /\ w.pc = "look" /\ w.held = h /\ w.out = v.out
      /\ w.dts = v.dts /\ w.base = v.base /\ w.frames = v.frames
      /\ w.first_gop = v.first_gop /\ w.a_gop = v.a_gop
  BY <1>1 DEF Packing
<1> QED
  BY <1>2, <1>3 DEF h

LEMMA ExitIs ==
  ASSUME NEW v \in Packing, NEW t \in StreamTokens, v.pc = "look", TooVerbose(v)
  PROVE  LET w == PesStep(v, t)
         IN  w \in Packing /\ w = [v EXCEPT !.pc = "exit"] /\ w.pc = "exit" /\ w.out = v.out
<1> DEFINE w == [v EXCEPT !.pc = "exit"]
<1>1. PesStep(v, t) = w
  BY DEF PesStep
<1>2. w \in Packing /\ w.pc = "exit" /\ w.out = v.out
  BY DEF Packing
<1> QED
  BY <1>1, <1>2

LEMMA GroupIs ==
  ASSUME NEW v \in Packing, NEW t \in StreamTokens, v.pc = "look", ~TooVerbose(v), t.kind = "pic"
  PROVE  LET w == PesStep(v, t)
             x == Presented(v.dts, t.ref)
         IN  /\ w \in Packing /\ x \in Nat
             /\ IF TooLong(v, x) THEN w = [v EXCEPT !.pc = "done"]
                ELSE /\ w.pc = "scan" /\ w.held = <<>> /\ w.base = v.dts
                     /\ w.dts = v.dts + PtsStep /\ w.frames = v.frames + 1
                     /\ w.out = ((v.out \o Header(x, v.dts)) \o v.held) \o <<t>>
                     /\ w.first_gop = (IF v.first_gop = 0 /\ x > PtsStep THEN v.dts
                                       ELSE v.first_gop)
                     /\ w.a_gop = (IF v.first_gop > 0 /\ v.a_gop = 0 THEN v.dts - v.first_gop
                                   ELSE v.a_gop)
<1> DEFINE x == Presented(v.dts, t.ref)
           o == ((v.out \o Header(x, v.dts)) \o v.held) \o <<t>>
           d == v.dts + PtsStep
           f == v.frames + 1
           g == IF v.first_gop = 0 /\ x > PtsStep THEN v.dts ELSE v.first_gop
           a == IF v.first_gop > 0 /\ v.a_gop = 0 THEN v.dts - v.first_gop ELSE v.a_gop
           e == v.dts
           tr == t.ref
           w == [v EXCEPT !.pc = "scan", !.base = e, !.dts = d, !.frames = f, !.held = <<>>,
                          !.ref = tr, !.out = o, !.first_gop = g, !.a_gop = a]
<1>1. x \in Nat
  <2>1. v.dts \in Nat /\ t.ref \in Nat
    BY TokenKinds DEF Packing
  <2> QED
    BY <2>1, PresentedType
<1>2. /\ v.dts \in Nat /\ v.out \in Seq(Tokens) /\ v.held \in Seq(StreamTokens)
      /\ d \in Nat /\ f \in Nat /\ g \in Nat /\ a \in Int /\ e \in Nat /\ tr \in Nat
  BY TimesAssumption, TokenKinds DEF Packing
<1>3. CASE TooLong(v, x)
  <2> DEFINE z == [v EXCEPT !.pc = "done"]
  <2>1. PesStep(v, t) = z
    BY <1>3 DEF PesStep, Group
  <2>2. z \in Packing
    BY DEF Packing
  <2> QED
    BY <1>1, <1>3, <2>1, <2>2
<1>4. CASE ~TooLong(v, x)
  <2>1. PesStep(v, t) = [v EXCEPT !.pc = "scan", !.base = v.dts, !.dts = @ + PtsStep,
                     !.frames = @ + 1, !.held = <<>>, !.ref = t.ref,
                     !.out = ((@ \o Header(x, v.dts)) \o v.held) \o <<t>>,
                     !.first_gop = IF @ = 0 /\ x > PtsStep THEN v.dts ELSE @,
                     !.a_gop = IF v.first_gop > 0 /\ @ = 0 THEN v.dts - v.first_gop ELSE @]
    BY <1>4, Zenon DEF PesStep, Group
  <2>2. PesStep(v, t) = w
    BY <2>1
  <2>3. o \in Seq(Tokens)
    <3>1. v.held \in Seq(Tokens)
      <4>1. \A u \in StreamTokens : u \in Tokens
        BY TokenKinds
      <4> QED
        BY <1>2, <4>1
    <3>2. v.out \o Header(x, v.dts) \in Seq(Tokens)
      <4>1. Header(x, v.dts) \in Seq(Tokens)
        <5>1. x \in Int /\ v.dts \in Int /\ TRUE \in BOOLEAN
          BY <1>1, <1>2
        <5> QED
          BY <5>1, HeaderTokens
      <4> QED
        BY <1>2, <4>1, Joins
    <3> QED
      BY <3>1, <3>2, Joins
  <2> HIDE DEF x, o, d, f, g, a, e, tr
  <2>4. /\ w \in Packing /\ w.pc = "scan" /\ w.held = <<>> /\ w.base = e
        /\ w.dts = d /\ w.frames = f /\ w.out = o /\ w.first_gop = g /\ w.a_gop = a
    <3> DEFINE h == <<>>
    <3>1. h \in Seq(StreamTokens)
      OBVIOUS
    <3> HIDE DEF h
    <3>2. [v EXCEPT !.pc = "scan", !.base = e, !.dts = d, !.frames = f, !.held = h,
                    !.ref = tr, !.out = o, !.first_gop = g, !.a_gop = a]
            = [pc |-> "scan", dts |-> d, base |-> e, ref |-> tr, first_gop |-> g, a_gop |-> a,
               held |-> h, frames |-> f, out |-> o]
      <4> DEFINE q == [v EXCEPT !.pc = "scan", !.base = e, !.dts = d, !.frames = f, !.held = h,
                                !.ref = tr, !.out = o, !.first_gop = g, !.a_gop = a]
      <4>1. DOMAIN q = DOMAIN v
        OBVIOUS
      <4>2. q.pc = "scan"
        BY DEF Packing
      <4>3. q.base = e
        BY DEF Packing
      <4>4. q.dts = d
        BY DEF Packing
      <4>5. q.frames = f
        BY DEF Packing
      <4>6. q.held = h
        BY DEF Packing
      <4>7. q.out = o
        BY DEF Packing
      <4>8. q.first_gop = g
        BY DEF Packing
      <4>9. q.a_gop = a
        BY DEF Packing
      <4>10. /\ q = [z \in DOMAIN v |-> q[z]]
             /\ DOMAIN v = {"pc", "dts", "base", "ref", "first_gop", "a_gop", "held", "frames", "out"}
        BY DEF Packing
      <4>11. q.ref = tr
        BY DEF Packing
      <4> HIDE DEF q
      <4> QED
        BY <4>10, <4>11, <4>2, <4>3, <4>4, <4>5, <4>6, <4>7, <4>8, <4>9
    <3> DEFINE r == [pc |-> "scan", dts |-> d, base |-> e, ref |-> tr, first_gop |-> g, a_gop |-> a,
                     held |-> h, frames |-> f, out |-> o]
    <3>3. /\ r \in Packing /\ r.pc = "scan" /\ r.held = h /\ r.base = e
          /\ r.dts = d /\ r.frames = f /\ r.out = o /\ r.first_gop = g /\ r.a_gop = a
      BY <1>2, <2>3, <3>1 DEF Packing
    <3> QED
      BY <3>2, <3>3, Zenon DEF h
  <2> QED
    BY <1>1, <1>4, <2>2, <2>4 DEF x, o, d, f, g, a, e, tr
<1> QED
  BY <1>3, <1>4

LEMMA DoneIs ==
  ASSUME NEW v \in Packing, NEW t \in StreamTokens, v.pc \in {"done", "exit"}
  PROVE  PesStep(v, t) = v
BY DEF PesStep

LEMMA StepType ==
  ASSUME NEW v \in Packing, NEW t \in StreamTokens
  PROVE  PesStep(v, t) \in Packing
<1>1. v.pc \in {"first", "skip", "scan", "look", "done", "exit"} /\ t.kind \in {"seq", "pic", "data"}
  BY TokenKinds DEF Packing
<1>2. CASE v.pc = "first"
  BY <1>2, FirstIs, Zenon
<1>3. CASE v.pc = "skip"
  BY <1>3, SkipIs, Zenon
<1>4. CASE v.pc = "scan" /\ t.kind = "seq"
  BY <1>4, SequenceIs, Zenon
<1>5. CASE v.pc = "scan" /\ t.kind = "pic"
  BY <1>5, PictureIs, Zenon
<1>6. CASE v.pc = "scan" /\ t.kind = "data"
  BY <1>6, DataIs, Zenon
<1>7. CASE v.pc = "look" /\ ~TooVerbose(v) /\ t.kind = "pic"
  BY <1>7, GroupIs, Zenon
<1>8. CASE v.pc = "look" /\ ~TooVerbose(v) /\ t.kind # "pic"
  BY <1>8, HeldIs, Zenon
<1>9. CASE v.pc \in {"done", "exit"}
  BY <1>9, DoneIs, Zenon
<1>10. CASE v.pc = "look" /\ TooVerbose(v)
  BY <1>10, ExitIs, Zenon
<1> QED
  BY <1>1, <1>2, <1>3, <1>4, <1>5, <1>6, <1>7, <1>8, <1>9, <1>10

LEMMA ScannedIs ==
  ASSUME NEW s \in Seq(StreamTokens)
  PROVE  \E f \in [0..Len(s) -> Packing] :
           /\ f[0] = PesStart /\ \A i \in 1..Len(s) : f[i] = PesStep(f[i - 1], s[i])
           /\ Scanned(s) = f[Len(s)]
<1> DEFINE n == Len(s)
           g == [v \in Packing |-> [i \in 1..n |-> PesStep(v, s[i])]]
           P(f) == f = [i \in 0..n |-> IF i = 0 THEN PesStart ELSE PesStep(f[i - 1], s[i])]
           e == CHOOSE f : P(f)
<1>1. n \in Nat /\ \A i \in 1..n : s[i] \in StreamTokens
  OBVIOUS
<1>2. PesStart \in Packing
  BY DEF PesStart, Packing
<1>3. g \in [Packing -> [1..n -> Packing]]
  BY <1>1, StepType
<1>4. \A v \in Packing, i \in 1..n : g[v][i] = PesStep(v, s[i])
  OBVIOUS
<1> HIDE DEF n, g, P, e
<1> DEFINE S == Packing
           b == PesStart
<1>a. b \in S /\ g \in [S -> [1..n -> S]]
  BY <1>2, <1>3
<1> HIDE DEF S, b
<1>b. Unfolds(S, b, n, g)
  BY <1>1, <1>a, Recursion
<1>5. PICK f \in [0..n -> Packing] :
        f[0] = PesStart /\ \A i \in 1..n : f[i] = g[f[i - 1]][i]
  BY <1>b, Zenon DEF S, b, Unfolds
<1>6. ASSUME NEW i \in 1..n PROVE f[i] = PesStep(f[i - 1], s[i])
  <2>1. f[i - 1] \in Packing
    BY <1>1, <1>5
  <2> QED
    BY <1>4, <1>5, <2>1
<1> USE DEF P
<1>7. P(f)
  <2>1. ASSUME NEW i \in 0..n PROVE f[i] = IF i = 0 THEN PesStart ELSE PesStep(f[i - 1], s[i])
    <3>1. CASE i = 0
      BY <1>5, <3>1
    <3>2. CASE i # 0
      <4>1. i \in 1..n
        BY <1>1, <3>2
      <4> QED
        BY <1>6, <3>2, <4>1
    <3> QED
      BY <3>1, <3>2
  <2>2. f = [i \in 0..n |-> f[i]]
    BY <1>5
  <2> QED
    BY <2>1, <2>2
<1>8. P(e)
  BY <1>7, Zenon DEF e
<1>9. Scanned(s) = e[n]
  BY Zenon DEF Scanned, n, e
<1>10. \A i \in 0..n : e[i] = IF i = 0 THEN PesStart ELSE PesStep(e[i - 1], s[i])
  <2> DEFINE h == [i \in 0..n |-> IF i = 0 THEN PesStart ELSE PesStep(e[i - 1], s[i])]
  <2>1. e = h
    BY <1>8
  <2>2. \A i \in 0..n : h[i] = IF i = 0 THEN PesStart ELSE PesStep(e[i - 1], s[i])
    OBVIOUS
  <2> HIDE DEF h
  <2> QED
    BY <2>1, <2>2
<1> HIDE DEF P
<1>11. \A i \in 0..n : e[i] = f[i]
  <2> DEFINE M == {i \in Nat : i <= n => e[i] = f[i]}
  <2>1. 0 \in M
    BY <1>1, <1>5, <1>10
  <2>2. ASSUME NEW i \in Nat, i \in M PROVE i + 1 \in M
    <3> SUFFICES ASSUME i + 1 <= n PROVE e[i + 1] = f[i + 1]
      OBVIOUS
    <3>1. e[i] = f[i] /\ i + 1 \in 1..n /\ i + 1 \in 0..n /\ (i + 1) - 1 = i /\ i + 1 # 0
      BY <1>1, <2>2
    <3>2. e[i + 1] = PesStep(e[(i + 1) - 1], s[i + 1])
      BY <1>10, <3>1
    <3>3. f[i + 1] = PesStep(f[(i + 1) - 1], s[i + 1])
      BY <1>6, <3>1
    <3> QED
      BY <3>1, <3>2, <3>3
  <2> HIDE DEF M
  <2>3. \A i \in Nat : i \in M
    BY <2>1, <2>2, Counting
  <2> QED
    BY <1>1, <2>3 DEF M
<1>12. Scanned(s) = f[n]
  BY <1>1, <1>9, <1>11
<1> QED
  BY <1>5, <1>6, <1>12 DEF n

\* Headers are where they should be.
Smooth(o) == \A i \in 1..(Len(o) - 1) : Follows(o[i], o[i + 1])

\* What esvideo2pes has written, from its first step on.
Written(o) ==
  /\ o \in Seq(Tokens) /\ Len(o) >= 3 /\ o[1].kind = "pes" /\ o[Len(o)] \in StreamTokens
  /\ Smooth(o)

LEMMA StreamSmooth ==
  ASSUME NEW r \in Seq(StreamTokens)
  PROVE  r \in Seq(Tokens) /\ Smooth(r)
<1>1. \A t \in StreamTokens : t \in Tokens /\ ~Both(t) /\ t.kind # "dts" /\ t.kind # "pes"
  BY TokenKinds DEF IsHeader
<1>2. \A i \in 1..Len(r) : r[i] \in StreamTokens
  OBVIOUS
<1>3. r \in Seq(Tokens)
  BY <1>1
<1>4. ASSUME NEW i \in 1..(Len(r) - 1) PROVE Follows(r[i], r[i + 1])
  <2>1. i \in 1..Len(r) /\ i + 1 \in 1..Len(r)
    OBVIOUS
  <2> QED
    BY <1>1, <1>2, <2>1 DEF Follows
<1> QED
  BY <1>3, <1>4 DEF Smooth

LEMMA SmoothJoin ==
  ASSUME NEW o \in Seq(Tokens), NEW u \in Seq(Tokens), Smooth(o), Smooth(u),
         Len(o) >= 1, Len(u) >= 1, Follows(o[Len(o)], u[1])
  PROVE  /\ o \o u \in Seq(Tokens) /\ Smooth(o \o u) /\ Len(o \o u) = Len(o) + Len(u)
         /\ (o \o u)[1] = o[1] /\ (o \o u)[Len(o \o u)] = u[Len(u)]
<1> DEFINE q == o \o u
           n == Len(o)
           k0 == Len(u)
<1>1. /\ q \in Seq(Tokens) /\ Len(q) = n + k0 /\ n \in Nat /\ k0 \in Nat
      /\ \A i \in 1..n : q[i] = o[i]
      /\ \A i \in 1..k0 : q[n + i] = u[i]
  OBVIOUS
<1>2. /\ \A i \in 1..(n - 1) : Follows(o[i], o[i + 1])
      /\ \A i \in 1..(k0 - 1) : Follows(u[i], u[i + 1])
      /\ Follows(o[n], u[1]) /\ n >= 1 /\ k0 >= 1
  BY DEF Smooth
<1> HIDE DEF q, n, k0
<1>3. ASSUME NEW i \in 1..(n + k0 - 1) PROVE Follows(q[i], q[i + 1])
  <2>1. CASE i < n
    <3>1. i \in 1..(n - 1) /\ i \in 1..n /\ i + 1 \in 1..n
      BY <1>1, <2>1
    <3> QED
      BY <1>1, <1>2, <3>1
  <2>2. CASE i = n
    <3>1. n \in 1..n /\ 1 \in 1..k0
      BY <1>1, <1>2
    <3>2. q[n] = o[n] /\ q[n + 1] = u[1]
      BY <1>1, <3>1
    <3> QED
      BY <1>2, <2>2, <3>2
  <2>3. CASE i > n
    <3>1. PICK j \in 1..(k0 - 1) : i = n + j
      <4>1. i - n \in 1..(k0 - 1) /\ i = n + (i - n)
        BY <1>1, <2>3
      <4> QED
        BY <4>1
    <3>2. j \in 1..k0 /\ j + 1 \in 1..k0 /\ (n + j) + 1 = n + (j + 1)
      BY <1>1
    <3>3. q[n + j] = u[j] /\ q[n + (j + 1)] = u[j + 1]
      BY <1>1, <3>2
    <3> QED
      BY <1>2, <3>1, <3>2, <3>3
  <2> QED
    BY <1>1, <2>1, <2>2, <2>3
<1>4. q[1] = o[1] /\ q[n + k0] = u[k0]
  <2>1. 1 \in 1..n /\ k0 \in 1..k0
    BY <1>1, <1>2
  <2> QED
    BY <1>1, <2>1
<1>5. Smooth(q)
  BY <1>1, <1>3 DEF Smooth
<1> QED
  BY <1>1, <1>4, <1>5 DEF q, n, k0

\* A header and what comes after it.
LEMMA HeaderSmooth ==
  ASSUME NEW x \in Nat, NEW y \in Nat, NEW r \in Seq(StreamTokens), Len(r) >= 1
  PROVE  LET u == Header(x, y) \o r
         IN  /\ u \in Seq(Tokens) /\ Smooth(u) /\ Len(u) = 2 + Len(r)
             /\ u[1].kind = "pes" /\ u[Len(u)] \in StreamTokens
<1> DEFINE h == Header(x, y)
<1>1. /\ h \in Seq(Tokens) /\ Len(h) = 2 /\ Both(h[1]) /\ h[1].kind = "pes" /\ h[2].kind = "dts"
  <2>1. x \in Int /\ y \in Int /\ TRUE \in BOOLEAN
    OBVIOUS
  <2>2. /\ Header(x, y) \in Seq(Tokens) /\ Len(Header(x, y)) = 2
        /\ Header(x, y)[1] = PtsToken(x, TRUE) /\ Header(x, y)[2] = DtsToken(y)
        /\ PtsToken(x, TRUE).kind = "pes" /\ PtsToken(x, TRUE).both = TRUE
        /\ DtsToken(y).kind = "dts"
    BY <2>1, HeaderTokens
  <2> QED
    BY <2>2 DEF Both
<1>2. Smooth(h)
  <2>1. Follows(h[1], h[2])
    BY <1>1 DEF Follows
  <2> HIDE DEF h
  <2> QED
    BY <1>1, <2>1 DEF Smooth
<1>3. r[1] \in StreamTokens /\ r[Len(r)] \in StreamTokens
  OBVIOUS
<1>4. r[1].kind # "dts"
  BY <1>3, TokenKinds DEF IsHeader
<1> HIDE DEF h
<1>5. Follows(h[2], r[1])
  BY <1>1, <1>4 DEF Follows, Both
<1>6. r \in Seq(Tokens) /\ Smooth(r)
  BY StreamSmooth
<1>7. Follows(h[Len(h)], r[1]) /\ Len(h) >= 1
  BY <1>1, <1>5
<1>8. /\ h \o r \in Seq(Tokens) /\ Smooth(h \o r) /\ Len(h \o r) = Len(h) + Len(r)
      /\ (h \o r)[1] = h[1] /\ (h \o r)[Len(h \o r)] = r[Len(r)]
  BY <1>1, <1>2, <1>6, <1>7, SmoothJoin
<1> QED
  BY <1>1, <1>3, <1>8 DEF h

LEMMA PtsSmooth ==
  ASSUME NEW x \in Nat, NEW r \in Seq(StreamTokens), Len(r) >= 1
  PROVE  LET u == <<PtsToken(x, FALSE)>> \o r
         IN  /\ u \in Seq(Tokens) /\ Smooth(u) /\ Len(u) = 1 + Len(r)
             /\ u[1].kind = "pes" /\ u[Len(u)] \in StreamTokens
<1> DEFINE p == PtsToken(x, FALSE)
           h == <<p>>
<1>1. p \in Tokens /\ p.kind = "pes" /\ ~Both(p)
  <2>1. x \in Int /\ FALSE \in BOOLEAN
    OBVIOUS
  <2>2. p \in Tokens /\ p.kind = "pes" /\ p.both = FALSE
    BY <2>1, HeaderTokens
  <2> QED
    BY <2>2 DEF Both
<1> HIDE DEF p
<1>2. h \in Seq(Tokens) /\ Len(h) = 1 /\ h[1] = p
  BY <1>1
<1> HIDE DEF h
<1>3. Smooth(h)
  BY <1>2 DEF Smooth
<1>4. r[1] \in StreamTokens /\ r[Len(r)] \in StreamTokens
  OBVIOUS
<1>5. r[1].kind # "dts" /\ r[1].kind # "pes"
  BY <1>4, TokenKinds DEF IsHeader
<1>6. Follows(h[Len(h)], r[1]) /\ Len(h) >= 1
  BY <1>1, <1>2, <1>5 DEF Follows
<1>7. r \in Seq(Tokens) /\ Smooth(r)
  BY StreamSmooth
<1>8. /\ h \o r \in Seq(Tokens) /\ Smooth(h \o r) /\ Len(h \o r) = Len(h) + Len(r)
      /\ (h \o r)[1] = h[1] /\ (h \o r)[Len(h \o r)] = r[Len(r)]
  BY <1>2, <1>3, <1>6, <1>7, SmoothJoin
<1>9. h = <<PtsToken(x, FALSE)>>
  BY DEF h, p
<1> QED
  BY <1>1, <1>2, <1>4, <1>8, <1>9

\* More is written.
LEMMA WrittenJoin ==
  ASSUME NEW o, Written(o), NEW u \in Seq(Tokens), Len(u) >= 1, Smooth(u),
         u[1].kind # "dts", u[Len(u)] \in StreamTokens
  PROVE  Written(o \o u)
<1>1. o \in Seq(Tokens) /\ Len(o) >= 3 /\ o[1].kind = "pes" /\ o[Len(o)] \in StreamTokens /\ Smooth(o)
  BY DEF Written
<1>2. ~Both(o[Len(o)]) /\ o[Len(o)].kind # "pes"
  BY <1>1, TokenKinds DEF IsHeader
<1>3. Follows(o[Len(o)], u[1]) /\ Len(o) >= 1
  BY <1>1, <1>2 DEF Follows
<1>4. /\ o \o u \in Seq(Tokens) /\ Smooth(o \o u) /\ Len(o \o u) = Len(o) + Len(u)
      /\ (o \o u)[1] = o[1] /\ (o \o u)[Len(o \o u)] = u[Len(u)]
  BY <1>1, <1>3, SmoothJoin
<1>5. Len(o \o u) >= 3
  BY <1>1, <1>4
<1> QED
  BY <1>1, <1>4, <1>5 DEF Written

LEMMA WrittenAppend ==
  ASSUME NEW o, Written(o), NEW t \in StreamTokens
  PROVE  Written(Append(o, t))
<1>1. <<t>> \in Seq(StreamTokens) /\ Len(<<t>>) = 1 /\ <<t>>[1] = t
  OBVIOUS
<1>2. <<t>> \in Seq(Tokens) /\ Smooth(<<t>>)
  BY <1>1, StreamSmooth
<1>3. t.kind # "dts"
  BY TokenKinds DEF IsHeader
<1>4. Written(o \o <<t>>)
  <2> DEFINE u == <<t>>
  <2>1. u \in Seq(Tokens) /\ Len(u) >= 1 /\ Smooth(u) /\ u[1].kind # "dts" /\ u[Len(u)] \in StreamTokens
    BY <1>1, <1>2, <1>3
  <2> HIDE DEF u
  <2>2. Written(o \o u)
    BY <2>1, WrittenJoin
  <2> QED
    BY <2>2 DEF u
<1>5. o \in Seq(Tokens) /\ t \in Tokens
  BY TokenKinds DEF Written
<1>6. o \o <<t>> = Append(o, t)
  BY <1>5
<1> QED
  BY <1>4, <1>6

LEMMA JoinsAnyWay ==
  \A o, h, r \in Seq(Tokens) : (o \o h) \o r = o \o (h \o r)
BY ConcatAssociative

\* Every step writes like that.
LEMMA WritesWell ==
  ASSUME NEW v \in Packing, NEW t \in StreamTokens, v.pc = "first" \/ Written(v.out)
  PROVE  PesStep(v, t).pc # "first" /\ Written(PesStep(v, t).out)
<1> DEFINE w == PesStep(v, t)
           o == v.out
<1>1. v.pc \in {"first", "skip", "scan", "look", "done", "exit"} /\ t.kind \in {"seq", "pic", "data"}
  BY TokenKinds DEF Packing
<1>2. o \in Seq(Tokens) /\ v.dts \in Nat /\ v.held \in Seq(StreamTokens)
  BY DEF Packing
<1>3. <<t>> \in Seq(StreamTokens) /\ Len(<<t>>) >= 1
  OBVIOUS
<1>4. CASE v.pc = "first"
  <2>1. w.pc = "skip" /\ w.out = Append(Header(PtsStep, 0), t)
    BY <1>4, FirstIs, Zenon
  <2> DEFINE h == Header(PtsStep, 0)
             r == <<t>>
             u == h \o r
  <2>2. PtsStep \in Nat /\ 0 \in Nat /\ PtsStep \in Int /\ 0 \in Int /\ TRUE \in BOOLEAN
    BY TimesAssumption
  <2>3. h \in Seq(Tokens)
    BY <2>2, HeaderTokens
  <2>4. u = Append(h, t)
    <3> HIDE DEF h
    <3> QED
      BY <2>3
  <2>5. /\ u \in Seq(Tokens) /\ Smooth(u) /\ Len(u) = 2 + Len(r)
        /\ u[1].kind = "pes" /\ u[Len(u)] \in StreamTokens
    BY <1>3, <2>2, HeaderSmooth
  <2> HIDE DEF h, u
  <2>6. Len(u) >= 3
    BY <1>3, <2>5
  <2>7. Written(u)
    BY <2>5, <2>6 DEF Written
  <2> QED
    BY <2>1, <2>4, <2>7 DEF h
<1>5. ASSUME v.pc # "first" PROVE Written(o)
  BY <1>5
<1>6. CASE v.pc = "skip"
  <2>1. w.out = Append(o, t) /\ w.pc \in {"scan", "skip"}
    BY <1>6, SkipIs
  <2> QED
    BY <1>5, <1>6, <2>1, WrittenAppend
<1>7. CASE v.pc = "scan" /\ t.kind = "seq"
  <2>1. w.out = o /\ w.pc = "look"
    BY <1>7, SequenceIs, Zenon
  <2> QED
    BY <1>5, <1>7, <2>1
<1>8. CASE v.pc = "scan" /\ t.kind = "data"
  <2>1. w.out = Append(o, t) /\ w.pc = "scan"
    BY <1>8, DataIs, Zenon
  <2> QED
    BY <1>5, <1>8, <2>1, WrittenAppend
<1>9. CASE v.pc = "scan" /\ t.kind = "pic"
  <2>1. /\ w.pc = "scan"
        /\ \/ \E x \in Nat : w.out = (o \o <<PtsToken(x, FALSE)>>) \o <<t>>
           \/ \E x, y \in Nat : w.out = (o \o Header(x, y)) \o <<t>>
    BY <1>9, PictureIs, Zenon
  <2>2. Written(o)
    BY <1>5, <1>9
  <2> DEFINE r == <<t>>
  <2>3. ASSUME NEW x \in Nat, w.out = (o \o <<PtsToken(x, FALSE)>>) \o <<t>> PROVE Written(w.out)
    <3> DEFINE h == <<PtsToken(x, FALSE)>>
               u == h \o r
    <3>1. /\ u \in Seq(Tokens) /\ Smooth(u) /\ Len(u) = 1 + Len(r)
          /\ u[1].kind = "pes" /\ u[Len(u)] \in StreamTokens
      BY <1>3, PtsSmooth
    <3>2. h \in Seq(Tokens)
      <4>1. x \in Int /\ FALSE \in BOOLEAN
        OBVIOUS
      <4>2. PtsToken(x, FALSE) \in Tokens
        BY <4>1, HeaderTokens
      <4> DEFINE a == PtsToken(x, FALSE)
      <4> HIDE DEF a
      <4>3. a \in Tokens => <<a>> \in Seq(Tokens)
        OBVIOUS
      <4> QED
        BY <4>2, <4>3 DEF a
    <3>3. r \in Seq(Tokens)
      BY <1>3, StreamSmooth
    <3> HIDE DEF h, r
    <3>4. (o \o h) \o r = o \o (h \o r)
      BY <1>2, <3>2, <3>3, JoinsAnyWay, Zenon
    <3>5. u[1].kind # "dts" /\ Len(u) >= 1
      BY <1>3, <3>1 DEF r
    <3> HIDE DEF u
    <3>6. Written(o \o u)
      BY <2>2, <3>1, <3>5, WrittenJoin
    <3> QED
      BY <2>3, <3>4, <3>6, Zenon DEF u, h, r
  <2>4. ASSUME NEW x \in Nat, NEW y \in Nat, w.out = (o \o Header(x, y)) \o <<t>> PROVE Written(w.out)
    <3> DEFINE h == Header(x, y)
               u == h \o r
    <3>1. /\ u \in Seq(Tokens) /\ Smooth(u) /\ Len(u) = 2 + Len(r)
          /\ u[1].kind = "pes" /\ u[Len(u)] \in StreamTokens
      BY <1>3, HeaderSmooth
    <3>2. h \in Seq(Tokens)
      <4>1. x \in Int /\ y \in Int /\ TRUE \in BOOLEAN
        OBVIOUS
      <4> QED
        BY <4>1, HeaderTokens
    <3>3. r \in Seq(Tokens)
      BY <1>3, StreamSmooth
    <3> HIDE DEF h, r
    <3>4. (o \o h) \o r = o \o (h \o r)
      BY <1>2, <3>2, <3>3, JoinsAnyWay, Zenon
    <3>5. u[1].kind # "dts" /\ Len(u) >= 1
      BY <1>3, <3>1 DEF r
    <3> HIDE DEF u
    <3>6. Written(o \o u)
      BY <2>2, <3>1, <3>5, WrittenJoin
    <3> QED
      BY <2>4, <3>4, <3>6, Zenon DEF u, h, r
  <2> QED
    BY <2>1, <2>3, <2>4
<1>10. CASE v.pc = "look" /\ ~TooVerbose(v) /\ t.kind = "pic"
  <2> DEFINE x == Presented(v.dts, t.ref)
  <2>1. /\ x \in Nat
        /\ IF TooLong(v, x) THEN w = [v EXCEPT !.pc = "done"]
           ELSE w.pc = "scan" /\ w.out = ((o \o Header(x, v.dts)) \o v.held) \o <<t>>
    BY <1>10, GroupIs, Zenon
  <2>2. Written(o)
    BY <1>5, <1>10
  <2>3. CASE TooLong(v, x)
    <3>1. w.pc = "done" /\ w.out = o
      <4>1. w = [v EXCEPT !.pc = "done"]
        BY <2>1, <2>3
      <4> HIDE DEF w
      <4> QED
        BY <4>1 DEF Packing
    <3> QED
      BY <2>2, <3>1
  <2>4. CASE ~TooLong(v, x)
    <3> DEFINE h == Header(x, v.dts)
               g == <<t>>
               r == v.held \o g
               u == h \o r
    <3>1. r \in Seq(StreamTokens) /\ Len(r) >= 1
      BY <1>2
    <3>2. h \in Seq(Tokens)
      <4>1. x \in Int /\ v.dts \in Int /\ TRUE \in BOOLEAN
        BY <1>2, <2>1
      <4> QED
        BY <4>1, HeaderTokens
    <3>3. v.held \in Seq(Tokens) /\ g \in Seq(Tokens)
      BY <1>2, <1>3, StreamSmooth
    <3> HIDE DEF x, r
    <3>4. /\ u \in Seq(Tokens) /\ Smooth(u) /\ Len(u) = 2 + Len(r)
          /\ u[1].kind = "pes" /\ u[Len(u)] \in StreamTokens
      BY <1>2, <2>1, <3>1, HeaderSmooth
    <3>5. ((o \o h) \o v.held) \o g = o \o u
      <4> HIDE DEF h, g
      <4>1. o \o h \in Seq(Tokens)
        BY <1>2, <3>2
      <4>2. ((o \o h) \o v.held) \o g = (o \o h) \o r
        BY <3>3, <4>1, JoinsAnyWay, Zenon DEF r
      <4>3. r \in Seq(Tokens)
        BY <3>3 DEF r
      <4> QED
        BY <1>2, <3>2, <4>2, <4>3, JoinsAnyWay, Zenon DEF u
    <3>6. u[1].kind # "dts" /\ Len(u) >= 1
      BY <3>1, <3>4
    <3> HIDE DEF u
    <3>7. Written(o \o u)
      BY <2>2, <3>4, <3>6, WrittenJoin
    <3>8. w.pc = "scan" /\ w.out = ((o \o h) \o v.held) \o g
      BY <2>1, <2>4
    <3> QED
      BY <3>5, <3>7, <3>8
  <2> QED
    BY <2>3, <2>4
<1>11. CASE v.pc = "look" /\ ~TooVerbose(v) /\ t.kind # "pic"
  <2>1. w.out = o /\ w.pc = "look"
    BY <1>11, HeldIs, Zenon
  <2> QED
    BY <1>5, <1>11, <2>1
<1>12. CASE v.pc \in {"done", "exit"}
  <2>1. w = v
    BY <1>12, DoneIs
  <2> QED
    BY <1>5, <1>12, <2>1
<1>13. CASE v.pc = "look" /\ TooVerbose(v)
  <2>1. w.out = o /\ w.pc = "exit"
    BY <1>13, ExitIs, Zenon
  <2> QED
    BY <1>5, <1>13, <2>1
<1> HIDE DEF w, o
<1> QED
  BY <1>1, <1>4, <1>6, <1>7, <1>8, <1>9, <1>10, <1>11, <1>12, <1>13 DEF w

\* From the first token on.
LEMMA AlwaysWell ==
  ASSUME NEW s, IsStream(s), NEW f \in [0..Len(s) -> Packing], f[0] = PesStart,
         \A i \in 1..Len(s) : f[i] = PesStep(f[i - 1], s[i])
  PROVE  \A i \in 1..Len(s) : f[i].pc # "first" /\ Written(f[i].out)
<1> DEFINE n == Len(s)
           H(i) == f[i].pc # "first" /\ Written(f[i].out)
           M == {i \in Nat : i <= n => i = 0 \/ H(i)}
<1>1. n \in Nat /\ \A i \in 1..n : s[i] \in StreamTokens
  BY DEF IsStream
<1> HIDE DEF H, n
<1>2. 0 \in M
  OBVIOUS
<1>3. ASSUME NEW i \in Nat, i \in M PROVE i + 1 \in M
  <2> SUFFICES ASSUME i + 1 <= n PROVE H(i + 1)
    OBVIOUS
  <2>1. i <= n /\ i + 1 \in 1..n /\ i \in 0..n /\ (i + 1) - 1 = i
    BY <1>1
  <2>2. i = 0 \/ H(i)
    BY <1>3, <2>1
  <2> HIDE DEF M
  <2>3. f[i] \in Packing /\ s[i + 1] \in StreamTokens /\ f[i + 1] = PesStep(f[i], s[i + 1])
    BY <1>1, <2>1 DEF n
  <2>4. f[i].pc = "first" \/ Written(f[i].out)
    BY <2>2 DEF H, PesStart
  <2> QED
    BY <2>3, <2>4, WritesWell DEF H
<1> HIDE DEF M
<1>4. \A i \in Nat : i \in M
  BY <1>2, <1>3, Counting
<1>5. \A i \in 1..n : i \in Nat /\ i <= n /\ i # 0
  BY <1>1
<1>6. \A i \in 1..n : H(i)
  BY <1>4, <1>5 DEF M
<1> QED
  BY <1>6 DEF H, n

LEMMA ScannedWell ==
  ASSUME NEW s, IsStream(s)
  PROVE  Scanned(s) \in Packing /\ Scanned(s).pc # "first" /\ Written(Scanned(s).out)
<1>1. s \in Seq(StreamTokens) /\ s # <<>>
  BY DEF IsStream
<1>2. Len(s) \in Nat /\ Len(s) \in 1..Len(s) /\ Len(s) \in 0..Len(s)
  BY <1>1
<1>3. PICK f \in [0..Len(s) -> Packing] :
        /\ f[0] = PesStart /\ \A i \in 1..Len(s) : f[i] = PesStep(f[i - 1], s[i])
        /\ Scanned(s) = f[Len(s)]
  BY <1>1, ScannedIs
<1>4. f[Len(s)].pc # "first" /\ Written(f[Len(s)].out)
  BY <1>2, <1>3, AlwaysWell
<1> QED
  BY <1>2, <1>3, <1>4

\* A stream that ends before a picture is as one that ends with it.
LEMMA ClosedIs ==
  ASSUME NEW s, IsStream(s)
  PROVE  /\ IsStream(Closed(s)) /\ Len(s) <= Len(Closed(s)) /\ Len(Closed(s)) <= Len(s) + 1
         /\ \A i \in 1..Len(s) : Closed(s)[i] = s[i]
         /\ \A i \in Len(s) + 1..Len(Closed(s)) : Closed(s)[i].kind = "pic"
         /\ Scanned(s).pc = "look" => Closed(s)[Len(Closed(s))].kind = "pic"
         /\ Scanned(s).pc # "look" => Closed(s) = s
<1> DEFINE t == [kind |-> "pic", ref |-> Scanned(s).ref, b |-> FALSE]
           e == Append(s, t)
<1>1. s \in Seq(StreamTokens) /\ Len(s) \in Nat /\ Len(s) >= 1 /\ s[1].kind = "seq"
  BY DEF IsStream
<1>2. CASE Scanned(s).pc = "look"
  <2>1. t \in StreamTokens /\ t.kind = "pic"
    <3>1. Scanned(s).ref \in Nat
      BY ScannedWell DEF Packing
    <3> QED
      BY <3>1 DEF StreamTokens
  <2>2. Closed(s) = e
    BY <1>2, Zenon DEF Closed
  <2> HIDE DEF t
  <2>3. /\ e \in Seq(StreamTokens) /\ Len(e) = Len(s) + 1 /\ e[Len(s) + 1] = t
        /\ \A i \in 1..Len(s) : e[i] = s[i]
    BY <1>1, <2>1
  <2> HIDE DEF e
  <2>4. 1 \in 1..Len(s) /\ e # <<>>
    BY <1>1, <2>3
  <2>5. IsStream(e)
    BY <1>1, <2>3, <2>4 DEF IsStream
  <2>6. \A i \in Len(s) + 1..Len(e) : i = Len(s) + 1
    BY <1>1, <2>3
  <2>7. Len(s) <= Len(e) /\ Len(e) <= Len(s) + 1 /\ e[Len(e)].kind = "pic"
    BY <1>1, <2>1, <2>3
  <2> QED
    BY <1>2, <2>1, <2>2, <2>3, <2>5, <2>6, <2>7
<1>3. CASE Scanned(s).pc # "look"
  <2>1. Closed(s) = s
    BY <1>3, Zenon DEF Closed
  <2>2. Len(s) <= Len(s) + 1 /\ \A i \in Len(s) + 1..Len(s) : FALSE
    BY <1>1
  <2> QED
    BY <1>1, <1>3, <2>1, <2>2
<1> QED
  BY <1>2, <1>3

\* What esvideo2pes makes of a stream is a file that pesvideo2ts can send.
LEMMA PackedWell ==
  ASSUME NEW s, IsStream(s)
  PROVE  Packed(s) \in Packing /\ Packed(s).pc # "first" /\ Written(Packed(s).out)
BY ClosedIs, ScannedWell DEF Packed

LEMMA PesIsSound ==
  ASSUME NEW s, IsStream(s)
  PROVE  SoundFile(Tokens, PesOf(s))
<1> DEFINE v == Packed(s)
           o == v.out
           l == Len(o)
<1>1. Written(o)
  BY PackedWell
<1> HIDE DEF v
<1>2. /\ o \in Seq(Tokens) /\ l \in Nat /\ l >= 3 /\ o[1].kind = "pes" /\ o[l] \in StreamTokens
      /\ \A i \in 1..(l - 1) : Follows(o[i], o[i + 1])
  BY <1>1 DEF Written, Smooth
<1>3. o[l].kind \in {"seq", "pic", "data"} /\ Cut(o[l]) \in Tokens /\ Cut(o[l]).kind = "cut"
  BY <1>2, TokenKinds
<1>4. CASE v.pc \in {"done", "exit"}
  <2>1. PesOf(s) = o
    BY <1>4, Zenon DEF PesOf, v
  <2>2. SoundFile(Tokens, o)
    BY <1>2, <1>3 DEF SoundFile
  <2> QED
    BY <2>1, <2>2
<1>5. CASE v.pc \notin {"done", "exit"}
  <2> DEFINE x == Cut(o[l])
             p == Append(Front(o), x)
  <2>1. PesOf(s) = p
    BY <1>5 DEF PesOf, v, Last
  <2>2. /\ p \in Seq(Tokens) /\ Len(p) = l /\ p[l] = x /\ \A i \in 1..(l - 1) : p[i] = o[i]
    <3> DEFINE r == Front(o)
    <3>1. r \in Seq(Tokens) /\ Len(r) = l - 1 /\ \A i \in 1..(l - 1) : r[i] = o[i]
      <4> HIDE DEF o
      <4> QED
        BY <1>2 DEF Front
    <3>2. x \in Tokens /\ l \in Nat /\ l >= 3
      BY <1>2, <1>3
    <3> HIDE DEF r, x, o, l
    <3>3. Append(r, x) \in Seq(Tokens) /\ Len(Append(r, x)) = l /\ Append(r, x)[l] = x
      BY <3>1, <3>2
    <3>4. \A i \in 1..(l - 1) : Append(r, x)[i] = r[i]
      BY <3>1, <3>2
    <3> QED
      BY <3>1, <3>3, <3>4 DEF r
  <2>3. ASSUME NEW i \in 1..(l - 1) PROVE Follows(p[i], p[i + 1])
    <3>1. Follows(o[i], o[i + 1]) /\ p[i] = o[i]
      BY <1>2, <2>2
    <3>2. CASE i < l - 1
      <4>1. i + 1 \in 1..(l - 1)
        BY <1>2, <3>2
      <4> HIDE DEF p, o, l
      <4> QED
        BY <2>2, <3>1, <4>1
    <3>3. CASE i = l - 1
      <4>1. p[i + 1] = x /\ i + 1 = l
        BY <1>2, <2>2, <3>3
      <4>2. x.kind = "cut"
        BY <1>3
      <4>3. ~Both(o[i])
        BY <1>3, <3>1, <4>1 DEF Follows
      <4>4. o[i].kind = "pes" => p[i + 1].kind # "pes"
        BY <4>1, <4>2
      <4>5. p[i + 1].kind # "dts" /\ ~Both(p[i])
        BY <3>1, <4>1, <4>2, <4>3
      <4> HIDE DEF p, x, o, l
      <4> QED
        BY <3>1, <4>4, <4>5 DEF Follows
    <3> HIDE DEF p, x, o
    <3> QED
      BY <1>2, <3>2, <3>3
  <2>4. p[1].kind = "pes" /\ p[Len(p)].kind # "pes" /\ Len(p) >= 2
    <3>1. 1 \in 1..(l - 1)
      BY <1>2
    <3> QED
      BY <1>2, <1>3, <2>2, <3>1
  <2> HIDE DEF p
  <2>5. SoundFile(Tokens, p)
    BY <2>2, <2>3, <2>4 DEF SoundFile
  <2> QED
    BY <2>1, <2>5
<1> QED
  BY <1>4, <1>5

\* All that pesvideo2ts is given is.
LEMMA AllSound == FilesAreSound(Tokens)
<1>1. \A u \in VideoFiles : 1 \in DOMAIN u /\ \A i \in DOMAIN u : IsStream(u[i].stream)
  BY PackagingAssumption
<1>2. \A u \in VideoFiles : \A i \in DOMAIN u : SoundFile(Tokens, PesOf(u[i].stream))
  BY <1>1, PesIsSound
<1>3. VideoFiles # {}
  BY PackagingAssumption
<1> QED
  BY <1>1, <1>2, <1>3, TokenKinds, Zenon DEF FilesAreSound

LEMMA FillKeepsStream ==
  ASSUME NEW T, Chain(T), Fill
  PROVE  Chain(T)'
<1> DEFINE d == Append(data, look[1])
<1>1. StreamTypes(T) /\ Phases /\ Payloads /\ Headers
  BY DEF Chain
<1>2. /\ look # <<>> /\ look[1] \in T /\ d \in Seq(T) /\ Len(d) = Len(data) + 1
      /\ Len(d) <= Room /\ d # <<>> /\ Marked(pusi, d) /\ (Len(d) > 1 => Timed(d))
      /\ look' \in Seq(T) /\ Len(look') = Len(look) - 1
      /\ \/ /\ Len(look) = 2 /\ byteRead /\ look'[1] = look[2]
            /\ IF Len(d) = Room
               THEN /\ pc' = "send" /\ data' = <<>> /\ pusi' = FALSE
                    /\ es' = [es EXCEPT !.old = es.input] /\ toSend' = Sending(d)
               ELSE /\ pc' = "look" /\ data' = d /\ pusi' = pusi /\ es' = es
                    /\ toSend' = <<>>
         \/ /\ Len(look) = 1 /\ AtEnd /\ look' = <<>> /\ Timed(d)
            /\ pc' = "send" /\ data' = <<>> /\ pusi' \in BOOLEAN
            /\ es' = [es EXCEPT !.old = es.input] /\ toSend' = Sending(d)
  BY FillDoes
<1>3. /\ look \in Seq(T) /\ data \in Seq(T) /\ Len(data) < Room /\ Len(data) \in Nat
      /\ Len(look) \in Nat /\ es \in [input : Int, old : Int, last : Int] /\ pusi \in BOOLEAN
      /\ Room \in Nat /\ Room > 3
  BY <1>1, Soundness, RoomAssumption DEF StreamTypes
<1>4. UNCHANGED <<files, loopOn, open, at, byteRead>> /\ (AtEnd' <=> AtEnd)
      /\ (NextIsDts' <=> NextIsDts)
  BY DEF Fill, reader, AtEnd, NextIsDts
<1>5. data = <<>> => d[1] = look[1] /\ Len(d) = 1
  BY <1>3
<1> HIDE DEF d
<1>6. ASSUME es' = [es EXCEPT !.old = es.input], toSend' = Sending(d), Timed(d)
      PROVE  (Shipping(T))' /\ toSend' # <<>> /\ es' \in [input : Int, old : Int, last : Int]
  <2>1. es'.input \in Int /\ es.old \in Int /\ es' \in [input : Int, old : Int, last : Int]
    BY <1>3, <1>6
  <2> QED
    BY <1>2, <1>3, <1>6, <2>1, SendingShips
<1>7. CASE pc' = "look"
  <2>1. /\ Len(look) = 2 /\ look'[1] = look[2] /\ Len(look') = 1 /\ byteRead
        /\ data' = d /\ Len(d) < Room /\ pusi' = pusi /\ es' = es /\ toSend' = <<>>
    <3>1. Len(d) # Room /\ Len(look) = 2
      BY <1>2, <1>7
    <3> QED
      BY <1>2, <1>3, <3>1
  <2>2. StreamTypes(T)'
    <3>1. (Shipping(T))'
      BY <2>1 DEF Shipping
    <3> QED
      BY <1>1, <1>2, <1>4, <2>1, <3>1 DEF StreamTypes
  <2>3. Phases'
    <3>1. ~loopOn => at # 0 /\ look'[1] = files[open].pes[at]
      BY <1>1, <1>2, <2>1 DEF Phases
    <3> QED
      BY <1>1, <1>4, <1>7, <2>1, <3>1 DEF Phases
  <2>4. Payloads'
    BY <1>2, <1>7, <2>1 DEF Payloads
  <2>5. Headers'
    <3>1. Both(look[1]) => look[2].kind = "dts"
      BY <1>1, <1>2, <2>1 DEF Headers
    <3>2. Both(look[2]) => NextIsDts
      BY <1>1, <2>1 DEF Headers
    <3>3. look' # <<>>
      BY <1>2, <2>1, NotEmpty
    <3>4. Both(d[1]) => IF Len(d) = 1 THEN look'[1].kind = "dts" ELSE d[2].kind = "dts"
      <4>1. CASE data = <<>>
        BY <1>5, <2>1, <3>1, <4>1
      <4>2. CASE data # <<>>
        <5>1. Len(d) > 1
          BY <1>2, <1>3, <4>2
        <5> QED
          BY <1>2, <5>1 DEF Timed
      <4> QED
        BY <4>1, <4>2
    <3>5. Len(look') # 2
      BY <2>1
    <3> QED
      BY <1>4, <1>7, <2>1, <3>2, <3>3, <3>4, <3>5 DEF Headers
  <2> QED
    BY <2>2, <2>3, <2>4, <2>5 DEF Chain
<1>8. CASE pc' # "look"
  <2>1. /\ pc' = "send" /\ data' = <<>> /\ pusi' \in BOOLEAN
        /\ es' = [es EXCEPT !.old = es.input] /\ toSend' = Sending(d)
        /\ \/ Len(look) = 2 /\ look'[1] = look[2] /\ byteRead /\ ~pusi' /\ Len(d) = Room
           \/ look' = <<>> /\ AtEnd /\ Timed(d)
    BY <1>2, <1>8
  <2>2. Timed(d)
    BY <1>2, <1>3, <2>1
  <2>3. (Shipping(T))' /\ toSend' # <<>> /\ es' \in [input : Int, old : Int, last : Int]
    BY <1>6, <2>1, <2>2
  <2>4. data' \in Seq(T) /\ Len(data') = 0
    BY <2>1
  <2>5. StreamTypes(T)'
    BY <1>1, <1>2, <1>3, <1>4, <2>1, <2>3, <2>4 DEF StreamTypes
  <2>6. look' = <<>> \/ (Len(look') = 1 /\ look'[1] = look[2] /\ Len(look) = 2)
    BY <1>2, <2>1
  <2>7. Phases'
    <3>5. pc = "fill" /\ at # 0
      BY <1>1 DEF Phases, Fill
    <3>1. Len(look) = 2 => look[2] = files[open].pes[at]
      BY <1>1, <1>2, <3>5 DEF Phases
    <3>2. look' # <<>> => look'[Len(look')] = files[open].pes[at]
      BY <2>6, <3>1
    <3>3. at <= Len(files[open].pes)
      BY <1>1 DEF Phases, Fill
    <3>4. (Len(look') = 1 /\ byteRead' /\ ~pusi') \/ (look' = <<>> /\ AtEnd')
      BY <1>2, <1>4, <2>1, <2>6
    <3> QED
      BY <1>4, <2>1, <2>3, <3>2, <3>3, <3>4, <3>5 DEF Phases
  <2>8. Payloads'
    BY <2>1, <2>4 DEF Payloads, Marked
  <2>9. Headers'
    <3>1. Len(look) = 2 /\ Both(look[2]) => NextIsDts
      BY <1>1 DEF Headers
    <3>2. look' # <<>> => Len(look') = 1 /\ (Both(look'[1]) => NextIsDts)
      BY <2>6, <3>1
    <3>4. look' = <<>> => Len(look') = 0
      OBVIOUS
    <3>3. Len(look') # 2
      BY <2>6, <3>4
    <3> QED
      BY <1>4, <2>1, <3>2, <3>3 DEF Headers
  <2> QED
    BY <2>5, <2>7, <2>8, <2>9 DEF Chain
<1> QED
  BY <1>7, <1>8

\* What is to be sent, its first packet, and the rest.
LEMMA Shipped ==
  ASSUME NEW T, Shipping(T), toSend # <<>>
  PROVE  /\ Head(toSend) \in Shipments(T)
         /\ \/ toSend = <<Head(toSend)>> /\ Tail(toSend) = <<>>
            \/ \E y \in Shipments(T) : /\ Len(y.packet.data) = 1 /\ toSend = <<Head(toSend), y>>
                                       /\ Tail(toSend) = <<y>>
<1>1. CASE \E x \in Shipments(T) : toSend = <<x>>
  <2>1. PICK x \in Shipments(T) : toSend = <<x>>
    BY <1>1
  <2>2. Head(toSend) = x /\ Tail(toSend) = <<>>
    BY <2>1
  <2> QED
    BY <2>1, <2>2
<1>2. CASE \E x \in Shipments(T), y \in Shipments(T) : toSend = <<x, y>> /\ Len(y.packet.data) = 1
  <2>1. PICK x \in Shipments(T), y \in Shipments(T) :
               toSend = <<x, y>> /\ Len(y.packet.data) = 1
    BY <1>2
  <2>2. Head(toSend) = x /\ Tail(toSend) = <<y>>
    BY <2>1
  <2> QED
    BY <2>1, <2>2
<1> QED
  BY <1>1, <1>2 DEF Shipping

LEMMA SendKeepsStream ==
  ASSUME NEW T, Chain(T), Send
  PROVE  Chain(T)'
<1>1. StreamTypes(T) /\ Phases /\ Payloads /\ Headers
  BY DEF Chain
<1>2. /\ pc = "send" /\ pc' = "nulls" /\ toSend' = Tail(toSend)
      /\ UNCHANGED <<files, loopOn, open, at, look, byteRead, data, pusi, es>>
      /\ (IsStart' <=> IsStart) /\ (AtEnd' <=> AtEnd) /\ (NextIsDts' <=> NextIsDts)
  BY DEF Send, reader, AtEnd, NextIsDts, IsStart
<1>3. Shipping(T) /\ toSend # <<>>
  BY <1>1, <1>2 DEF StreamTypes, Phases
<1>4. (Shipping(T))'
  <2>1. Tail(toSend) = <<>> \/ \E y \in Shipments(T) : Tail(toSend) = <<y>>
    BY <1>3, Shipped
  <2> QED
    BY <1>2, <2>1 DEF Shipping
<1>5. StreamTypes(T)'
  BY <1>1, <1>2, <1>4 DEF StreamTypes
<1>6. Phases'
  BY <1>1, <1>2 DEF Phases
<1>7. Payloads'
  BY <1>1, <1>2 DEF Payloads
<1>8. Headers'
  BY <1>1, <1>2 DEF Headers
<1> QED
  BY <1>5, <1>6, <1>7, <1>8 DEF Chain

LEMMA NullKeepsStream ==
  ASSUME NEW T, Chain(T), Null
  PROVE  Chain(T)'
BY DEF Chain, Null, reader, StreamTypes, Shipping, Phases, Payloads, Headers, IsStart, AtEnd,
       NextIsDts

LEMMA GoOnKeepsStream ==
  ASSUME NEW T, Chain(T), GoOn
  PROVE  Chain(T)'
<1>1. StreamTypes(T) /\ Phases /\ Payloads /\ Headers
  BY DEF Chain
<1>2. /\ pc = "nulls"
      /\ pc' = IF toSend # <<>> THEN "send"
               ELSE IF IsStart THEN "fill"
               ELSE IF byteRead \/ look # <<>> THEN "look" ELSE "ended"
      /\ UNCHANGED <<files, loopOn, open, at, look, byteRead, data, pusi, es, toSend>>
      /\ (IsStart' <=> IsStart) /\ (AtEnd' <=> AtEnd) /\ (NextIsDts' <=> NextIsDts)
  BY DEF GoOn, reader, AtEnd, NextIsDts, IsStart
<1>3. StreamTypes(T)'
  BY <1>1, <1>2 DEF StreamTypes, Shipping
<1>4. \/ IsStart /\ Len(look) = 2 /\ byteRead /\ pusi
      \/ ~IsStart /\ Len(look) = 1 /\ byteRead /\ ~pusi
      \/ look = <<>> /\ AtEnd /\ ~IsStart
  <2>1. look = <<>> => Len(look) = 0
    OBVIOUS
  <2>2. IsStart => Len(look) = 2
    BY DEF IsStart, LookAhead
  <2>3. \/ IsStart /\ byteRead /\ pusi
        \/ Len(look) = 1 /\ byteRead /\ ~pusi
        \/ look = <<>> /\ AtEnd
    BY <1>1, <1>2 DEF Phases
  <2>4. Len(look) = 1 => ~IsStart
    BY <2>2
  <2>5. look = <<>> => ~IsStart
    BY <2>1, <2>2
  <2> QED
    BY <2>2, <2>3, <2>4, <2>5
<1>6. data = <<>>
  BY <1>1, <1>2 DEF Payloads
<1>7. CASE toSend # <<>>
  <2>1. Phases'
    BY <1>1, <1>2, <1>7 DEF Phases
  <2>2. Payloads'
    BY <1>1, <1>2, <1>6, <1>7 DEF Payloads
  <2>3. Headers'
    BY <1>1, <1>2, <1>7 DEF Headers
  <2> QED
    BY <1>3, <2>1, <2>2, <2>3 DEF Chain
<1>8. CASE toSend = <<>>
  <2>1. \/ IsStart /\ pc' = "fill" /\ Len(look) = 2 /\ byteRead /\ pusi
        \/ ~IsStart /\ pc' = "look" /\ Len(look) = 1 /\ ~pusi
        \/ ~IsStart /\ pc' = "ended" /\ look = <<>> /\ ~loopOn
    BY <1>2, <1>4, <1>8 DEF AtEnd
  <2>2. Phases'
    <3>1. /\ at <= Len(files[open].pes) /\ at # 0
          /\ look # <<>> => look[Len(look)] = files[open].pes[at]
      BY <1>1, <1>2 DEF Phases
    <3> QED
      BY <1>2, <1>8, <2>1, <3>1 DEF Phases
  <2>3. Payloads'
    BY <1>1, <1>2, <1>6, <2>1 DEF Payloads
  <2>4. Headers'
    BY <1>1, <1>2, <1>6, <2>1 DEF Headers
  <2> QED
    BY <1>3, <2>2, <2>3, <2>4 DEF Chain
<1> QED
  BY <1>7, <1>8

LEMMA VideoKeepsStream ==
  ASSUME NEW T, Chain(T), VideoNext
  PROVE  Chain(T)'
BY LookKeeps, NextFileKeepsStream, ReopenKeepsStream, FindHeaderKeepsStream, FillKeepsStream,
   SendKeepsStream, NullKeepsStream, GoOnKeepsStream DEF VideoNext

\* What is underway, with its headers.
Waits(queue) == PesIn([j \in DOMAIN queue |-> queue[j].packet])
Chunk == (Waits(toSend) \o data) \o look

LEMMA WaitsNone == Waits(<<>>) = <<>>
<1>1. [j \in DOMAIN <<>> |-> <<>>[j].packet] = <<>>
  OBVIOUS
<1> QED
  BY <1>1, PesInNone DEF Waits

LEMMA WaitsOne ==
  ASSUME NEW T, NEW x \in Shipments(T)
  PROVE  Waits(<<x>>) = x.packet.data /\ x.packet.data \in Seq(T) /\ x.packet.data # <<>>
<1>1. [j \in DOMAIN <<x>> |-> <<x>>[j].packet] = <<x.packet>>
  OBVIOUS
<1>2. x.packet.adapt \in {1, 3} /\ x.packet.data \in Seq(T) /\ x.packet.data # <<>>
  BY DEF Shipments
<1> QED
  BY <1>1, <1>2, PesInOne DEF Waits, Payload

LEMMA WaitsTwo ==
  ASSUME NEW T, NEW x \in Shipments(T), NEW y \in Shipments(T)
  PROVE  Waits(<<x, y>>) = x.packet.data \o y.packet.data
<1>1. [j \in DOMAIN <<x, y>> |-> <<x, y>>[j].packet] = <<x.packet, y.packet>>
  OBVIOUS
<1>2. x.packet.adapt \in {1, 3} /\ y.packet.adapt \in {1, 3}
  BY DEF Shipments
<1> QED
  BY <1>1, <1>2, PesInTwo DEF Waits, Payload

LEMMA WaitsType ==
  ASSUME NEW T, Shipping(T)
  PROVE  Waits(toSend) \in Seq(T)
<1>1. CASE toSend = <<>>
  <2>1. Waits(toSend) = <<>> /\ <<>> \in Seq(T)
    BY <1>1, WaitsNone
  <2> QED
    BY <2>1
<1>2. CASE \E x \in Shipments(T) : toSend = <<x>>
  BY <1>2, WaitsOne
<1>3. CASE \E x \in Shipments(T), y \in Shipments(T) : toSend = <<x, y>>
  <2>1. PICK x \in Shipments(T), y \in Shipments(T) : toSend = <<x, y>>
    BY <1>3
  <2>2. x.packet.data \in Seq(T) /\ y.packet.data \in Seq(T)
    BY WaitsOne
  <2>3. Waits(toSend) = x.packet.data \o y.packet.data
    BY <2>1, WaitsTwo
  <2>4. x.packet.data \o y.packet.data \in Seq(T)
    BY <2>2, ConcatProperties
  <2> QED
    BY <2>3, <2>4
<1> QED
  BY <1>1, <1>2, <1>3 DEF Shipping

\* Packets are sent for all of the payload.
LEMMA SendsAll ==
  ASSUME NEW T, NEW d \in Seq(T), d # <<>>, Len(d) <= Room, pusi \in BOOLEAN, Marked(pusi, d),
         Timed(d), es'.input \in Int, es.old \in Int
  PROVE  Waits(Sending(d)) = d
<1>1. CASE \E x \in Shipments(T) : Sending(d) = <<x>> /\ x.packet.data = d
  BY <1>1, WaitsOne
<1>2. CASE \E x \in Shipments(T), y \in Shipments(T) :
             Sending(d) = <<x, y>> /\ x.packet.data = Front(d) /\ y.packet.data = <<Last(d)>>
  <2>1. PICK x \in Shipments(T), y \in Shipments(T) :
               Sending(d) = <<x, y>> /\ x.packet.data = Front(d) /\ y.packet.data = <<Last(d)>>
    BY <1>2
  <2>2. Waits(Sending(d)) = Front(d) \o <<Last(d)>>
    BY <2>1, WaitsTwo
  <2> QED
    BY <2>2, FrontAndLast
<1>3. \/ \E x \in Shipments(T) : Sending(d) = <<x>> /\ x.packet.data = d
      \/ \E x \in Shipments(T), y \in Shipments(T) :
             Sending(d) = <<x, y>> /\ x.packet.data = Front(d) /\ y.packet.data = <<Last(d)>>
  BY SendingIs
<1> QED
  BY <1>1, <1>2, <1>3

LEMMA ChunkType ==
  ASSUME NEW T, StreamTypes(T)
  PROVE  /\ Waits(toSend) \in Seq(T) /\ data \in Seq(T) /\ look \in Seq(T)
         /\ Chunk \in Seq(T) /\ Underway = EsOf(Chunk)
<1>1. Waits(toSend) \in Seq(T) /\ data \in Seq(T) /\ look \in Seq(T)
  BY WaitsType DEF StreamTypes
<1>2. Waits(toSend) \o data \in Seq(T) /\ Chunk \in Seq(T)
  BY <1>1 DEF Chunk
<1>3. EsOf(Waits(toSend) \o data) = EsOf(Waits(toSend)) \o EsOf(data)
  BY <1>1, EsConcat
<1>4. EsOf(Chunk) = EsOf(Waits(toSend) \o data) \o EsOf(look)
  BY <1>1, <1>2, EsConcat DEF Chunk
<1>5. Underway = (EsOf(Waits(toSend)) \o EsOf(data)) \o EsOf(look)
  BY DEF Underway, Waits
<1> QED
  BY <1>1, <1>2, <1>3, <1>4, <1>5

\* What ts2pes makes of a packet, and of a PCR packet that may follow it.
LEMMA PesInSent ==
  ASSUME NEW p, NEW r \in {<<>>, <<PcrPacket>>}, Marked(p.pusi, p.data)
  PROVE  /\ PesIn(<<p>> \o r) = Payload(p) \/ PesIn(<<p>> \o r) = Payload(p) \o <<>>
         /\ StartsAreMarked(<<p>> \o r)
         /\ <<p>> \o r # <<>> /\ (<<p>> \o r)[1] = p
<1>1. Payload(PcrPacket) = <<>>
  BY DEF PcrPacket, TsPacket, Payload
<1>2. CASE r = <<>>
  <2>1. <<p>> \o r = <<p>>
    <3>1. <<p>> \in Seq({p})
      OBVIOUS
    <3> QED
      BY <1>2, <3>1, ConcatEmptySeq
  <2>2. DOMAIN <<p>> = {1} /\ <<p>>[1] = p
    OBVIOUS
  <2>3. StartsAreMarked(<<p>>)
    BY <2>2 DEF StartsAreMarked, Marked
  <2>4. PesIn(<<p>>) = Payload(p) /\ <<p>> # <<>>
    BY PesInOne
  <2> QED
    BY <2>1, <2>2, <2>3, <2>4
<1>3. CASE r = <<PcrPacket>>
  <2>1. <<p>> \o r = <<p, PcrPacket>>
    <3> DEFINE q == PcrPacket
    <3> HIDE DEF q
    <3>3. <<p>> \in Seq({p, q}) /\ q \in {p, q}
      OBVIOUS
    <3>4. /\ <<p, q>> \in Seq({p, q}) /\ Len(<<p, q>>) = 2
          /\ <<p, q>>[1] = p /\ <<p, q>>[2] = q
      OBVIOUS
    <3>5. /\ Append(<<p>>, q) \in Seq({p, q}) /\ Len(Append(<<p>>, q)) = 2
          /\ Append(<<p>>, q)[1] = p /\ Append(<<p>>, q)[2] = q
      <4>1. Len(<<p>>) = 1 /\ <<p>>[1] = p
        OBVIOUS
      <4> QED
        BY <3>3, <4>1, AppendProperties
    <3>6. Append(<<p>>, q) = <<p, q>>
      <4> DEFINE a == Append(<<p>>, q)
                 b == <<p, q>>
      <4>1. /\ a \in Seq({p, q}) /\ b \in Seq({p, q}) /\ Len(a) = Len(b)
            /\ \A i \in 1..Len(a) : a[i] = b[i]
        <5>1. Len(a) = 2 /\ Len(b) = 2 /\ a[1] = b[1] /\ a[2] = b[2] /\ 1..2 = {1, 2}
          BY <3>4, <3>5
        <5> HIDE DEF a, b
        <5>2. \A i \in 1..Len(a) : a[i] = b[i]
          BY <5>1
        <5> QED
          BY <3>4, <3>5, <5>1, <5>2 DEF a, b
      <4> HIDE DEF a, b
      <4>2. a = b
        BY <4>1, SeqEqual
      <4> QED
        BY <4>2 DEF a, b
    <3>1. <<p>> \in Seq({p, q}) /\ q \in {p, q} /\ Append(<<p>>, q) = <<p, q>>
      BY <3>3, <3>6
    <3>2. Append(<<p>>, q) = <<p>> \o <<q>>
      BY <3>1, AppendIsConcat
    <3> QED
      BY <1>3, <3>1, <3>2 DEF q
  <2>2. /\ DOMAIN <<p, PcrPacket>> = {1, 2} /\ <<p, PcrPacket>>[1] = p
        /\ <<p, PcrPacket>>[2] = PcrPacket
    OBVIOUS
  <2>3. PcrPacket.data = <<>> /\ Len(PcrPacket.data) = 0 /\ 2..0 = {}
    BY DEF PcrPacket, TsPacket
  <2>4. StartsAreMarked(<<p, PcrPacket>>)
    <3> DEFINE s == <<p, PcrPacket>>
    <3> SUFFICES ASSUME NEW n \in {1, 2}
                 PROVE  /\ s[n].data # <<>> => (s[n].pusi <=> s[n].data[1].kind = "pes")
                        /\ \A j \in 2..Len(s[n].data) : s[n].data[j].kind # "pes"
      BY <2>2 DEF StartsAreMarked
    <3>1. CASE n = 1
      BY <2>2, <3>1 DEF Marked
    <3>2. CASE n = 2
      BY <2>2, <2>3, <3>2
    <3> QED
      BY <3>1, <3>2
  <2>5. PesIn(<<p, PcrPacket>>) = Payload(p) \o <<>> /\ <<p, PcrPacket>> # <<>>
    BY <1>1, PesInTwo
  <2> QED
    BY <2>1, <2>2, <2>4, <2>5
<1> QED
  BY <1>2, <1>3

\* The new times of a header change no data.
LEMMA RestampedKeeps ==
  ASSUME NEW T, FilesAreSound(T), NEW x \in Shipments(T), Starts(x.packet.data)
  PROVE  LET d == x.packet.data
         IN  /\ EsOf(Restamped(d)) = EsOf(d) /\ Marked(x.packet.pusi, Restamped(d))
             /\ Restamped(d) # <<>> /\ \E U : Restamped(d) \in Seq(U)
<1> DEFINE d == x.packet.data
           e == Restamped(d)
<1>1. /\ d \in Seq(T) /\ d # <<>> /\ Marked(x.packet.pusi, d) /\ Timed(d) /\ Len(d) \in Nat
      /\ Len(d) >= 1 /\ DOMAIN d = 1..Len(d) /\ d[1].kind = "pes" /\ \A i \in 1..Len(d) : d[i] \in T
  <2>1. d \in Seq(T) /\ d # <<>> /\ Marked(x.packet.pusi, d) /\ Timed(d)
    BY DEF Shipments
  <2>2. Len(d) \in Nat \ {0}
    BY <2>1, EmptySeq
  <2> HIDE DEF d
  <2>3. DOMAIN d = 1..Len(d) /\ \A i \in 1..Len(d) : d[i] \in T
    BY <2>1, LenProperties, ElementOfSeq
  <2>4. d[1].kind = "pes"
    BY DEF Starts, d
  <2> QED
    BY <2>1, <2>2, <2>3, <2>4
<1> HIDE DEF d
<1>2. d[1] \in [kind : {"pes"}, pts : 0..(PtsMax - 1), both : BOOLEAN]
  <2>1. 1 \in 1..Len(d)
    BY <1>1
  <2> QED
    BY <1>1, <2>1 DEF FilesAreSound
<1>3. d[1].both => 2 \in 1..Len(d) /\ d[2] \in [kind : {"dts"}, dts : 0..(PtsMax - 1)]
  <2>1. d[1].both => Len(d) > 1 /\ d[2].kind = "dts"
    BY <1>1 DEF Timed, Both
  <2>2. d[1].both => 2 \in 1..Len(d)
    BY <1>1, <2>1
  <2> QED
    BY <1>1, <2>1, <2>2 DEF FilesAreSound
<1>4. /\ DOMAIN e = 1..Len(d)
      /\ \A i \in 1..Len(d) : \/ e[i] = d[i]
                              \/ i = 1 /\ e[i].kind = "pes"
                              \/ i = 2 /\ d[1].both /\ e[i].kind = "dts"
      /\ \E n : e = [i \in 1..Len(d) |-> n[i]]
  <2>1. CASE c.index < 2
    <3>1. e = d
      BY <2>1 DEF Restamped
    <3>2. d = [i \in 1..Len(d) |-> d[i]]
      BY <1>1, LenProperties
    <3> QED
      BY <1>1, <3>1, <3>2
  <2>2. CASE ~(c.index < 2) /\ d[1].both
    <3> DEFINE u == (Times(d).pts + (d[1].pts - d[2].dts)) % PtsMax
               v == Times(d).pts % PtsMax
    <3>1. e = [d EXCEPT ![1].pts = u, ![2].dts = v]
      BY <2>2 DEF Restamped
    <3> HIDE DEF u, v
    <3> DEFINE g == [d EXCEPT ![1].pts = u]
    <3>2. /\ DOMAIN g = 1..Len(d) /\ g[1] = [d[1] EXCEPT !.pts = u]
          /\ \A i \in 1..Len(d) : i # 1 => g[i] = d[i]
      BY <1>1
    <3>3. e = [g EXCEPT ![2].dts = v]
      BY <3>1
    <3> HIDE DEF g
    <3>4. /\ DOMAIN e = 1..Len(d) /\ e[2] = [g[2] EXCEPT !.dts = v]
          /\ \A i \in 1..Len(d) : i # 2 => e[i] = g[i]
          /\ e = [i \in 1..Len(d) |-> e[i]]
      <4> HIDE DEF e
      <4> QED
        BY <1>3, <2>2, <3>2, <3>3
    <3>5. g[1].kind = "pes"
      BY <1>2, <3>2
    <3>6. e[2].kind = "dts"
      BY <1>3, <2>2, <3>2, <3>4
    <3>7. e[1].kind = "pes"
      BY <1>1, <3>4, <3>5
    <3> HIDE DEF e
    <3> QED
      BY <1>1, <1>3, <2>2, <3>2, <3>4, <3>6, <3>7
  <2>3. CASE ~(c.index < 2) /\ ~d[1].both
    <3> DEFINE v == Times(d).pts % PtsMax
    <3>1. e = [d EXCEPT ![1].pts = v]
      BY <2>3 DEF Restamped
    <3> HIDE DEF v, e
    <3>2. /\ DOMAIN e = 1..Len(d) /\ e[1] = [d[1] EXCEPT !.pts = v]
          /\ \A i \in 1..Len(d) : i # 1 => e[i] = d[i]
          /\ e = [i \in 1..Len(d) |-> e[i]]
      <4> DEFINE w == [d[1] EXCEPT !.pts = v]
      <4>1. e = [d EXCEPT ![1] = w]
        BY <3>1
      <4> HIDE DEF w
      <4>2. e = [i \in 1..Len(d) |-> IF i = 1 THEN w ELSE d[i]]
        BY <1>1, <4>1
      <4> QED
        BY <1>1, <4>2 DEF w
    <3>3. e[1].kind = "pes"
      BY <1>2, <3>2
    <3> QED
      BY <3>2, <3>3
  <2> QED
    BY <2>1, <2>2, <2>3
<1> HIDE DEF e
<1> DEFINE U == {e[i] : i \in 1..Len(d)}
<1>5. e \in Seq(U) /\ Len(e) = Len(d)
  BY <1>1, <1>4
<1>6. ASSUME NEW i \in 1..Len(d)
      PROVE  /\ IsHeader(d[i]) <=> IsHeader(e[i])
             /\ IsHeader(d[i]) \/ d[i] = e[i]
             /\ d[i].kind = "pes" <=> e[i].kind = "pes"
  BY <1>1, <1>3, <1>4 DEF IsHeader
<1>7. EsOf(d) = EsOf(e)
  <2> HIDE DEF U
  <2> QED
    BY <1>1, <1>5, <1>6, EsSame
<1>8. e # <<>>
  BY <1>1, <1>5
<1>9. Marked(x.packet.pusi, e)
  <2>1. 1 \in 1..Len(d)
    BY <1>1
  <2>2. x.packet.pusi <=> e[1].kind = "pes"
    BY <1>1, <1>6, <2>1 DEF Marked
  <2>3. ASSUME NEW j \in 2..Len(e) PROVE e[j].kind # "pes"
    <3>1. j \in 1..Len(d) /\ j \in 2..Len(d)
      BY <1>1, <1>5
    <3> QED
      BY <1>1, <1>6, <3>1 DEF Marked
  <2> QED
    BY <2>2, <2>3 DEF Marked
<1>10. \E V : e \in Seq(V)
  BY <1>5
<1> QED
  BY <1>7, <1>8, <1>9, <1>10 DEF d, e

\* The head of a sequence is moved to the end of the sequence before it.
LEMMA MovedHead ==
  ASSUME NEW T, NEW s \in Seq(T), NEW l \in Seq(T), l # <<>>
  PROVE  Append(s, l[1]) \o Tail(l) = s \o l
<1> DEFINE x == l[1]
           r == Tail(l)
<1>1. x \in T /\ r \in Seq(T) /\ l = <<x>> \o r
  <2>1. Head(l) = x /\ Head(l) \in T /\ r \in Seq(T)
    BY HeadTailProperties
  <2>2. l = <<x>> \o r
    OBVIOUS
  <2> QED
    BY <2>1, <2>2
<1> HIDE DEF x, r
<1>2. Append(s, x) = s \o <<x>> /\ <<x>> \in Seq(T)
  BY <1>1, AppendIsConcat
<1>3. (s \o <<x>>) \o r = s \o (<<x>> \o r)
  BY <1>1, <1>2, ConcatAssociative
<1>4. Append(s, x) \o r = s \o l
  BY <1>1, <1>2, <1>3
<1> QED
  BY <1>4 DEF x, r

LEMMA Unsent ==
  ASSUME NEW T, NEW d \in Seq(T)
  PROVE  <<>> \o d = d /\ d \o <<>> = d
BY ConcatEmptySeq

LEMMA NothingIn == EsOf(PesIn(<<>>)) = <<>>
BY PesInNone, EsEmpty

\* A token is read: it is underway then.
LEMMA ReadTakes ==
  ASSUME NEW T, Chain(T), Look \/ NextFile, Len(look') > Len(look)
  PROVE  Last(look') \in T /\ Chunk' = Append(Chunk, Last(look')) /\ sent' = <<>>
<1>1. StreamTypes(T) /\ look \in Seq(T) /\ look' \in Seq(T)
  BY LookKeeps, NextFileKeepsStream, Soundness DEF Chain, StreamTypes
<1>2. Waits(toSend) \o data \in Seq(T)
  BY <1>1, ChunkType
<1>3. UNCHANGED <<toSend, data>> /\ sent' = <<>>
  BY DEF Look, NextFile
<1>4. \E x : look' = Append(look, x)
  <2>1. look' = look \/ \E x : look' = Append(look, x)
    BY DEF Look, NextFile, Opened, Missing
  <2>2. look' # look
    BY <1>1
  <2> QED
    BY <2>1, <2>2
<1>5. PICK x : look' = Append(look, x)
  BY <1>4
<1>6. x \in T /\ Last(look') = x
  <2> DEFINE n == Len(look) + 1
  <2>1. Len(look') = n /\ look'[n] = x /\ n \in 1..n
    BY <1>1, <1>5
  <2>2. look'[n] \in T
    BY <1>1, <2>1, ElementOfSeq
  <2> QED
    BY <2>1, <2>2 DEF Last
<1>7. Chunk' = (Waits(toSend) \o data) \o Append(look, x)
  BY <1>3, <1>5 DEF Chunk
<1> DEFINE w == Waits(toSend) \o data
<1>8. w \o Append(look, x) = Append(w \o look, x)
  <2> HIDE DEF w
  <2>0. w \in Seq(T)
    BY <1>2 DEF w
  <2>1. Append(look, x) = look \o <<x>> /\ <<x>> \in Seq(T)
    BY <1>1, <1>6, AppendIsConcat
  <2>2. w \o (look \o <<x>>) = (w \o look) \o <<x>>
    BY <1>1, <2>0, <2>1, ConcatAssociative
  <2>3. w \o look \in Seq(T)
    BY <1>1, <2>0, ConcatProperties
  <2>4. Append(w \o look, x) = (w \o look) \o <<x>>
    BY <1>6, <2>3, AppendIsConcat
  <2> QED
    BY <2>1, <2>2, <2>4
<1> QED
  BY <1>3, <1>6, <1>7, <1>8 DEF Chunk

\* Tokens go from the look-ahead buffer to the payload, and from there to packets.
LEMMA FillMoves ==
  ASSUME NEW T, Chain(T), Fill
  PROVE  Chunk' = Chunk /\ sent' = <<>> /\ ~(Len(look') > Len(look))
<1> DEFINE d == Append(data, look[1])
<1>1. StreamTypes(T) /\ Phases /\ toSend = <<>>
  BY DEF Chain, Phases, Fill
<1>2. /\ look \in Seq(T) /\ data \in Seq(T) /\ es \in [input : Int, old : Int, last : Int]
      /\ pusi \in BOOLEAN /\ Len(look) \in Nat /\ Room > 3
  BY <1>1, Soundness, RoomAssumption DEF StreamTypes
<1>3. /\ look # <<>> /\ look[1] \in T /\ d \in Seq(T)
      /\ Len(d) <= Room /\ d # <<>> /\ Marked(pusi, d) /\ (Len(d) > 1 => Timed(d))
      /\ look' = Tail(look) /\ look' \in Seq(T) /\ Len(look') = Len(look) - 1
      /\ \/ data' = d /\ toSend' = <<>>
         \/ /\ data' = <<>> /\ es' = [es EXCEPT !.old = es.input] /\ toSend' = Sending(d)
            /\ Len(d) = Room \/ Timed(d)
  BY FillDoes
<1>4. Chunk = data \o look
  <2>1. Chunk = (<<>> \o data) \o look
    BY <1>1, WaitsNone DEF Chunk
  <2> QED
    BY <1>2, <2>1, Unsent
<1>5. d \o Tail(look) = data \o look
  BY <1>2, <1>3, MovedHead
<1> HIDE DEF d
<1>8. sent' = <<>> /\ ~(Len(look') > Len(look))
  <2>1. sent' = <<>>
    BY DEF Fill
  <2>2. Len(look') = Len(look) - 1
    BY <1>3
  <2> QED
    BY <1>2, <2>1, <2>2
<1>6. CASE data' = d /\ toSend' = <<>>
  <2>1. Chunk' = (<<>> \o d) \o Tail(look)
    BY <1>3, <1>6, WaitsNone DEF Chunk
  <2> QED
    BY <1>3, <1>4, <1>5, <1>8, <2>1, Unsent
<1>7. CASE /\ data' = <<>> /\ es' = [es EXCEPT !.old = es.input] /\ toSend' = Sending(d)
           /\ Len(d) = Room \/ Timed(d)
  <2>1. es'.input \in Int /\ es.old \in Int /\ Timed(d)
    BY <1>2, <1>3, <1>7
  <2>2. Waits(Sending(d)) = d
    BY <1>2, <1>3, <2>1, SendsAll
  <2>3. Chunk' = (d \o <<>>) \o Tail(look)
    BY <1>3, <1>7, <2>2 DEF Chunk
  <2> QED
    BY <1>3, <1>4, <1>5, <1>8, <2>3, Unsent
<1> QED
  BY <1>3, <1>6, <1>7

\* The last packet of a frame is sent when the header of the next is found.
LEMMA FindHeaderMoves ==
  ASSUME NEW T, Chain(T), FindHeader
  PROVE  Chunk' = Chunk /\ sent' = <<>> /\ ~(Len(look') > Len(look))
<1>1. StreamTypes(T) /\ Phases /\ Payloads /\ Headers /\ toSend = <<>> /\ look' = look /\ sent' = <<>>
  BY DEF Chain, Phases, FindHeader
<1>2. /\ look \in Seq(T) /\ data \in Seq(T) /\ es \in [input : Int, old : Int, last : Int]
      /\ pusi \in BOOLEAN /\ Len(look) \in Nat /\ Len(data) < Room /\ Len(data) \in Nat
  BY <1>1, Soundness DEF StreamTypes
<1>3. Chunk = data \o look
  <2>1. Chunk = (<<>> \o data) \o look
    BY <1>1, WaitsNone DEF Chunk
  <2> QED
    BY <1>2, <2>1, Unsent
<1>4. CASE toSend' = <<>> /\ data' = data
  <2>1. Chunk' = (<<>> \o data) \o look
    BY <1>1, <1>4, WaitsNone DEF Chunk
  <2> QED
    BY <1>1, <1>2, <1>3, <2>1, Unsent
<1>5. CASE toSend' = Sending(data) /\ data' = <<>> /\ data # <<>> /\ IsStart
           /\ es'.input = es.input - HeaderSize
  <2>1. Timed(data) /\ Marked(pusi, data)
    <3>1. look[1].kind = "pes" /\ Len(data) # 0
      BY <1>2, <1>5 DEF IsStart
    <3>2. Both(data[1]) => Len(data) # 1 /\ data[2].kind = "dts"
      BY <1>1, <1>5, <3>1 DEF Headers
    <3> DEFINE n == Len(data)
    <3>3. n \in Nat /\ n # 0 /\ (Both(data[1]) => n # 1)
      BY <1>2, <3>1, <3>2
    <3> HIDE DEF n
    <3>4. Both(data[1]) => n > 1
      BY <3>3
    <3> QED
      BY <1>1, <3>2, <3>4 DEF Timed, n, Payloads
  <2>2. es'.input \in Int /\ es.old \in Int /\ Len(data) <= Room
    BY <1>2, <1>5, RoomAssumption DEF HeaderSize
  <2>3. Waits(Sending(data)) = data
    BY <1>2, <1>5, <2>1, <2>2, SendsAll
  <2>4. Chunk' = (data \o <<>>) \o look
    BY <1>1, <1>5, <2>3 DEF Chunk
  <2> QED
    BY <1>1, <1>2, <1>3, <2>4, Unsent
<1>6. \/ toSend' = <<>> /\ data' = data
      \/ toSend' = Sending(data) /\ data' = <<>> /\ data # <<>> /\ IsStart
           /\ es'.input = es.input - HeaderSize
  BY <1>1 DEF FindHeader
<1> QED
  BY <1>4, <1>5, <1>6

\* A packet takes its payload from what is underway.
LEMMA SendTakes ==
  ASSUME NEW T, Chain(T), Send
  PROVE  /\ Head(toSend) \in Shipments(T)
         /\ Chunk = Head(toSend).packet.data \o Chunk' /\ Chunk' \in Seq(T)
<1> DEFINE x == Head(toSend)
           d == x.packet.data
<1>1. /\ StreamTypes(T) /\ Phases /\ Shipping(T) /\ toSend # <<>> /\ look' = look
      /\ toSend' = Tail(toSend) /\ data' = data
  BY DEF Chain, Phases, Send, StreamTypes
<1>2. /\ look \in Seq(T) /\ data \in Seq(T) /\ data = <<>>
  BY <1>1, Soundness DEF Chain, Payloads, Send
<1>3. /\ x \in Shipments(T)
      /\ \/ toSend = <<x>> /\ Tail(toSend) = <<>>
         \/ \E y \in Shipments(T) : toSend = <<x, y>> /\ Tail(toSend) = <<y>>
  BY <1>1, Shipped
<1> HIDE DEF x
<1>4. d \in Seq(T)
  BY <1>3 DEF Shipments
<1>5. Waits(toSend) \in Seq(T) /\ Waits(Tail(toSend)) \in Seq(T)
  <2>1. Waits(toSend) \in Seq(T)
    BY <1>1, WaitsType
  <2>2. CASE Tail(toSend) = <<>>
    BY <2>1, <2>2, WaitsNone, Waits(<<>>) = <<>>, <<>> \in Seq(T)
  <2>3. CASE \E y \in Shipments(T) : Tail(toSend) = <<y>>
    BY <2>1, <2>3, WaitsOne
  <2> QED
    BY <1>3, <2>2, <2>3
<1>6. Chunk = Waits(toSend) \o look /\ Chunk' = Waits(Tail(toSend)) \o look
  <2>1. Chunk = (Waits(toSend) \o <<>>) \o look /\ Chunk' = (Waits(Tail(toSend)) \o <<>>) \o look
    BY <1>1, <1>2 DEF Chunk
  <2> QED
    BY <1>5, <2>1, Unsent
<1>7. CASE toSend = <<x>> /\ Tail(toSend) = <<>>
  <2>1. Waits(toSend) = d /\ Waits(Tail(toSend)) = <<>>
    BY <1>3, <1>7, WaitsOne, WaitsNone
  <2> QED
    BY <1>2, <1>3, <1>6, <2>1, Unsent DEF x
<1>8. CASE \E y \in Shipments(T) : toSend = <<x, y>> /\ Tail(toSend) = <<y>>
  <2>1. PICK y \in Shipments(T) : toSend = <<x, y>> /\ Tail(toSend) = <<y>>
    BY <1>8
  <2> DEFINE w == y.packet.data
  <2>2. Waits(toSend) = d \o w /\ Waits(Tail(toSend)) = w /\ w \in Seq(T)
    BY <1>3, <2>1, WaitsOne, WaitsTwo
  <2> HIDE DEF w, d
  <2>3. (d \o w) \o look = d \o (w \o look) /\ w \o look \in Seq(T)
    <3>1. (d \o w) \o look = d \o (w \o look)
      BY <1>2, <1>4, <2>2, ConcatAssociative, SMTT(30)
    <3>2. w \o look \in Seq(T)
      BY <1>2, <2>2, ConcatProperties
    <3> QED
      BY <3>1, <3>2
  <2> QED
    BY <1>3, <1>6, <2>2, <2>3 DEF d, x
<1> QED
  BY <1>3, <1>7, <1>8

\* A packet arrives.
LEMMA SendMoves ==
  ASSUME NEW T, FilesAreSound(T), Chain(T), Send
  PROVE  /\ \E d \in Seq(T) : Chunk = d \o Chunk' /\ EsOf(PesIn(sent')) = EsOf(d)
         /\ Chunk' \in Seq(T) /\ StartsAreMarked(sent') /\ look' = look
<1> DEFINE x == Head(toSend)
           p == [x.packet EXCEPT !.data = IF Starts(@) THEN Restamped(@) ELSE @]
           d == x.packet.data
           e == IF Starts(d) THEN Restamped(d) ELSE d
<1>1. look' = look
  BY DEF Send
<1>3. x \in Shipments(T) /\ Chunk = d \o Chunk' /\ Chunk' \in Seq(T)
  BY SendTakes
<1> HIDE DEF x
<1>4. /\ x.packet \in [pusi : BOOLEAN, adapt : {1, 3}, data : Seq(T)] /\ d \in Seq(T)
      /\ Marked(x.packet.pusi, d)
  BY <1>3 DEF Shipments
<1>6. \E r \in {<<>>, <<PcrPacket>>} : sent' = <<p>> \o r
  BY DEF Send, PcrAfter, x
<1>7. EsOf(e) = EsOf(d) /\ Marked(x.packet.pusi, e)
  BY <1>3, <1>4, RestampedKeeps
<1>8. p.data = e /\ p.pusi = x.packet.pusi /\ p.adapt \in {1, 3}
  BY <1>4
<1> HIDE DEF p, e, d
<1>9. Payload(p) = e
  BY <1>8 DEF Payload
<1>10. /\ PesIn(sent') = e \/ PesIn(sent') = e \o <<>>
       /\ StartsAreMarked(sent')
  BY <1>6, <1>7, <1>8, <1>9, PesInSent
<1>11. EsOf(PesIn(sent')) = EsOf(d)
  <2>1. e \o <<>> = e
    <3>1. PICK U : e \in Seq(U)
      BY <1>3, <1>4, RestampedKeeps DEF e, d
    <3> QED
      BY <3>1, Unsent
  <2> QED
    BY <1>7, <1>10, <2>1
<1> QED
  BY <1>1, <1>3, <1>4, <1>10, <1>11 DEF d

\* What a step of the loop does to what is underway: it reads a token, or some leave.
LEMMA VideoMoves ==
  ASSUME NEW T, FilesAreSound(T), Chain(T), VideoNext
  PROVE  /\ IF Len(look') > Len(look)
            THEN /\ Last(look') \in T /\ Chunk' = Append(Chunk, Last(look'))
                 /\ EsOf(PesIn(sent')) = <<>>
            ELSE \E d \in Seq(T) : Chunk = d \o Chunk' /\ EsOf(PesIn(sent')) = EsOf(d)
         /\ Chunk' \in Seq(T) /\ StartsAreMarked(sent')
<1>0. StreamTypes(T) /\ Chunk \in Seq(T)
  BY ChunkType DEF Chain
<1>1. /\ sent' = <<>> => StartsAreMarked(sent') /\ EsOf(PesIn(sent')) = <<>>
      /\ <<>> \in Seq(T) /\ EsOf(<<>>) = <<>> /\ Chunk = <<>> \o Chunk
  <2>1. DOMAIN <<>> = {} /\ <<>> \in Seq(T)
    OBVIOUS
  <2>2. StartsAreMarked(<<>>)
    BY <2>1 DEF StartsAreMarked
  <2> QED
    BY <1>0, <2>1, <2>2, NothingIn, EsEmpty, Unsent
<1>2. ASSUME Chunk' = Chunk, EsOf(PesIn(sent')) = <<>>
      PROVE  /\ \E d \in Seq(T) : Chunk = d \o Chunk' /\ EsOf(PesIn(sent')) = EsOf(d)
         /\ Chunk' \in Seq(T)
  BY <1>0, <1>1, <1>2
<1>3. CASE Look \/ NextFile
  <2>1. CASE Len(look') > Len(look)
    <3>1. Last(look') \in T /\ Chunk' = Append(Chunk, Last(look')) /\ sent' = <<>>
      BY <1>3, <2>1, ReadTakes
    <3>2. Chunk' \in Seq(T)
      BY <1>0, <3>1, AppendProperties
    <3> QED
      BY <1>1, <2>1, <3>1, <3>2
  <2>2. CASE ~(Len(look') > Len(look))
    <3>1. sent' = <<>> /\ UNCHANGED <<toSend, data>>
      BY <1>3 DEF Look, NextFile
    <3>2. look' = look
      <4>1. look \in Seq(T)
        BY <1>0, ChunkType
      <4>2. look' = look \/ \E x : look' = Append(look, x)
        BY <1>3 DEF Look, NextFile, Opened, Missing
      <4>3. \A x : Len(Append(look, x)) > Len(look)
        BY <4>1
      <4> QED
        BY <2>2, <4>2, <4>3
    <3> QED
      BY <1>1, <1>2, <2>2, <3>1, <3>2 DEF Chunk
  <2> QED
    BY <2>1, <2>2
<1>4. CASE Fill
  BY <1>1, <1>2, <1>4, FillMoves
<1>5. CASE FindHeader
  BY <1>1, <1>2, <1>5, FindHeaderMoves
<1>6. CASE Send
  <2>1. look \in Seq(T) /\ look' = look
    BY <1>0, <1>6, ChunkType, SendMoves
  <2>2. ~(Len(look') > Len(look))
    BY <2>1
  <2> QED
    BY <1>6, <2>2, SendMoves
<1>7. CASE GoOn \/ Reopen
  <2>1. sent' = <<>> /\ look \in Seq(T) /\ UNCHANGED <<toSend, data, look>>
    BY <1>0, <1>7, ChunkType DEF GoOn, Reopen
  <2>2. ~(Len(look') > Len(look)) /\ Chunk' = Chunk
    BY <2>1 DEF Chunk
  <2> QED
    BY <1>1, <1>2, <2>1, <2>2
<1>8. CASE Null
  <2>1. look \in Seq(T) /\ UNCHANGED <<toSend, data, look>>
    BY <1>0, <1>8, ChunkType DEF Null
  <2>2. ~(Len(look') > Len(look)) /\ Chunk' = Chunk
    BY <2>1 DEF Chunk
  <2>3. \E r \in {<<>>, <<PcrPacket>>} : sent' = <<NullPacket>> \o r
    BY <1>8 DEF Null, PcrAfter
  <2>4. Marked(NullPacket.pusi, NullPacket.data) /\ Payload(NullPacket) = <<>>
    BY DEF NullPacket, TsPacket, Marked, Payload
  <2>5. StartsAreMarked(sent') /\ (PesIn(sent') = <<>> \/ PesIn(sent') = <<>> \o <<>>)
    BY <2>3, <2>4, PesInSent
  <2>6. EsOf(PesIn(sent')) = <<>>
    BY <1>1, <2>5, Unsent
  <2> QED
    BY <1>2, <2>2, <2>5, <2>6
<1> QED
  BY <1>3, <1>4, <1>5, <1>6, <1>7, <1>8 DEF VideoNext

Accounted(T) == /\ taken \in Seq(T) /\ arrived \in Seq(T) /\ taken = arrived \o EsOf(Chunk)
                /\ StartsAreMarked(sent)

LEMMA VideoAccounts ==
  ASSUME NEW T, FilesAreSound(T), Chain(T), Accounted(T), VideoPart
  PROVE  Accounted(T)'
<1> DEFINE x == Last(look')
           a == arrived
           k0 == EsOf(Chunk)
<1>1. /\ VideoNext /\ arrived' = arrived \o EsOf(PesIn(sent'))
      /\ taken' = IF Len(look') > Len(look) THEN taken \o EsOf(<<x>>) ELSE taken
  BY DEF VideoPart
<1>2. /\ IF Len(look') > Len(look)
         THEN /\ x \in T /\ Chunk' = Append(Chunk, x) /\ EsOf(PesIn(sent')) = <<>>
         ELSE \E d \in Seq(T) : Chunk = d \o Chunk' /\ EsOf(PesIn(sent')) = EsOf(d)
      /\ Chunk' \in Seq(T) /\ StartsAreMarked(sent')
  BY <1>1, VideoMoves
<1>3. Chunk \in Seq(T) /\ k0 \in Seq(T) /\ a \in Seq(T) /\ taken = a \o k0 /\ taken \in Seq(T)
  BY ChunkType, EsType DEF Chain, Accounted
<1>4. Chunk' \in Seq(T)
  BY <1>2
<1> HIDE DEF x, a, k0
<1>5. CASE Len(look') > Len(look)
  <2>1. x \in T /\ Chunk' = Append(Chunk, x) /\ EsOf(PesIn(sent')) = <<>> /\ taken' = taken \o EsOf(<<x>>)
    BY <1>1, <1>2, <1>5
  <2>2. <<x>> \in Seq(T) /\ Append(Chunk, x) = Chunk \o <<x>>
    BY <1>3, <2>1, AppendIsConcat
  <2>3. EsOf(Chunk') = k0 \o EsOf(<<x>>) /\ EsOf(<<x>>) \in Seq(T)
    BY <1>3, <2>1, <2>2, EsConcat, EsType DEF k0
  <2>4. arrived' = a
    BY <1>1, <1>3, <2>1, Unsent DEF a
  <2> DEFINE e == EsOf(<<x>>)
  <2>5. (a \o k0) \o e = a \o (k0 \o e) /\ taken \o e \in Seq(T)
    <3>1. e \in Seq(T)
      BY <2>3
    <3> HIDE DEF e
    <3>2. (a \o k0) \o e = a \o (k0 \o e)
      BY <1>3, <3>1, ConcatAssociative
    <3>3. taken \o e \in Seq(T)
      BY <1>3, <3>1
    <3> QED
      BY <3>2, <3>3
  <2> HIDE DEF e
  <2> QED
    BY <1>2, <1>3, <2>1, <2>3, <2>4, <2>5 DEF Accounted, e
<1>6. CASE ~(Len(look') > Len(look))
  <2>1. PICK d \in Seq(T) : Chunk = d \o Chunk' /\ EsOf(PesIn(sent')) = EsOf(d)
    BY <1>2, <1>6
  <2> DEFINE e == EsOf(d)
             n == EsOf(Chunk')
  <2>2. k0 = e \o n /\ e \in Seq(T) /\ n \in Seq(T)
    BY <1>4, <2>1, EsConcat, EsType DEF k0
  <2>3. arrived' = a \o e /\ taken' = taken
    BY <1>1, <1>6, <2>1 DEF a
  <2> HIDE DEF e, n
  <2>4. (a \o e) \o n = a \o (e \o n) /\ a \o e \in Seq(T)
    <3>1. a \in Seq(T) /\ e \in Seq(T) /\ n \in Seq(T)
      BY <1>3, <2>2
    <3>2. (a \o e) \o n = a \o (e \o n)
      BY <3>1, ConcatAssociative
    <3>3. a \o e \in Seq(T)
      BY <3>1, ConcatProperties
    <3> QED
      BY <3>2, <3>3
  <2> QED
    BY <1>2, <1>3, <2>2, <2>3, <2>4 DEF Accounted, n
<1> QED
  BY <1>5, <1>6

LEMMA AccountsStart ==
  ASSUME NEW T, FilesAreSound(T), Init
  PROVE  Accounted(T)
<1>1. StreamTypes(T) /\ Chunk \in Seq(T) /\ look \in Seq(T)
  BY StreamStarts, ChunkType DEF Chain
<1>2. taken = EsOf(look) /\ arrived = <<>> /\ sent = <<PcrPacket>> /\ toSend = <<>> /\ data = <<>>
  BY DEF Init, VideoInit
<1>3. Chunk = look
  <2>1. Chunk = (<<>> \o <<>>) \o look /\ <<>> \in Seq(T)
    <3>1. Waits(toSend) = <<>> /\ data = <<>>
      BY <1>2, WaitsNone
    <3>2. <<>> \in Seq(T)
      OBVIOUS
    <3> QED
      BY <3>1, <3>2 DEF Chunk
  <2> QED
    BY <1>1, <2>1, Unsent
<1>4. EsOf(look) \in Seq(T) /\ <<>> \in Seq(T)
  BY <1>1, EsType
<1>5. StartsAreMarked(sent)
  <2>1. Marked(PcrPacket.pusi, PcrPacket.data)
    BY DEF PcrPacket, TsPacket, Marked
  <2>2. <<PcrPacket>> \o <<>> = <<PcrPacket>>
    <3>1. <<PcrPacket>> \in Seq({PcrPacket})
      OBVIOUS
    <3> QED
      BY <3>1, ConcatEmptySeq
  <2> QED
    BY <1>2, <2>1, <2>2, PesInSent
<1> QED
  BY <1>2, <1>3, <1>4, <1>5, Unsent DEF Accounted

Loop(T) == Chain(T) /\ Accounted(T)

LEMMA LoopGoesOn ==
  ASSUME NEW T, FilesAreSound(T), Loop(T), [Next]_vars
  PROVE  Loop(T)'
<1>1. CASE VideoPart
  BY <1>1, VideoKeepsStream, VideoAccounts DEF Loop, VideoPart
<1>2. CASE UNCHANGED <<videoVars, taken, arrived>>
  <2>1. Chain(T)'
    BY <1>2 DEF videoVars, Loop, Chain, StreamTypes, Shipping, Phases, Payloads, Headers, IsStart, AtEnd,
                NextIsDts
  <2>2. Accounted(T)'
    BY <1>2 DEF videoVars, Loop, Accounted, Chunk
  <2> QED
    BY <2>1, <2>2 DEF Loop
<1> QED
  BY <1>1, <1>2 DEF Next, AudioPart, vars

\* Whatever the streams and the files are: each byte that was read of the elementary streams is
\* among those that ts2pes and pes2es find, in its place, or on its way; and packets say that
\* a PES packet starts in them, at their beginning.
THEOREM EveryByteArrives == Spec => []NothingIsLost
<1>1. Init => Loop(Tokens)
  BY AllSound, StreamStarts, AccountsStart DEF Loop
<1>2. Loop(Tokens) /\ [Next]_vars => Loop(Tokens)'
  BY AllSound, LoopGoesOn
<1>3. Loop(Tokens) => NothingIsLost
  BY ChunkType DEF Loop, Chain, Accounted, NothingIsLost
<1> QED
  BY <1>1, <1>2, <1>3, PTL DEF Spec

-----------------------------------------------------------------------------
(* The buffer of the receiver.                                                *)

Buffers == [out : Int, old_pcr : Int, frames : BOOLEAN, first : Int, popped : Int,
            queue : Seq(Nat), vbv : Int]

\* Frames have left it, each with its bytes.
Emptied(a, b) ==
  /\ b \in Buffers /\ Total(b.queue) <= Total(a.queue)
  /\ b.vbv - Total(b.queue) = a.vbv - Total(a.queue) /\ b.vbv <= a.vbv

LEMMA PopEmpties ==
  ASSUME NEW b \in Buffers
  PROVE  Emptied(b, Pop(b))
<1>1. b.queue \in Seq(Nat) /\ b.vbv \in Int /\ Total(b.queue) \in Nat
  BY TotalType DEF Buffers
<1>2. CASE b.queue = <<>>
  BY <1>1, <1>2 DEF Pop, Emptied
<1>3. CASE b.queue # <<>>
  <2>1. /\ Head(b.queue) \in Nat /\ Tail(b.queue) \in Seq(Nat)
        /\ Total(b.queue) = Head(b.queue) + Total(Tail(b.queue))
    BY <1>1, <1>3, TotalTail
  <2>2. Total(Tail(b.queue)) \in Nat
    BY <2>1, TotalType
  <2> DEFINE h == Head(b.queue)
             t == Tail(b.queue)
  <2>3. Pop(b) = [b EXCEPT !.vbv = @ - h, !.queue = t]
    BY <1>3 DEF Pop
  <2> HIDE DEF h, t
  <2>4. h \in Nat /\ t \in Seq(Nat)
    BY <2>1 DEF h, t
  <2>5. Pop(b) \in Buffers /\ Pop(b).queue = t /\ Pop(b).vbv = b.vbv - h
    <3> DEFINE n == b.vbv - h
               d == [b EXCEPT !.vbv = n]
    <3>1. n \in Int
      BY <1>1, <2>4
    <3>2. Pop(b) = [d EXCEPT !.queue = t]
      BY <2>3
    <3> HIDE DEF n
    <3>3. d \in Buffers /\ d.vbv = n
      BY <3>1 DEF Buffers
    <3> HIDE DEF d
    <3> QED
      BY <2>4, <3>2, <3>3 DEF Buffers, n
  <2> DEFINE u == Total(b.queue)
             v == Total(t)
  <2>6. u \in Nat /\ v \in Nat /\ u = h + v
    BY <1>1, <2>1, <2>2 DEF h, t
  <2> HIDE DEF u, v
  <2>7. v <= u /\ b.vbv - h - v = b.vbv - u /\ b.vbv - h <= b.vbv
    BY <1>1, <2>4, <2>6
  <2> QED
    BY <2>5, <2>7 DEF Emptied, u, v
<1> QED
  BY <1>2, <1>3

LEMMA EmptiedTwice ==
  ASSUME NEW a \in Buffers, NEW b, NEW d, Emptied(a, b), Emptied(b, d)
  PROVE  Emptied(a, d)
<1>1. /\ a.queue \in Seq(Nat) /\ b.queue \in Seq(Nat) /\ d.queue \in Seq(Nat)
      /\ a.vbv \in Int /\ b.vbv \in Int /\ d.vbv \in Int
  BY DEF Emptied, Buffers
<1>2. Total(a.queue) \in Nat /\ Total(b.queue) \in Nat /\ Total(d.queue) \in Nat
  BY <1>1, TotalType
<1> QED
  BY <1>1, <1>2 DEF Emptied

\* The clock is left out of it.
LEMMA EmptiedAnyTime ==
  ASSUME NEW a \in Buffers, NEW b, b \in Buffers, b.queue = a.queue, b.vbv = a.vbv
  PROVE  Emptied(a, b)
<1>1. Total(a.queue) \in Nat /\ a.vbv \in Int
  BY TotalType DEF Buffers
<1> QED
  BY <1>1 DEF Emptied

LEMMA TickEmpties ==
  ASSUME NEW b \in Buffers
  PROVE  Emptied(b, Tick(b))
<1>1. Emptied(b, b) /\ Emptied(b, Pop(b)) /\ Pop(b) \in Buffers
  BY PopEmpties, EmptiedAnyTime DEF Emptied
<1>2. ASSUME NEW n \in Int, NEW d, d = [Pop(b) EXCEPT !.popped = n]
      PROVE  Emptied(b, d)
  <2> DEFINE p == Pop(b)
  <2>1. p \in Buffers /\ Emptied(b, p)
    BY <1>1
  <2> HIDE DEF p
  <2>2. d = [p EXCEPT !.popped = n]
    BY <1>2 DEF p
  <2>3. d \in Buffers /\ d.queue = p.queue /\ d.vbv = p.vbv
    BY <2>1, <2>2 DEF Buffers
  <2>4. Emptied(p, d)
    BY <2>1, <2>3, EmptiedAnyTime
  <2> QED
    BY <2>1, <2>4, EmptiedTwice
<1>3. Emptied(b, [Pop(b) EXCEPT !.popped = 1])
  BY <1>2
<1>4. Emptied(b, [Pop(b) EXCEPT !.popped = @ + 1])
  <2> DEFINE n == Pop(b).popped + 1
             d == [Pop(b) EXCEPT !.popped = n]
  <2>1. n \in Int
    BY <1>1 DEF Buffers
  <2> HIDE DEF n
  <2>2. Emptied(b, d)
    BY <1>2, <2>1
  <2> QED
    BY <2>2 DEF n
<1> QED
  BY <1>1, <1>3, <1>4 DEF Tick

LEMMA WrappedEmpties ==
  ASSUME NEW b \in Buffers
  PROVE  Emptied(b, Wrapped(b))
<1> DEFINE u == b.out - WrapPackets
           v == NextPop(b) - WrapPackets - 2 * Period
           d == [b EXCEPT !.out = u, !.popped = 1, !.first = v]
<1>1. u \in Int /\ v \in Int
  BY VideoAssumption DEF Buffers, NextPop
<1>2. Wrapped(b) = b \/ Wrapped(b) = Tick(d)
  BY DEF Wrapped
<1> HIDE DEF u, v
<1>3. d \in Buffers /\ d.queue = b.queue /\ d.vbv = b.vbv
  <2> DEFINE e == [b EXCEPT !.out = u]
             f == [e EXCEPT !.popped = 1]
  <2>1. e \in Buffers /\ e.queue = b.queue /\ e.vbv = b.vbv
    BY <1>1 DEF Buffers
  <2>2. d = [f EXCEPT !.first = v]
    OBVIOUS
  <2> HIDE DEF e
  <2>3. f \in Buffers /\ f.queue = b.queue /\ f.vbv = b.vbv
    BY <2>1 DEF Buffers
  <2> HIDE DEF f, d
  <2> QED
    BY <1>1, <2>2, <2>3 DEF Buffers
<1> HIDE DEF d
<1>4. Emptied(b, b) /\ Emptied(b, d) /\ Emptied(d, Tick(d))
  BY <1>3, EmptiedAnyTime, TickEmpties
<1> QED
  BY <1>2, <1>4, EmptiedTwice

LEMMA ControlledEmpties ==
  ASSUME NEW b \in Buffers
  PROVE  Emptied(b, Controlled(b))
<1> DEFINE t == Tick(b)
           r == Wrapped(t)
           w == r.out + 1
           d == [r EXCEPT !.out = w, !.old_pcr = w]
<1>1. Controlled(b) = Tick(d) \/ Controlled(b) = Tick(t)
  BY DEF Controlled
<1>2. Emptied(b, t) /\ t \in Buffers
  BY TickEmpties DEF Emptied
<1> HIDE DEF t
<1>3. Emptied(t, r) /\ r \in Buffers
  BY <1>2, WrappedEmpties DEF Emptied
<1> HIDE DEF r
<1>4. w \in Int
  BY <1>3 DEF Buffers
<1> HIDE DEF w
<1>5. d \in Buffers /\ d.queue = r.queue /\ d.vbv = r.vbv
  BY <1>3, <1>4 DEF Buffers
<1> HIDE DEF d
<1>6. Emptied(r, d)
  BY <1>3, <1>5, EmptiedAnyTime
<1>7. Emptied(d, Tick(d)) /\ Emptied(t, Tick(t))
  BY <1>2, <1>5, TickEmpties
<1>8. Emptied(b, d)
  BY <1>2, <1>3, <1>6, EmptiedTwice
<1> QED
  BY <1>1, <1>2, <1>7, <1>8, EmptiedTwice

-----------------------------------------------------------------------------
(* Bytes are counted when they are read, and those of headers when they are   *)
(* found.                                                                     *)

Found == pc \in {"fill", "send", "nulls"} /\ IsStart

\* The tokens of headers that were read and not found yet.
Unfound ==
  IF look = <<>> \/ Found THEN 0
  ELSE IF look[1].kind = "pes" THEN (IF Len(look) = 2 /\ look[1].both THEN 2 ELSE 1)
  ELSE IF Len(look) = 2 /\ look[2].kind = "pes" THEN 1 ELSE 0

\* es_input_bytes and what of it is not counted.
Keeps(n) == es'.input - Unfound' = es.input - Unfound + n

LEMMA UnfoundType == Unfound \in Nat
BY DEF Unfound

LEMMA LookCounts ==
  ASSUME NEW T, Chain(T), Look
  PROVE  /\ Len(look') > Len(look) => Keeps(IF IsHeader(Last(look')) THEN 0 ELSE 1)
         /\ ~(Len(look') > Len(look)) => Keeps(0)
         /\ es'.old = es.old /\ es'.last = es.last
<1> DEFINE p == files[open].pes
           some == at < Len(p)
           x == p[at + 1]
<1>1. StreamTypes(T) /\ Phases /\ Headers
  BY DEF Chain
<1>2. /\ p \in Seq(T) /\ Len(p) \in Nat /\ Len(p) >= 2 /\ look \in Seq(T) /\ at \in Nat
      /\ es \in [input : Int, old : Int, last : Int] /\ SoundFile(T, p)
  BY <1>1, Soundness DEF StreamTypes
<1>3. pc = "look" /\ Len(look) = 1 /\ ~Found /\ look # <<>>
  <2>1. pc = "look" /\ Len(look) = 1
    BY <1>1 DEF Look, Phases
  <2> QED
    BY <1>2, <2>1, NotEmpty DEF Found
<1>4. /\ IF some THEN /\ look' = Append(look, x) /\ at' = at + 1
                      /\ es' = [es EXCEPT !.input = @ + 1]
         ELSE UNCHANGED <<look, at, es>>
      /\ pc' \in {"next", "head"} /\ ~Found'
  BY <1>3 DEF Look, LookAhead, Found
<1>5. /\ at # 0 => look[1] = p[at]
      /\ at = 0 => look[1].kind # "pes"
  BY <1>1, <1>3 DEF Phases
<1>6. Unfound = (IF look[1].kind = "pes" THEN 1 ELSE 0) /\ Len(look) # 2
  BY <1>3 DEF Unfound
<1>7. CASE some
  <2>1. /\ look' \in Seq(T) /\ Len(look') = 2 /\ look'[1] = look[1] /\ look'[2] = x
    <3>1. at + 1 \in 1..Len(p)
      BY <1>2, <1>7
    <3>2. Len(look) = 1 => /\ Append(look, x) \in Seq(T) /\ Len(Append(look, x)) = 2
                           /\ Append(look, x)[1] = look[1] /\ Append(look, x)[2] = x
      BY <1>2, <3>1, Looked
    <3> HIDE DEF some, x
    <3> QED
      BY <1>3, <1>4, <1>7, <3>2
  <2>2. Last(look') = x /\ Len(look') > Len(look) /\ look' # <<>>
    BY <1>3, <2>1, NotEmpty DEF Last
  <2>3. es'.input = es.input + 1 /\ es'.old = es.old /\ es'.last = es.last
    BY <1>2, <1>4, <1>7
  <2>4. IF look[1].kind = "pes" THEN x.kind # "pes" /\ (look[1].both <=> x.kind = "dts")
        ELSE x.kind # "dts"
    <3>1. CASE at = 0
      <4>1. x.kind = "pes" /\ look[1].kind # "pes"
        BY <1>2, <1>5, <3>1 DEF SoundFile
      <4> QED
        BY <4>1
    <3>2. CASE at # 0
      <4>1. at \in 1..(Len(p) - 1)
        BY <1>2, <1>7, <3>2
      <4>2. Follows(p[at], p[at + 1])
        BY <1>2, <4>1 DEF SoundFile
      <4> QED
        BY <1>5, <3>2, <4>2 DEF Follows, Both
    <3> QED
      BY <3>1, <3>2
  <2>5. Unfound' = IF look[1].kind = "pes" THEN (IF look[1].both THEN 2 ELSE 1)
                   ELSE IF x.kind = "pes" THEN 1 ELSE 0
    BY <1>4, <2>1, <2>2 DEF Unfound
  <2> HIDE DEF x
  <2>6. Unfound' = Unfound + (IF IsHeader(x) THEN 1 ELSE 0)
    BY <1>6, <2>4, <2>5 DEF IsHeader
  <2>7. Unfound \in Nat /\ es.input \in Int
    BY <1>2, UnfoundType
  <2>8. CASE IsHeader(x)
    <3>1. es'.input - Unfound' = es.input - Unfound + 0
      BY <2>3, <2>6, <2>7, <2>8
    <3> QED
      BY <2>2, <2>3, <2>8, <3>1 DEF Keeps
  <2>9. CASE ~IsHeader(x)
    <3>1. es'.input - Unfound' = es.input - Unfound + 1
      BY <2>3, <2>6, <2>7, <2>9
    <3> QED
      BY <2>2, <2>3, <2>9, <3>1 DEF Keeps
  <2> QED
    BY <2>8, <2>9
<1>8. CASE ~some
  <2>1. look' = look /\ es' = es
    BY <1>4, <1>8
  <2>2. Unfound' = Unfound
    BY <1>3, <1>4, <2>1 DEF Unfound
  <2>3. Keeps(0)
    BY <1>2, <1>6, <2>1, <2>2 DEF Keeps
  <2> QED
    BY <1>2, <2>1, <2>3
<1> QED
  BY <1>7, <1>8

LEMMA NextFileCounts ==
  ASSUME NEW T, Chain(T), NextFile
  PROVE  /\ Len(look') > Len(look) => Keeps(IF IsHeader(Last(look')) THEN 0 ELSE 1)
         /\ ~(Len(look') > Len(look)) => Keeps(0)
         /\ es'.old = es.old /\ es'.last = es.last
<1>1. StreamTypes(T) /\ Phases /\ Headers
  BY DEF Chain
<1>2. /\ pc = "next" /\ Len(look) = 1 /\ look \in Seq(T) /\ at \in Nat
      /\ es \in [input : Int, old : Int, last : Int]
  BY <1>1, Soundness DEF NextFile, Phases
<1>3. PICK i \in DOMAIN files : Opened(i) \/ (i = 1 /\ Missing)
  BY <1>1 DEF NextFile, MayOpen, StreamTypes
<1> DEFINE p == files[i].pes
           x == p[1]
<1>4. p \in Seq(T) /\ Len(p) \in Nat /\ Len(p) >= 2 /\ x.kind = "pes"
  BY <1>1 DEF StreamTypes, SoundFile
<1>5. look # <<>> /\ look[1].kind # "pes"
  <2>1. look # <<>>
    BY <1>2, NotEmpty
  <2>2. at = Len(files[open].pes) /\ at # 0 /\ look[1] = files[open].pes[at]
    BY <1>1, <1>2, <2>1, Soundness DEF Headers, Phases
  <2> QED
    BY <1>1, <2>1, <2>2, Soundness
<1>6. Unfound = 0
  BY <1>2, <1>5 DEF Unfound
<1>7. CASE pc' = "head" /\ look' = Append(look, x) /\ es' = [es EXCEPT !.input = @ + 1]
  <2>1. look' \in Seq(T) /\ Len(look') = 2 /\ look'[1] = look[1] /\ look'[2] = x
    <3>1. 1 \in 1..Len(p)
      BY <1>4
    <3> HIDE DEF p
    <3> QED
      BY <1>2, <1>4, <1>7, <3>1, Looked
  <2>2. Last(look') = x /\ look' # <<>>
    BY <2>1, NotEmpty DEF Last
  <2>3. es'.input = es.input + 1 /\ es'.old = es.old /\ es'.last = es.last
    BY <1>2, <1>7
  <2>4. Len(look') > Len(look)
    BY <1>2, <2>1
  <2>5. ~Found'
    BY <1>7 DEF Found
  <2>6. Unfound' = 1
    BY <1>4, <1>5, <2>1, <2>2, <2>5 DEF Unfound
  <2>7. Keeps(0) /\ IsHeader(x)
    BY <1>2, <1>4, <1>6, <2>3, <2>6 DEF Keeps, IsHeader
  <2> QED
    BY <2>2, <2>3, <2>4, <2>7
<1>8. CASE pc' = "ended" /\ UNCHANGED <<look, es>>
  <2>1. Unfound' = 0
    BY <1>2, <1>5, <1>8 DEF Unfound
  <2>2. es' = es /\ es.input \in Int
    BY <1>2, <1>8
  <2>3. es'.input - Unfound' = es.input - Unfound + 0
    BY <1>6, <2>1, <2>2
  <2>4. ~(Len(look') > Len(look))
    <3>1. look' = look /\ Len(look) \in Nat
      BY <1>2, <1>8
    <3> QED
      BY <3>1
  <2> QED
    BY <2>2, <2>3, <2>4 DEF Keeps
<1> QED
  BY <1>3, <1>7, <1>8 DEF Opened, Missing

LEMMA FillCounts ==
  ASSUME NEW T, Chain(T), Fill
  PROVE  Keeps(0) /\ es'.input = es.input /\ es'.last = es.last
<1>1. StreamTypes(T) /\ Phases /\ Headers /\ Payloads /\ pc = "fill"
  BY DEF Chain, Fill
<1>2. look \in Seq(T) /\ es \in [input : Int, old : Int, last : Int] /\ Len(look) \in Nat
  BY <1>1, Soundness
<1>3. /\ look # <<>> /\ look' \in Seq(T) /\ Len(look') = Len(look) - 1
      /\ (Len(look) = 2 /\ look'[1] = look[2]) \/ (Len(look) = 1 /\ AtEnd /\ look' = <<>>)
      /\ es' = es \/ es' = [es EXCEPT !.old = es.input]
  BY FillDoes
<1>4. es'.input = es.input /\ es'.last = es.last
  BY <1>2, <1>3
<1>5. Unfound' = Unfound
  <2>1. CASE Len(look) = 2 /\ look'[1] = look[2]
    <3>1. Len(look') = 1 /\ ~Found' /\ look' # <<>>
      BY <1>3, <2>1, NotEmpty DEF Found, IsStart, LookAhead
    <3>2. Unfound' = IF look[2].kind = "pes" THEN 1 ELSE 0
      BY <2>1, <3>1 DEF Unfound
    <3>3. CASE look[1].kind = "pes"
      <4>1. look[2].kind # "pes" /\ Found
        BY <1>1, <2>1, <3>3 DEF Headers, Found, IsStart, LookAhead
      <4> QED
        BY <3>2, <4>1 DEF Unfound
    <3>4. CASE look[1].kind # "pes"
      BY <1>3, <2>1, <3>2, <3>4 DEF Unfound, Found, IsStart
    <3> QED
      BY <3>3, <3>4
  <2>2. CASE Len(look) = 1 /\ AtEnd /\ look' = <<>>
    <3>1. look[1] = files[open].pes[at] /\ at = Len(files[open].pes)
      BY <1>1, <1>3, <2>2 DEF Phases, AtEnd
    <3>2. look[1].kind # "pes"
      BY <1>1, <3>1, Soundness
    <3> QED
      BY <2>2, <3>2 DEF Unfound
  <2> QED
    BY <1>3, <2>1, <2>2
<1> QED
  BY <1>2, <1>4, <1>5, UnfoundType DEF Keeps

LEMMA FindHeaderCounts ==
  ASSUME NEW T, Chain(T), FindHeader
  PROVE  Keeps(0) /\ (IsStart => Unfound' = 0)
<1>1. StreamTypes(T) /\ Phases /\ pc = "head"
  BY DEF Chain, FindHeader
<1>2. look \in Seq(T) /\ es \in [input : Int, old : Int, last : Int]
  BY <1>1, Soundness
<1>3. look' = look /\ (IsStart' <=> IsStart) /\ pc' \in {"fill", "send"}
  BY DEF FindHeader, IsStart
<1>4. CASE IsStart
  <2>1. /\ es'.input = es.input - HeaderSize /\ Unfound' = 0
    BY <1>3, <1>4 DEF FindHeader, Unfound, Found
  <2>2. Len(look) = 2 /\ look[1].kind = "pes"
    BY <1>4 DEF IsStart, LookAhead
  <2>3. Unfound = HeaderSize
    <3>1. look # <<>>
      BY <1>2, <2>2, NotEmpty
    <3> QED
      BY <1>1, <2>2, <3>1 DEF Unfound, HeaderSize, Found
  <2>4. es'.input - Unfound' = es.input - Unfound + 0
    <3>1. es.input \in Int /\ Unfound \in Nat
      BY <1>2, UnfoundType
    <3> QED
      BY <2>1, <2>3, <3>1
  <2> QED
    BY <2>1, <2>4 DEF Keeps
<1>5. CASE ~IsStart
  <2>1. es' = es /\ ~Found /\ ~Found'
    BY <1>3, <1>5 DEF FindHeader, Found
  <2>2. Unfound' = Unfound
    BY <1>3, <2>1 DEF Unfound
  <2> QED
    BY <1>2, <1>5, <2>1, <2>2, UnfoundType DEF Keeps
<1> QED
  BY <1>4, <1>5

LEMMA OthersCount ==
  ASSUME NEW T, Chain(T), Send \/ Null \/ GoOn \/ Reopen
  PROVE  Keeps(0) /\ es' = es
<1>1. look' = look /\ es' = es /\ (IsStart' <=> IsStart)
  BY DEF Send, Null, GoOn, Reopen, IsStart
<1>2. Found' <=> Found
  BY <1>1 DEF Send, Null, GoOn, Reopen, Found
<1>3. Unfound' = Unfound
  BY <1>1, <1>2 DEF Unfound
<1>4. es \in [input : Int, old : Int, last : Int]
  BY Soundness DEF Chain
<1> QED
  BY <1>1, <1>3, <1>4, UnfoundType DEF Keeps

\* What is among the packets that are to be sent, as ShippingOf of a queue.
LEMMA WaitsForms ==
  ASSUME NEW T, NEW q,
         \/ q = <<>>
         \/ \E x \in Shipments(T) : q = <<x>>
         \/ \E x \in Shipments(T), y \in Shipments(T) : q = <<x, y>> /\ Len(y.packet.data) = 1
  PROVE  Waits(q) \in Seq(T)
<1>1. CASE q = <<>>
  <2>1. Waits(<<>>) \in Seq(T)
    <3>1. <<>> \in Seq(T)
      OBVIOUS
    <3> QED
      BY <3>1, WaitsNone, Zenon
  <2> QED
    BY <1>1, <2>1
<1>2. CASE \E x \in Shipments(T) : q = <<x>>
  <2>1. PICK x \in Shipments(T) : q = <<x>>
    BY <1>2
  <2>2. Waits(<<x>>) \in Seq(T)
    BY WaitsOne
  <2> QED
    BY <2>1, <2>2
<1>3. CASE \E x \in Shipments(T), y \in Shipments(T) : q = <<x, y>>
  <2>1. PICK x \in Shipments(T), y \in Shipments(T) : q = <<x, y>>
    BY <1>3
  <2>2. Waits(q) = x.packet.data \o y.packet.data
    BY <2>1, WaitsTwo
  <2>3. x.packet.data \in Seq(T) /\ y.packet.data \in Seq(T)
    BY WaitsOne
  <2> DEFINE a == x.packet.data
             b == y.packet.data
  <2> HIDE DEF a, b
  <2>4. a \in Seq(T) /\ b \in Seq(T) => a \o b \in Seq(T)
    OBVIOUS
  <2> QED
    BY <2>2, <2>3, <2>4 DEF a, b
<1> QED
  BY <1>1, <1>2, <1>3

\* The lengths of what arrived and of what is underway.
LEMMA Weighed ==
  ASSUME NEW T, NEW w \in Seq(T), NEW d \in Seq(T), NEW l \in Seq(T), NEW a \in Seq(T)
  PROVE  /\ Len(a \o EsOf((w \o d) \o l))
              = Len(a) + Len(EsOf(w)) + Len(EsOf(d)) + Len(EsOf(l))
         /\ Len(a) \in Nat /\ Len(EsOf(w)) \in Nat /\ Len(EsOf(d)) \in Nat /\ Len(EsOf(l)) \in Nat
<1>1. w \o d \in Seq(T)
  OBVIOUS
<1>2. EsOf((w \o d) \o l) = EsOf(w \o d) \o EsOf(l)
  BY <1>1, EsConcat
<1>3. EsOf(w \o d) = EsOf(w) \o EsOf(d)
  BY EsConcat
<1> DEFINE u == EsOf(w)
           v == EsOf(d)
           x == EsOf(l)
<1>4. u \in Seq(T) /\ v \in Seq(T) /\ x \in Seq(T)
  BY EsType
<1> HIDE DEF u, v, x
<1>5. /\ Len(a \o ((u \o v) \o x)) = Len(a) + Len(u) + Len(v) + Len(x)
      /\ Len(a) \in Nat /\ Len(u) \in Nat /\ Len(v) \in Nat /\ Len(x) \in Nat
  BY <1>4
<1> QED
  BY <1>2, <1>3, <1>5 DEF u, v, x

\* es_payload of the packets that are to be sent.
Pending(q) == IF q = <<>> THEN 0 ELSE IF Len(q) = 1 THEN q[1].es ELSE q[1].es + q[2].es

LEMMA PendingIs ==
  /\ Pending(<<>>) = 0
  /\ \A x : Pending(<<x>>) = x.es
  /\ \A x, y : Pending(<<x, y>>) = x.es + y.es
<1>1. Pending(<<>>) = 0
  BY DEF Pending
<1>2. ASSUME NEW x PROVE Pending(<<x>>) = x.es
  <2>1. <<x>> # <<>> /\ Len(<<x>>) = 1 /\ <<x>>[1] = x
    OBVIOUS
  <2> QED
    BY <2>1 DEF Pending
<1>3. ASSUME NEW x, NEW y PROVE Pending(<<x, y>>) = x.es + y.es
  <2>1. <<x, y>> # <<>> /\ Len(<<x, y>>) = 2 /\ <<x, y>>[1] = x /\ <<x, y>>[2] = y
    OBVIOUS
  <2> QED
    BY <2>1 DEF Pending
<1> QED
  BY <1>1, <1>2, <1>3

\* After the header of a frame there is one token of the stream in the look-ahead buffer when
\* it has no DTS.
LEMMA HeaderIsShort ==
  ASSUME NEW T, NEW l \in Seq(T)
  PROVE  Len(l) = 2 /\ l[1].kind = "pes" => Len(EsOf(l)) = (IF IsHeader(l[2]) THEN 0 ELSE 1)
<1>1. ASSUME NEW n \in Nat, NEW j \in Nat, Len(l) = n + 1, n = j + 1, j = 0, IsHeader(l[1])
      PROVE  Len(EsOf(l)) = (IF IsHeader(l[n + 1]) THEN 0 ELSE 1)
  <2> DEFINE s == SubSeq(l, 1, n)
             r == SubSeq(s, 1, j)
             x == l[n + 1]
  <2>1. s \in Seq(T) /\ Len(s) = n /\ x \in T /\ l = Append(s, x)
    <3>1. Len(l) = n + 1
      BY <1>1
    <3> QED
      BY <3>1, LastOne, Zenon
  <2>2. s[1] = l[1]
    BY <1>1
  <2> HIDE DEF s, x
  <2>3. r \in Seq(T) /\ Len(r) = j /\ s[j + 1] \in T /\ s = Append(r, s[j + 1])
    BY <1>1, <2>1, LastOne
  <2> HIDE DEF r
  <2>4. r = <<>>
    BY <1>1, <2>3, NotEmpty
  <2>5. IsHeader(s[j + 1])
    BY <1>1, <2>2
  <2>6. EsOf(s) = <<>>
    <3> DEFINE h == s[j + 1]
    <3> HIDE DEF h
    <3>1. EsOf(Append(r, h)) = EsOf(r)
      BY <2>3, <2>5, EsAppend DEF h
    <3> QED
      BY <2>3, <2>4, <3>1, EsEmpty DEF h
  <2>7. CASE IsHeader(x)
    <3>1. EsOf(Append(s, x)) = <<>>
      BY <2>1, <2>6, <2>7, EsAppend
    <3>2. Len(EsOf(Append(s, x))) = 0
      BY <3>1
    <3> QED
      BY <2>1, <2>7, <3>2, Zenon DEF x
  <2>8. CASE ~IsHeader(x)
    <3>1. EsOf(Append(s, x)) = Append(<<>>, x)
      BY <2>1, <2>6, <2>8, EsAppend
    <3>2. Len(Append(<<>>, x)) = 1
      OBVIOUS
    <3>3. Len(EsOf(Append(s, x))) = 1
      BY <3>1, <3>2, Zenon
    <3> QED
      BY <2>1, <2>8, <3>3, Zenon DEF x
  <2> QED
    BY <2>7, <2>8, Zenon
<1>2. l[1].kind = "pes" => IsHeader(l[1])
  BY DEF IsHeader
<1> DEFINE size == Len(l)
           r(n) == Len(EsOf(l)) = (IF IsHeader(l[n]) THEN 0 ELSE 1)
           h == IsHeader(l[1])
           p == l[1].kind = "pes"
<1>3. \A n, j \in Nat : size = n + 1 /\ n = j + 1 /\ j = 0 /\ h => r(n + 1)
  BY <1>1
<1>4. p => h
  BY <1>2
<1> HIDE DEF size, r, h, p
<1>5. size = 2 /\ p => r(2)
  <2>1. size = 1 + 1 /\ 1 = 0 + 1 /\ 0 = 0 /\ h => r(1 + 1)
    BY <1>3
  <2>2. 1 + 1 = 2
    OBVIOUS
  <2> QED
    BY <1>4, <2>1, <2>2
<1> QED
  BY <1>5 DEF size, r, h, p

\* How much is among the packets that are to be sent.
Due == Len(EsOf(Waits(toSend)))

Counted == es.input = Len(taken) + Unfound /\ es.last \in Nat /\ es.last <= Len(taken)

\* What was counted for the receiver's buffer, and what really is in it.
Filled ==
  /\ m \in Buffers
  /\ es.last <= Len(arrived) + Due + 1 /\ es.old >= Len(arrived) + Due
  /\ m.vbv + es.last - Total(m.queue) = es.old - Pending(toSend)
  /\ \/ es.old - Pending(toSend) >= Len(arrived)
     \/ /\ es.old - Pending(toSend) + 1 >= Len(arrived)
        /\ Len(toSend) = 1 /\ Len(toSend[1].packet.data) = 1
  /\ Len(toSend) = 2 => toSend[2].es = 1
  /\ IF pc = "nulls" THEN Due <= 1 ELSE m.vbv + Room <= VbvMax
  /\ Fullness \in (-LookAhead)..VbvMax

\* What is read is counted, and a header not any more when it is found.
LEMMA VideoCounts ==
  ASSUME NEW T, FilesAreSound(T), Loop(T), Loop(T)', Counted, VideoPart
  PROVE  Counted'
<1>1. Chain(T) /\ taken \in Seq(T) /\ VideoNext
      /\ taken' = (IF Len(look') > Len(look) THEN taken \o EsOf(<<Last(look')>>) ELSE taken)
  BY DEF Loop, Accounted, VideoPart
<1>2. /\ Len(taken) \in Nat /\ Unfound \in Nat /\ Unfound' \in Nat
      /\ es \in [input : Int, old : Int, last : Int] /\ es' \in [input : Int, old : Int, last : Int]
  <2>1. Unfound' \in Nat
    BY DEF Unfound
  <2>2. es' \in [input : Int, old : Int, last : Int]
    BY DEF Loop, Chain, StreamTypes
  <2> QED
    BY <1>1, <2>1, <2>2, UnfoundType, Soundness DEF Chain
<1> DEFINE n == Len(taken)
<1>3. CASE Look \/ NextFile
  <2>1. /\ Len(look') > Len(look) => Keeps(IF IsHeader(Last(look')) THEN 0 ELSE 1)
        /\ ~(Len(look') > Len(look)) => Keeps(0)
        /\ es'.last = es.last
    BY <1>1, <1>3, LookCounts, NextFileCounts
  <2>2. CASE Len(look') > Len(look)
    <3> DEFINE x == Last(look')
    <3>1. x \in T
      BY <1>1, <1>3, <2>2, ReadTakes
    <3>2. taken' = taken \o EsOf(<<x>>)
      BY <1>1, <2>2
    <3> HIDE DEF x
    <3>3. Len(taken') = n + (IF IsHeader(x) THEN 0 ELSE 1)
      <4>1. CASE IsHeader(x)
        <5>1. taken' = taken \o <<>>
          BY <3>1, <3>2, <4>1, EsOne
        <5> QED
          BY <1>1, <4>1, <5>1
      <4>2. CASE ~IsHeader(x)
        <5>1. taken' = taken \o <<x>>
          BY <3>1, <3>2, <4>2, EsOne
        <5> QED
          BY <1>1, <3>1, <4>2, <5>1
      <4> QED
        BY <4>1, <4>2
    <3>4. Keeps(IF IsHeader(x) THEN 0 ELSE 1)
      BY <2>1, <2>2 DEF x
    <3> QED
      BY <1>2, <2>1, <3>3, <3>4 DEF Counted, Keeps
  <2>3. CASE ~(Len(look') > Len(look))
    BY <1>1, <1>2, <2>1, <2>3, SMTT(30) DEF Counted, Keeps
  <2> QED
    BY <2>2, <2>3
<1>4. CASE FindHeader
  <2>1. taken' = taken /\ Keeps(0)
    BY <1>1, <1>4, FindHeaderMoves, FindHeaderCounts
  <2>2. es'.input = Len(taken') + Unfound'
    BY <1>2, <2>1, SMTT(30) DEF Counted, Keeps
  <2>3. CASE IsStart
    <3>1. Unfound' = 0 /\ es'.last = es'.input
      BY <1>1, <1>4, <2>3, FindHeaderCounts DEF FindHeader
    <3> QED
      BY <1>2, <2>1, <2>2, <3>1 DEF Counted
  <2>4. CASE ~IsStart
    <3>1. es' = es
      BY <1>4, <2>4 DEF FindHeader
    <3> QED
      BY <2>1, <2>2, <3>1 DEF Counted
  <2> QED
    BY <2>3, <2>4
<1>5. CASE Fill
  <2>1. taken' = taken /\ Keeps(0) /\ es'.last = es.last
    BY <1>1, <1>5, FillMoves, FillCounts
  <2> QED
    BY <1>2, <2>1 DEF Counted, Keeps
<1>6. CASE Send \/ Null \/ GoOn \/ Reopen
  <2>1. Keeps(0) /\ es' = es /\ look' = look
    BY <1>1, <1>6, OthersCount DEF Send, Null, GoOn, Reopen
  <2>2. taken' = taken
    <3>1. ~(Len(look') > Len(look))
      <4>1. Len(look) \in Nat
        BY <1>1, Soundness DEF Chain
      <4> QED
        BY <2>1, <4>1
    <3> QED
      BY <1>1, <3>1
  <2> QED
    BY <1>2, <2>1, <2>2 DEF Counted, Keeps
<1> QED
  BY <1>1, <1>3, <1>4, <1>5, <1>6 DEF VideoNext

\* A packet that is sent: what there was of it, and what is left.
LEMMA WeighedNow ==
  ASSUME NEW T, Loop(T)
  PROVE  /\ Len(taken) = Len(arrived) + Due + Len(EsOf(data)) + Len(EsOf(look))
         /\ Len(arrived) \in Nat /\ Due \in Nat
         /\ Len(EsOf(data)) \in Nat /\ Len(EsOf(look)) \in Nat
<1>1. /\ Waits(toSend) \in Seq(T) /\ data \in Seq(T) /\ look \in Seq(T) /\ arrived \in Seq(T)
      /\ taken = arrived \o EsOf((Waits(toSend) \o data) \o look)
  BY ChunkType DEF Loop, Chain, Accounted, Chunk
<1> QED
  BY <1>1, Weighed DEF Due

LEMMA WeighedNext ==
  ASSUME NEW T, Loop(T)'
  PROVE  /\ Len(taken') = Len(arrived') + Due' + Len(EsOf(data')) + Len(EsOf(look'))
         /\ Len(arrived') \in Nat /\ Due' \in Nat
         /\ Len(EsOf(data')) \in Nat /\ Len(EsOf(look')) \in Nat
<1>1. /\ data' \in Seq(T) /\ look' \in Seq(T) /\ arrived' \in Seq(T)
      /\ taken' = arrived' \o EsOf((Waits(toSend') \o data') \o look')
      /\ Shipping(T)'
  BY DEF Loop, Chain, StreamTypes, Accounted, Chunk
<1>2. Waits(toSend') \in Seq(T)
  BY <1>1, WaitsForms DEF Shipping
<1>3. Due' = Len(EsOf(Waits(toSend')))
  BY DEF Due
<1> QED
  BY <1>1, <1>2, <1>3, Weighed

\* What is known of the numbers.
LEMMA Numbers ==
  ASSUME NEW T, Loop(T), Counted, Filled
  PROVE  /\ es.input \in Int /\ es.old \in Int /\ es.last \in Nat
         /\ m \in Buffers /\ m.vbv \in Int /\ Total(m.queue) \in Nat /\ Pending(toSend) \in Int
<1>1. m \in Buffers /\ m.vbv \in Int /\ m.queue \in Seq(Nat)
  BY DEF Filled, Buffers
<1>2. /\ es \in [input : Int, old : Int, last : Int] /\ Shipping(T)
  BY DEF Loop, Chain, StreamTypes
<1>3. \A x \in Shipments(T) : x.es \in Int
  BY DEF Shipments
<1>4. Pending(toSend) \in Int
  <2>1. CASE toSend = <<>>
    BY <2>1, PendingIs
  <2>2. CASE \E x \in Shipments(T) : toSend = <<x>>
    <3>1. PICK x \in Shipments(T) : toSend = <<x>>
      BY <2>2
    <3>2. Pending(<<x>>) \in Int
      BY <1>3, PendingIs
    <3> QED
      BY <3>1, <3>2, Zenon
  <2>3. CASE \E x \in Shipments(T), y \in Shipments(T) : toSend = <<x, y>>
    <3>1. PICK x \in Shipments(T), y \in Shipments(T) : toSend = <<x, y>>
      BY <2>3
    <3>2. Pending(<<x, y>>) \in Int
      <4>1. x.es \in Int /\ y.es \in Int
        BY <1>3
      <4> QED
        BY <4>1, PendingIs
    <3> QED
      BY <3>1, <3>2, Zenon
  <2> QED
    BY <1>2, <2>1, <2>2, <2>3 DEF Shipping
<1> QED
  BY <1>1, <1>2, <1>4, TotalType DEF Counted

\* The packets of the payload have what was read since the last.
LEMMA SendingPends ==
  ASSUME NEW T, NEW d \in Seq(T), d # <<>>, Len(d) <= Room, pusi \in BOOLEAN, Marked(pusi, d),
         Timed(d), es'.input \in Int, es.old \in Int
  PROVE  /\ Pending(Sending(d)) = es'.input - es.old
         /\ Len(Sending(d)) = 2 => Sending(d)[2].es = 1
<1> DEFINE n == es'.input - es.old
<1>1. ASSUME NEW x, Sending(d) = <<x>>, x.es = n
      PROVE  /\ Pending(Sending(d)) = n /\ (Len(Sending(d)) = 2 => Sending(d)[2].es = 1)
  <2>1. Pending(<<x>>) = n /\ Len(<<x>>) # 2
    BY <1>1, PendingIs
  <2> QED
    BY <1>1, <2>1, Zenon
<1>2. ASSUME NEW x, NEW y, Sending(d) = <<x, y>>, x.es + y.es = n, y.es = 1
      PROVE  /\ Pending(Sending(d)) = n /\ (Len(Sending(d)) = 2 => Sending(d)[2].es = 1)
  <2>1. Pending(<<x, y>>) = n /\ <<x, y>>[2] = y
    BY <1>2, PendingIs
  <2>2. <<x, y>>[2].es = 1
    BY <1>2, <2>1
  <2> QED
    BY <1>2, <2>1, <2>2, Zenon
<1>3. \/ \E x \in Shipments(T) : Sending(d) = <<x>> /\ x.es = n
      \/ \E x \in Shipments(T), y \in Shipments(T) :
           Sending(d) = <<x, y>> /\ x.es + y.es = n /\ y.es = 1
  BY SendingIs
<1> QED
  BY <1>1, <1>2, <1>3

\* Nothing happens to the buffer of the receiver.
LEMMA FilledStays ==
  ASSUME Filled, m' = m, toSend' = toSend, arrived' = arrived, es'.old = es.old,
         es'.last = es.last, pc # "nulls", pc' # "nulls"
  PROVE  Filled'
<1>1. Due' = Due
  BY DEF Due
<1>2. Fullness' = Fullness
  BY DEF Fullness
<1> QED
  BY <1>1, <1>2 DEF Filled, LookAhead

LEMMA ReadFills ==
  ASSUME NEW T, FilesAreSound(T), Loop(T), Filled, VideoPart, Look \/ NextFile \/ Reopen
  PROVE  Filled'
<1>1. Chain(T) /\ arrived \in Seq(T) /\ arrived' = arrived \o EsOf(PesIn(sent'))
  BY DEF Loop, Accounted, VideoPart
<1>2. sent' = <<>> /\ m' = m /\ toSend' = toSend /\ pc # "nulls" /\ pc' # "nulls"
  BY DEF Look, NextFile, Reopen, Opened, Missing
<1>3. arrived' = arrived
  BY <1>1, <1>2, NothingIn, Unsent
<1>4. es'.old = es.old /\ es'.last = es.last
  BY <1>1, LookCounts, NextFileCounts, OthersCount
<1> QED
  BY <1>2, <1>3, <1>4, FilledStays

LEMMA NothingWaits ==
  ASSUME toSend = <<>>
  PROVE  Due = 0 /\ Pending(toSend) = 0
<1>1. Waits(toSend) = <<>>
  BY WaitsNone
<1>2. EsOf(Waits(toSend)) = <<>>
  BY <1>1, EsEmpty
<1> QED
  BY <1>2, PendingIs DEF Due

LEMMA FillFills ==
  ASSUME NEW T, FilesAreSound(T), Loop(T), Loop(T)', Counted, Filled, VideoPart, Fill
  PROVE  Filled'
<1>1. /\ Chain(T) /\ arrived \in Seq(T) /\ arrived' = arrived \o EsOf(PesIn(sent'))
      /\ taken' = (IF Len(look') > Len(look) THEN taken \o EsOf(<<Last(look')>>) ELSE taken)
      /\ pc = "fill" /\ m' = m /\ pusi \in BOOLEAN
  BY DEF Loop, Accounted, VideoPart, Fill, Chain, StreamTypes
<1>2. arrived' = arrived /\ taken' = taken /\ toSend = <<>>
  BY <1>1, FillMoves, NothingIn, Unsent DEF Chain, Phases
<1>3. es'.input = es.input /\ es'.last = es.last
  BY <1>1, FillCounts
<1> DEFINE d == Append(data, look[1])
<1>4. /\ d \in Seq(T) /\ Len(d) <= Room /\ d # <<>> /\ Marked(pusi, d) /\ (Len(d) > 1 => Timed(d))
      /\ \/ /\ Len(d) = Room /\ pc' = "send" /\ es' = [es EXCEPT !.old = es.input]
            /\ toSend' = Sending(d)
         \/ pc' = "look" /\ es' = es /\ toSend' = <<>>
         \/ /\ Timed(d) /\ pc' = "send" /\ es' = [es EXCEPT !.old = es.input]
            /\ toSend' = Sending(d)
  BY <1>1, FillDoes
<1> HIDE DEF d
<1>5. CASE pc' = "look" /\ es' = es /\ toSend' = <<>>
  BY <1>1, <1>2, <1>3, <1>5, FilledStays
<1>6. CASE pc' = "send" /\ es' = [es EXCEPT !.old = es.input] /\ toSend' = Sending(d) /\ Timed(d)
  <2>1. /\ es.input \in Int /\ es.old \in Int /\ es.last \in Nat /\ m \in Buffers
        /\ m.vbv \in Int /\ Total(m.queue) \in Nat
    BY Numbers
  <2>2. es'.old = es.input /\ es'.input \in Int
    <3>1. es \in [input : Int, old : Int, last : Int]
      BY <1>1, Soundness DEF Chain
    <3> QED
      BY <1>3, <1>6, <2>1, <3>1
  <2>3. /\ Pending(toSend') = es.input - es.old
        /\ Len(toSend') = 2 => toSend'[2].es = 1
    BY <1>1, <1>3, <1>4, <1>6, <2>1, <2>2, SendingPends
  <2>4. Due = 0 /\ Pending(toSend) = 0
    BY <1>2, NothingWaits
  <2>5. /\ Len(taken) = Len(arrived) + Due' + Len(EsOf(data')) + Len(EsOf(look'))
        /\ Len(arrived) \in Nat /\ Due' \in Nat
        /\ Len(EsOf(data')) \in Nat /\ Len(EsOf(look')) \in Nat
    BY <1>2, WeighedNext
  <2>6. Fullness' = Fullness
    BY <1>1, <1>2, <1>3 DEF Fullness
  <2>7. es.input = Len(taken) + Unfound /\ Unfound \in Nat /\ Len(taken) \in Nat
    BY <2>5, UnfoundType DEF Counted
  <2> DEFINE a == Len(arrived)
             w == Due'
  <2>11. /\ es.last <= a + 1 /\ es.old >= a
         /\ m.vbv + es.last - Total(m.queue) = es.old
    <3>1. /\ es.last <= a + Due + 1 /\ es.old >= a + Due
          /\ m.vbv + es.last - Total(m.queue) = es.old - Pending(toSend)
      BY DEF Filled
    <3> HIDE DEF a
    <3>2. a \in Nat
      BY <2>5 DEF a
    <3> QED
      BY <2>1, <2>4, <3>1, <3>2
  <2>12. /\ a \in Nat /\ w \in Nat /\ es.input >= a + w
    <3> DEFINE t == Len(taken)
               k1 == Len(EsOf(data'))
               tr == Len(EsOf(look'))
    <3>1. t = a + w + k1 + tr /\ es.input = t + Unfound
      BY <2>5, <2>7
    <3>2. a \in Nat /\ w \in Nat /\ t \in Nat /\ k1 \in Nat /\ tr \in Nat /\ Unfound \in Nat
      BY <2>5, <2>7
    <3> HIDE DEF a, w, t, k1, tr
    <3> QED
      BY <3>1, <3>2
  <2> HIDE DEF a, w
  <2>13. Len(arrived') = a
    BY <1>2 DEF a
  <2>8. es'.last <= Len(arrived') + Due' + 1 /\ es'.old >= Len(arrived') + Due'
    <3>1. es.last <= a + w + 1 /\ es.input >= a + w
      BY <2>1, <2>11, <2>12
    <3> QED
      BY <1>3, <2>2, <2>13, <3>1 DEF w
  <2>9. /\ m'.vbv + es'.last - Total(m'.queue) = es'.old - Pending(toSend')
        /\ es'.old - Pending(toSend') >= Len(arrived')
    <3>1. es'.old - Pending(toSend') = es.old
      BY <2>1, <2>2, <2>3
    <3> QED
      BY <1>1, <1>3, <2>11, <2>13, <3>1
  <2>10. pc' # "nulls" /\ m'.vbv + Room <= VbvMax /\ m' \in Buffers
    BY <1>1, <1>6, <2>1 DEF Filled
  <2> QED
    BY <2>3, <2>6, <2>8, <2>9, <2>10 DEF Filled, LookAhead
<1>7. Len(d) = Room => Timed(d)
  BY <1>4, RoomAssumption
<1> QED
  BY <1>4, <1>5, <1>6, <1>7

LEMMA FindHeaderFills ==
  ASSUME NEW T, FilesAreSound(T), Loop(T), Loop(T)', Counted, Counted', Filled, VideoPart, FindHeader
  PROVE  Filled'
<1>1. /\ Chain(T) /\ arrived \in Seq(T) /\ arrived' = arrived \o EsOf(PesIn(sent'))
      /\ taken' = (IF Len(look') > Len(look) THEN taken \o EsOf(<<Last(look')>>) ELSE taken)
      /\ pc = "head" /\ pusi \in BOOLEAN /\ data \in Seq(T) /\ look \in Seq(T) /\ Len(data) <= Room
  BY RoomAssumption, SMTT(30) DEF Loop, Accounted, VideoPart, FindHeader, Chain, StreamTypes
<1>2. arrived' = arrived /\ taken' = taken /\ toSend = <<>>
  BY <1>1, FindHeaderMoves, NothingIn, Unsent DEF Chain, Phases
<1>3. CASE ~IsStart
  <2>1. es' = es /\ m' = m /\ toSend' = toSend /\ pc # "nulls" /\ pc' # "nulls"
    BY <1>1, <1>3 DEF FindHeader
  <2> QED
    BY <1>2, <2>1, FilledStays
<1>4. CASE IsStart
  <2> DEFINE k0 == Len(taken)
             a == Len(arrived)
             u == Len(EsOf(data))
             v == Len(EsOf(look))
             q == Total(m.queue)
  <2>1. /\ es.input \in Int /\ es.old \in Int /\ es.last \in Nat /\ m \in Buffers
        /\ m.vbv \in Int /\ q \in Nat
    BY Numbers
  <2>2. Due = 0 /\ Pending(toSend) = 0
    BY <1>2, NothingWaits
  <2>3. k0 = a + Due + u + v /\ a \in Nat /\ u \in Nat /\ v \in Nat
    BY WeighedNow
  <2>4. v <= 1
    <3>1. Len(look) = 2 /\ look[1].kind = "pes"
      BY <1>4 DEF IsStart, LookAhead
    <3>2. v = (IF IsHeader(look[2]) THEN 0 ELSE 1)
      BY <1>1, <3>1, HeaderIsShort, Zenon
    <3> HIDE DEF v
    <3> QED
      BY <3>2
  <2>5. es'.input = k0 /\ es'.last = k0 /\ es.last <= k0
    <3>1. Unfound' = 0 /\ es'.last = es'.input
      BY <1>1, <1>4, FindHeaderCounts DEF FindHeader
    <3>2. es'.input = Len(taken') + Unfound' /\ Len(taken) \in Nat
      BY <2>2, <2>3 DEF Counted
    <3> QED
      BY <1>2, <3>1, <3>2 DEF Counted
  <2>6. /\ es.last <= a + 1 /\ es.old >= a /\ m.vbv + es.last - q = es.old
        /\ m.vbv + Room <= VbvMax /\ Fullness \in (-2)..VbvMax
    <3>1. /\ es.last <= a + Due + 1 /\ es.old >= a + Due
          /\ m.vbv + es.last - q = es.old - Pending(toSend)
          /\ m.vbv + Room <= VbvMax /\ Fullness \in (-2)..VbvMax
      BY <1>1 DEF Filled, LookAhead
    <3> HIDE DEF a, q
    <3> QED
      BY <2>1, <2>2, <2>3, <3>1
  <2>7. m' \in Buffers /\ m'.vbv = m.vbv /\ Total(m'.queue) = q + (k0 - es.last)
    <3> DEFINE n == es'.input
               f == IF n > 0 /\ m.first = 0 THEN m.out ELSE m.first
               r == IF n > 0 THEN Append(m.queue, n - es.last) ELSE m.queue
               d == [m EXCEPT !.frames = TRUE, !.queue = r, !.first = f]
    <3>1. m' = d
      <4>1. es'.input = es.input - HeaderSize
        BY <1>4 DEF FindHeader
      <4>2. m' = [m EXCEPT !.frames = TRUE,
                           !.queue = IF es.input - HeaderSize > 0
                                     THEN Append(@, es.input - HeaderSize - es.last) ELSE @,
                           !.first = IF es.input - HeaderSize > 0 /\ @ = 0 THEN m.out ELSE @]
        BY <1>4 DEF FindHeader
      <4> DEFINE n0 == es.input - HeaderSize
      <4>3. n = n0
        BY <4>1
      <4> HIDE DEF n0
      <4> QED
        BY <4>2, <4>3 DEF n0
    <3>2. /\ m.queue \in Seq(Nat) /\ n \in Nat /\ n - es.last \in Nat
          /\ n = k0 /\ m.first \in Int /\ m.out \in Int
      <4>1. k0 \in Nat
        BY <2>2, <2>3
      <4> HIDE DEF k0
      <4>2. n = k0 /\ es.last <= k0
        BY <2>5
      <4>3. m.queue \in Seq(Nat) /\ m.first \in Int /\ m.out \in Int
        BY <2>1 DEF Buffers
      <4> HIDE DEF n
      <4> QED
        BY <2>1, <4>1, <4>2, <4>3
    <3>3. r \in Seq(Nat) /\ Total(r) = q + (n - es.last)
      <4> HIDE DEF n
      <4>1. CASE n > 0
        <5>1. r = Append(m.queue, n - es.last)
          BY <4>1
        <5> DEFINE e == n - es.last
        <5>2. e \in Nat
          BY <3>2
        <5> HIDE DEF e
        <5>3. Append(m.queue, e) \in Seq(Nat) /\ Total(Append(m.queue, e)) = q + e
          BY <3>2, <5>2, TotalAppend
        <5> QED
          BY <5>1, <5>3 DEF e
      <4>2. CASE ~(n > 0)
        <5>1. n - es.last = 0 /\ r = m.queue
          BY <2>1, <3>2, <4>2
        <5> QED
          BY <2>1, <3>2, <5>1
      <4> QED
        BY <4>1, <4>2
    <3>4. f \in Int
      BY <3>2
    <3> HIDE DEF n, f, r
    <3>7. m' \in Buffers /\ m'.vbv = m.vbv /\ m'.queue = r
      BY <2>1, <3>1, <3>3, <3>4 DEF Buffers
    <3> QED
      BY <3>2, <3>3, <3>7
  <2>8. Len(arrived') = a
    BY <1>2
  <2> HIDE DEF k0, a, u, v, q
  <2>9. k0 \in Nat /\ k0 = a + u + v
    BY <2>2, <2>3
  <2>10. Fullness' = Fullness
    <3>1. Fullness = a - (es.last - q) /\ Fullness' = a - (k0 - (q + (k0 - es.last)))
      BY <2>5, <2>7, <2>8 DEF Fullness, a, q
    <3> QED
      BY <2>1, <2>3, <2>9, <3>1
  <2>11. m'.vbv + es'.last - Total(m'.queue) = es.old
    <3>1. m'.vbv + es'.last - Total(m'.queue) = m.vbv + k0 - (q + (k0 - es.last))
      BY <2>5, <2>7
    <3> QED
      BY <2>1, <2>6, <2>9, <3>1
  <2>12. CASE data = <<>>
    <3>1. es'.old = es.old /\ toSend' = <<>> /\ pc' = "fill"
      BY <1>4, <2>12 DEF FindHeader
    <3>2. Due' = 0 /\ Pending(toSend') = 0
      <4>1. Waits(toSend') = <<>>
        BY <3>1, WaitsNone
      <4>2. EsOf(Waits(toSend')) = <<>>
        BY <4>1, EsEmpty
      <4> QED
        BY <3>1, <4>2, PendingIs DEF Due
    <3>3. u = 0
      <4>1. EsOf(data) = <<>>
        BY <2>12, EsEmpty
      <4> QED
        BY <4>1 DEF u
    <3>4. es'.last <= Len(arrived') + Due' + 1 /\ es'.old >= Len(arrived') + Due'
      BY <2>1, <2>3, <2>4, <2>5, <2>6, <2>8, <2>9, <3>1, <3>2, <3>3
    <3>5. /\ m'.vbv + es'.last - Total(m'.queue) = es'.old - Pending(toSend')
          /\ es'.old - Pending(toSend') >= Len(arrived')
      BY <2>1, <2>6, <2>8, <2>11, <3>1, <3>2
    <3>6. ~(Len(toSend') = 2)
      BY <3>1
    <3> QED
      BY <2>6, <2>7, <2>10, <3>1, <3>4, <3>5, <3>6 DEF Filled, LookAhead
  <2>13. CASE data # <<>>
    <3>1. es'.old = k0 /\ toSend' = Sending(data) /\ pc' = "send"
      <4>1. es'.old = es'.input /\ toSend' = Sending(data) /\ pc' = "send"
        BY <1>4, <2>13 DEF FindHeader
      <4> QED
        BY <2>5, <4>1
    <3>2. Marked(pusi, data) /\ Timed(data)
      <4>1. Marked(pusi, data) /\ Headers
        BY <1>1 DEF Chain, Payloads
      <4>2. look # <<>> /\ look[1].kind = "pes" 
        <5>1. Len(look) = 2 /\ look[1].kind = "pes"
          BY <1>4 DEF IsStart, LookAhead
        <5> QED
          BY <1>1, <5>1, NotEmpty
      <4>3. Len(data) \in Nat /\ Len(data) # 0
        BY <1>1, <2>13, NotEmpty
      <4>4. Timed(data)
        BY <2>13, <4>1, <4>2, <4>3 DEF Headers, Timed
      <4> QED
        BY <4>1, <4>4
    <3>3. /\ Pending(toSend') = k0 - es.old /\ (Len(toSend') = 2 => toSend'[2].es = 1)
          /\ Waits(toSend') = data
      <4>1. es'.input \in Int /\ es'.input = k0
        BY <2>5, <2>9
      <4>2. /\ Pending(Sending(data)) = es'.input - es.old
            /\ Len(Sending(data)) = 2 => Sending(data)[2].es = 1
        BY <1>1, <2>1, <2>13, <3>2, <4>1, SendingPends
      <4>3. Waits(Sending(data)) = data
        BY <1>1, <2>1, <2>13, <3>2, <4>1, SendsAll
      <4> QED
        BY <3>1, <4>1, <4>2, <4>3
    <3>4. Due' = u
      BY <3>3 DEF Due, u
    <3>5. es'.last <= Len(arrived') + Due' + 1 /\ es'.old >= Len(arrived') + Due'
      BY <2>3, <2>4, <2>5, <2>8, <2>9, <3>1, <3>4
    <3>6. /\ m'.vbv + es'.last - Total(m'.queue) = es'.old - Pending(toSend')
          /\ es'.old - Pending(toSend') >= Len(arrived')
      BY <2>1, <2>6, <2>8, <2>9, <2>11, <3>1, <3>3
    <3> QED
      BY <2>6, <2>7, <2>10, <3>1, <3>3, <3>5, <3>6 DEF Filled, LookAhead
  <2> QED
    BY <2>12, <2>13
<1> QED
  BY <1>3, <1>4

\* Null packets bring nothing, and frames leave meanwhile.
LEMMA NullFills ==
  ASSUME NEW T, FilesAreSound(T), Loop(T), Loop(T)', Counted, Filled, VideoPart, Null
  PROVE  Filled'
<1> DEFINE b == [m EXCEPT !.out = @ + 1]
           a == Len(arrived)
           w == Due
<1>1. /\ pc = "nulls" /\ pc' = "nulls" /\ es' = es /\ toSend' = toSend /\ data' = data
      /\ look' = look /\ m' = Controlled(b) /\ Len(look) \in Nat
      /\ taken' = (IF Len(look') > Len(look) THEN taken \o EsOf(<<Last(look')>>) ELSE taken)
  BY Soundness DEF Null, VideoPart, Loop, Chain
<1>2. /\ es.input \in Int /\ es.old \in Int /\ es.last \in Nat /\ m \in Buffers
      /\ m.vbv \in Int /\ Total(m.queue) \in Nat
  BY Numbers
<1>3. b \in Buffers /\ b.queue = m.queue /\ b.vbv = m.vbv
  <2> DEFINE n == m.out + 1
             d == [m EXCEPT !.out = n]
  <2>1. n \in Int /\ b = d
    BY <1>2 DEF Buffers
  <2> HIDE DEF n, b
  <2>2. d \in Buffers /\ d.queue = m.queue /\ d.vbv = m.vbv
    BY <1>2, <2>1 DEF Buffers
  <2> QED
    BY <2>1, <2>2
<1> HIDE DEF b
<1>4. Emptied(b, m')
  BY <1>1, <1>3, ControlledEmpties
<1>5. /\ m' \in Buffers /\ Total(m'.queue) <= Total(m.queue) /\ Total(m'.queue) \in Nat
      /\ m'.vbv \in Int /\ m'.vbv - Total(m'.queue) = m.vbv - Total(m.queue)
  <2>1. m' \in Buffers /\ m'.queue \in Seq(Nat) /\ m'.vbv \in Int
    BY <1>4 DEF Emptied, Buffers
  <2> QED
    BY <1>3, <1>4, <2>1, TotalType DEF Emptied
<1>6. taken' = taken
  <2>1. ~(Len(look') > Len(look))
    BY <1>1
  <2> QED
    BY <1>1, <2>1
<1>7. Due' = w
  BY <1>1 DEF Due
<1>8. Len(arrived') = a /\ a \in Nat /\ w \in Nat
  <2> DEFINE b1 == Len(arrived')
             u == Len(EsOf(data))
             v == Len(EsOf(look))
  <2>1. a + w + u + v = b1 + w + u + v /\ b1 \in Nat
    BY <1>1, <1>6, <1>7, WeighedNow, WeighedNext
  <2>2. a \in Nat /\ w \in Nat /\ u \in Nat /\ v \in Nat
    BY WeighedNow
  <2> HIDE DEF a, w, u, v, b1
  <2>3. b1 = a
    BY <2>1, <2>2
  <2> QED
    BY <2>2, <2>3 DEF b1
<1>9. /\ es.last <= a + w + 1 /\ es.old >= a + w
      /\ m.vbv + es.last - Total(m.queue) = es.old - Pending(toSend)
      /\ \/ es.old - Pending(toSend) >= a
         \/ /\ es.old - Pending(toSend) + 1 >= a
            /\ Len(toSend) = 1 /\ Len(toSend[1].packet.data) = 1
      /\ Len(toSend) = 2 => toSend[2].es = 1
      /\ w <= 1 /\ a - (es.last - Total(m.queue)) \in (-2)..VbvMax
  BY <1>1 DEF Filled, LookAhead, Fullness
<1> HIDE DEF a, w
<1> DEFINE q == Total(m.queue)
           r == Total(m'.queue)
<1>10. a - (es.last - r) \in (-2)..VbvMax
  <2>1. q \in Nat /\ r \in Nat /\ r <= q
    BY <1>2, <1>5
  <2>2. a - (es.last - q) \in (-2)..VbvMax /\ VbvMax \in Nat
    BY <1>9, VideoAssumption
  <2>3. es.last <= a + w + 1 /\ w <= 1
    BY <1>9
  <2> DEFINE l == es.last
             f == a - (l - r)
  <2>4. l \in Nat /\ a \in Nat /\ w \in Nat
    BY <1>2, <1>8
  <2> HIDE DEF q, r, l
  <2>5. a - (l - q) <= VbvMax /\ a - (l - q) \in Int
    BY <2>1, <2>2, <2>4 DEF l
  <2>6. l <= a + 2
    BY <2>3, <2>4 DEF l
  <2>7. f \in Int /\ f <= VbvMax /\ f >= -2
    BY <2>1, <2>2, <2>4, <2>5, <2>6
  <2> QED
    BY <2>2, <2>7 DEF l
<1>11. Fullness' = a - (es.last - r)
  BY <1>1, <1>8 DEF Fullness
<1>12. m'.vbv + es.last - r = es.old - Pending(toSend)
  <2>1. q \in Nat /\ r \in Nat /\ m'.vbv - r = m.vbv - q
        /\ m.vbv + es.last - q = es.old - Pending(toSend)
    BY <1>2, <1>5, <1>9
  <2> HIDE DEF q, r
  <2>2. m'.vbv + es.last - r = m.vbv + es.last - q
    BY <1>2, <1>5, <2>1
  <2> QED
    BY <2>1, <2>2
<1> QED
  BY <1>1, <1>5, <1>7, <1>8, <1>9, <1>10, <1>11, <1>12 DEF Filled, LookAhead

LEMMA GoOnFills ==
  ASSUME NEW T, FilesAreSound(T), Loop(T), Counted, Filled, VideoPart, GoOn
  PROVE  Filled'
<1>1. Chain(T) /\ arrived \in Seq(T) /\ arrived' = arrived \o EsOf(PesIn(sent'))
  BY DEF Loop, Accounted, VideoPart
<1>2. /\ sent' = <<>> /\ m' = m /\ toSend' = toSend /\ es' = es /\ pc = "nulls" /\ pc' # "nulls"
      /\ ~NoRoom(m)
  BY DEF GoOn
<1>3. arrived' = arrived
  BY <1>1, <1>2, NothingIn, Unsent
<1>4. Due' = Due
  BY <1>2 DEF Due
<1>5. Fullness' = Fullness
  BY <1>2, <1>3 DEF Fullness
<1>6. m'.vbv + Room <= VbvMax
  <2>1. m.vbv \in Int
    BY Numbers
  <2> QED
    BY <1>2, <2>1, RoomAssumption, VideoAssumption DEF NoRoom
<1> QED
  BY <1>2, <1>3, <1>4, <1>5, <1>6 DEF Filled, LookAhead

\* The first packet is sent: what is due then, and how much of it that packet has.
LEMMA ShippedIs ==
  ASSUME NEW T, Chain(T), toSend # <<>>
  PROVE  LET x == Head(toSend)
             r == Tail(toSend)
         IN  /\ Len(x.packet.data) <= Room /\ x.es \in Int
             /\ \/ /\ toSend = <<x>> /\ r = <<>> /\ Due <= Len(x.packet.data)
                   /\ Pending(toSend) = x.es
                \/ \E y \in Shipments(T) :
                     /\ toSend = <<x, y>> /\ r = <<y>> /\ Len(toSend) = 2 /\ Len(r) = 1
                     /\ r[1].packet.data = y.packet.data /\ Len(y.packet.data) = 1
                     /\ Len(EsOf(Waits(r))) <= 1 /\ Pending(r) = y.es /\ y.es = toSend[2].es
                     /\ y.es \in Int /\ Pending(toSend) = x.es + y.es
                     /\ Due <= Len(x.packet.data) + Len(EsOf(Waits(r)))
<1> DEFINE x == Head(toSend)
           r == Tail(toSend)
<1>1. /\ x \in Shipments(T)
      /\ \/ toSend = <<x>> /\ r = <<>>
         \/ \E y \in Shipments(T) : Len(y.packet.data) = 1 /\ toSend = <<x, y>> /\ r = <<y>>
  BY Shipped DEF Chain, StreamTypes
<1> HIDE DEF x, r
<1>2. Len(x.packet.data) <= Room /\ x.es \in Int /\ x.packet.data \in Seq(T)
  BY <1>1 DEF Shipments
<1>3. \A s \in Seq(T) : Len(EsOf(s)) <= Len(s) /\ EsOf(s) \in Seq(T) /\ Len(s) \in Nat
  BY EsType
<1>4. CASE toSend = <<x>> /\ r = <<>>
  <2>1. Waits(<<x>>) = x.packet.data /\ Pending(<<x>>) = x.es
    BY <1>1, WaitsOne, PendingIs
  <2>2. Waits(toSend) = x.packet.data /\ Pending(toSend) = x.es
    BY <1>4, <2>1, Zenon
  <2>3. Due <= Len(x.packet.data)
    BY <1>2, <1>3, <2>2 DEF Due
  <2> QED
    BY <1>2, <1>4, <2>2, <2>3 DEF x, r
<1>5. CASE \E y \in Shipments(T) : Len(y.packet.data) = 1 /\ toSend = <<x, y>> /\ r = <<y>>
  <2>1. PICK y \in Shipments(T) : Len(y.packet.data) = 1 /\ toSend = <<x, y>> /\ r = <<y>>
    BY <1>5
  <2>2. y.packet.data \in Seq(T) /\ y.es \in Int
    BY DEF Shipments
  <2>3. /\ Waits(<<y>>) = y.packet.data /\ Waits(<<x, y>>) = x.packet.data \o y.packet.data
        /\ Pending(<<y>>) = y.es /\ Pending(<<x, y>>) = x.es + y.es
    BY <1>1, WaitsOne, WaitsTwo, PendingIs
  <2>4. /\ Waits(r) = y.packet.data /\ Waits(toSend) = x.packet.data \o y.packet.data
        /\ Pending(r) = y.es /\ Pending(toSend) = x.es + y.es
    BY <2>1, <2>3, Zenon
  <2>5. /\ Len(<<x, y>>) = 2 /\ <<x, y>>[2] = y /\ Len(<<y>>) = 1 /\ <<y>>[1] = y
    OBVIOUS
  <2>6. Len(toSend) = 2 /\ toSend[2] = y /\ Len(r) = 1 /\ r[1] = y
    BY <2>1, <2>5, Zenon
  <2> DEFINE a == x.packet.data
             b == y.packet.data
  <2>7. EsOf(Waits(toSend)) = EsOf(a) \o EsOf(b)
    <3>1. EsOf(a \o b) = EsOf(a) \o EsOf(b)
      BY <1>2, <2>2, EsConcat
    <3> QED
      BY <2>4, <3>1
  <2>8. Len(EsOf(b)) <= 1
    <3>1. Len(EsOf(b)) <= Len(b)
      BY <1>3, <2>2
    <3>2. Len(b) = 1
      BY <2>1, Zenon
    <3> QED
      BY <3>1, <3>2, Zenon
  <2>9. Due <= Len(a) + Len(EsOf(b))
    <3> DEFINE u == EsOf(a)
               v == EsOf(b)
    <3>1. u \in Seq(T) /\ v \in Seq(T) /\ Len(u) <= Len(a) /\ Len(a) \in Nat
      BY <1>2, <1>3, <2>2
    <3> HIDE DEF u, v
    <3>2. Len(u \o v) = Len(u) + Len(v) /\ Len(u) \in Nat /\ Len(v) \in Nat
      BY <3>1
    <3>3. Len(u \o v) <= Len(a) + Len(v)
      BY <3>1, <3>2
    <3> QED
      BY <2>7, <3>3 DEF Due, u, v
  <2>10. \E z \in Shipments(T) :
           /\ toSend = <<x, z>> /\ r = <<z>> /\ Len(toSend) = 2 /\ Len(r) = 1
           /\ r[1].packet.data = z.packet.data /\ Len(z.packet.data) = 1
           /\ Len(EsOf(Waits(r))) <= 1 /\ Pending(r) = z.es /\ z.es = toSend[2].es
           /\ z.es \in Int /\ Pending(toSend) = x.es + z.es
           /\ Due <= Len(x.packet.data) + Len(EsOf(Waits(r)))
    <3> WITNESS y \in Shipments(T)
    <3>1. Len(EsOf(Waits(r))) <= 1 /\ Due <= Len(x.packet.data) + Len(EsOf(Waits(r)))
      BY <2>4, <2>8, <2>9, Zenon
    <3>2. r[1].packet.data = y.packet.data /\ y.es = toSend[2].es
      BY <2>6, Zenon
    <3> QED
      BY <2>1, <2>2, <2>4, <2>6, <3>1, <3>2, Zenon
  <2> QED
    BY <1>2, <2>10 DEF x, r
<1> QED
  BY <1>1, <1>4, <1>5

LEMMA SendFills ==
  ASSUME NEW T, FilesAreSound(T), Loop(T), Loop(T)', Counted, Filled, VideoPart, Send
  PROVE  Filled'
<1> DEFINE x == Head(toSend)
           b == [m EXCEPT !.out = @ + 1, !.vbv = @ + x.es]
           a == Len(arrived)
           a2 == Len(arrived')
           w == Due
           w2 == Due'
           o == es.old
           l == es.last
           p == Pending(toSend)
           p2 == Pending(toSend')
           q == Total(m.queue)
           q2 == Total(m'.queue)
           f == m.vbv
           f2 == m'.vbv
           n == Len(x.packet.data)
<1>1. /\ pc = "send" /\ pc' = "nulls" /\ es' = es /\ toSend' = Tail(toSend) /\ data' = data
      /\ look' = look /\ m' = Controlled(b) /\ Len(look) \in Nat /\ toSend # <<>> /\ Chain(T)
      /\ taken' = (IF Len(look') > Len(look) THEN taken \o EsOf(<<Last(look')>>) ELSE taken)
  BY Soundness DEF Send, VideoPart, Loop, Chain, Phases
<1>2. o \in Int /\ l \in Nat /\ m \in Buffers /\ f \in Int /\ q \in Nat /\ p \in Int
  BY Numbers
<1>3. /\ n <= Room /\ x.es \in Int
      /\ \/ /\ toSend = <<x>> /\ toSend' = <<>> /\ w <= n /\ p = x.es
         \/ \E y \in Shipments(T) :
              /\ Len(toSend) = 2 /\ Len(toSend') = 1 /\ Len(toSend'[1].packet.data) = 1
              /\ Len(EsOf(Waits(toSend'))) <= 1 /\ p2 = y.es /\ y.es = toSend[2].es
              /\ y.es \in Int /\ p = x.es + y.es
              /\ w <= n + Len(EsOf(Waits(toSend')))
  BY <1>1, ShippedIs
<1>4. w2 = Len(EsOf(Waits(toSend')))
  BY DEF Due
<1> HIDE DEF x
<1>5. b \in Buffers /\ b.queue = m.queue /\ b.vbv = f + x.es
  <2> DEFINE i == m.out + 1
             j == m.vbv + x.es
             d == [m EXCEPT !.out = i, !.vbv = j]
  <2>1. i \in Int /\ j \in Int /\ b = d
    BY <1>2, <1>3 DEF Buffers
  <2>2. j = f + x.es
    OBVIOUS
  <2> HIDE DEF i, j, b
  <2>3. d \in Buffers /\ d.queue = m.queue /\ d.vbv = j
    BY <1>2, <2>1 DEF Buffers
  <2> QED
    BY <2>1, <2>2, <2>3
<1> HIDE DEF b
<1>6. Emptied(b, m')
  BY <1>1, <1>5, ControlledEmpties
<1>7. m' \in Buffers /\ q2 <= q /\ q2 \in Nat /\ f2 \in Int /\ f2 - q2 = (f + x.es) - q
  <2>1. m' \in Buffers /\ m'.queue \in Seq(Nat) /\ m'.vbv \in Int
    BY <1>6 DEF Emptied, Buffers
  <2>2. Total(m'.queue) \in Nat
    BY <2>1, TotalType
  <2>3. Total(m'.queue) <= Total(b.queue) /\ m'.vbv - Total(m'.queue) = b.vbv - Total(b.queue)
    BY <1>6 DEF Emptied
  <2>4. Total(b.queue) = q /\ b.vbv = f + x.es
    BY <1>5
  <2>5. Total(m'.queue) <= q /\ m'.vbv - Total(m'.queue) = (f + x.es) - q
    BY <2>3, <2>4, Zenon
  <2> QED
    BY <2>1, <2>2, <2>5, Zenon
<1>8. a2 + w2 = a + w /\ a \in Nat /\ a2 \in Nat /\ w \in Nat /\ w2 \in Nat
  <2> DEFINE u == Len(EsOf(data))
             v == Len(EsOf(look))
  <2>1. taken' = taken
    <3>1. ~(Len(look') > Len(look))
      BY <1>1
    <3> QED
      BY <1>1, <3>1
  <2>2. a + w + u + v = a2 + w2 + u + v /\ a2 \in Nat /\ w2 \in Nat
    BY <1>1, <2>1, WeighedNow, WeighedNext
  <2>3. a \in Nat /\ w \in Nat /\ u \in Nat /\ v \in Nat
    BY WeighedNow
  <2> HIDE DEF a, w, u, v, a2, w2
  <2> QED
    BY <2>2, <2>3
<1>9. /\ l <= a + w + 1 /\ o >= a + w /\ f + l - q = o - p
      /\ (o - p >= a \/ (o - p + 1 >= a /\ Len(toSend) = 1 /\ Len(toSend[1].packet.data) = 1))
      /\ (Len(toSend) = 2 => toSend[2].es = 1)
      /\ f + Room <= VbvMax
  BY <1>1 DEF Filled
<1>10. Room \in Nat /\ Room > 3 /\ VbvMax \in Nat
  BY RoomAssumption, VideoAssumption
<1>11. Fullness' = a2 - (l - q2)
  BY <1>1 DEF Fullness
\* What was sent, and what is left.
<1>12. /\ w2 <= 1 /\ p2 \in Int /\ p2 = p - x.es /\ a2 <= a + n
       /\ \/ toSend' = <<>> /\ w2 = 0 /\ p2 = 0 /\ toSend = <<x>>
          \/ Len(toSend) = 2 /\ p2 = 1 /\ Len(toSend') = 1 /\ Len(toSend'[1].packet.data) = 1
  <2>1. n \in Nat
    <3>1. x.packet.data \in Seq(T)
      <4>1. x \in Shipments(T)
        BY <1>1, Shipped DEF Chain, StreamTypes, x
      <4> QED
        BY <4>1 DEF Shipments
    <3> QED
      BY <3>1
  <2>2. CASE toSend = <<x>> /\ toSend' = <<>> /\ w <= n /\ p = x.es
    <3>1. w2 = 0 /\ p2 = 0
      <4>1. Waits(toSend') = <<>>
        BY <2>2, WaitsNone
      <4>2. EsOf(Waits(toSend')) = <<>>
        BY <4>1, EsEmpty
      <4> QED
        BY <1>4, <2>2, <4>2, PendingIs
    <3> HIDE DEF a, a2, w, w2, p, p2, n
    <3>2. w2 <= 1 /\ p2 \in Int /\ p2 = p - x.es /\ a2 <= a + n
      BY <1>2, <1>3, <1>8, <2>1, <2>2, <3>1
    <3> QED
      BY <2>2, <3>1, <3>2
  <2>3. ASSUME NEW y \in Shipments(T),
               Len(toSend) = 2, Len(toSend') = 1, Len(toSend'[1].packet.data) = 1,
               Len(EsOf(Waits(toSend'))) <= 1, p2 = y.es, y.es = toSend[2].es,
               y.es \in Int, p = x.es + y.es, w <= n + Len(EsOf(Waits(toSend')))
        PROVE  /\ w2 <= 1 /\ p2 \in Int /\ p2 = p - x.es /\ a2 <= a + n
               /\ Len(toSend) = 2 /\ p2 = 1 /\ Len(toSend') = 1 /\ Len(toSend'[1].packet.data) = 1
    <3>1. w2 <= 1 /\ w <= n + w2
      BY <1>4, <2>3, Zenon
    <3>2. p2 = 1
      BY <1>9, <2>3, Zenon
    <3>3. p2 = y.es /\ p = x.es + y.es /\ y.es \in Int
      BY <2>3, Zenon
    <3> HIDE DEF a, a2, w, w2, p, p2, n
    <3>4. p2 \in Int /\ p2 = p - x.es
      BY <1>3, <3>3
    <3>5. a2 <= a + n
      BY <1>8, <2>1, <3>1
    <3> QED
      BY <2>3, <3>1, <3>2, <3>4, <3>5, Zenon
  <2> QED
    BY <1>3, <2>2, <2>3
\* A packet of one byte makes good for the one that is not counted.
<1>13. a2 <= o - p + Room
  <2>1. n \in Int
    <3>1. x.packet.data \in Seq(T)
      <4>1. x \in Shipments(T)
        BY <1>1, Shipped DEF Chain, StreamTypes, x
      <4> QED
        BY <4>1 DEF Shipments
    <3> QED
      BY <3>1
  <2>2. CASE o - p >= a
    <3> HIDE DEF a, a2, o, p, n
    <3> QED
      BY <1>2, <1>3, <1>8, <1>10, <1>12, <2>1, <2>2
  <2>3. CASE o - p + 1 >= a /\ Len(toSend) = 1 /\ Len(toSend[1].packet.data) = 1
    <3>1. n = 1
      <4>1. x = toSend[1]
        <5>1. toSend \in Seq(Shipments(T))
          <6>1. Shipping(T)
            BY <1>1 DEF Chain, StreamTypes
          <6>2. <<>> \in Seq(Shipments(T))
            OBVIOUS
          <6>3. \A s, t \in Shipments(T) : <<s>> \in Seq(Shipments(T)) /\ <<s, t>> \in Seq(Shipments(T))
            OBVIOUS
          <6> QED
            BY <6>1, <6>2, <6>3, Zenon DEF Shipping
        <5> QED
          BY <1>1, <5>1, HeadTailProperties DEF x
      <4> QED
        BY <2>3, <4>1, Zenon
    <3> HIDE DEF a, a2, o, p, n
    <3>2. o - p + 1 >= a
      BY <2>3
    <3> QED
      BY <1>2, <1>8, <1>10, <1>12, <3>1, <3>2
  <2> QED
    BY <1>9, <2>2, <2>3
<1> HIDE DEF a, a2, w, w2, o, l, p, p2, q, q2, f, f2, n
<1>14. l <= a2 + w2 + 1 /\ o >= a2 + w2 /\ f2 + l - q2 = o - p2
  <2>1. l <= a + w + 1 /\ o >= a + w /\ f + l - q = o - p
    BY <1>9
  <2>2. p2 \in Int /\ p2 = p - x.es
    BY <1>12
  <2>3. f2 \in Int /\ q2 \in Nat /\ f2 - q2 = (f + x.es) - q
    BY <1>7
  <2>4. x.es \in Int
    BY <1>3
  <2> DEFINE e == x.es
  <2> HIDE DEF e
  <2>5. f2 + l - q2 = o - p2
    <3>1. f2 - q2 = (f + e) - q /\ e \in Int /\ p2 = p - e
      BY <2>2, <2>3, <2>4 DEF e
    <3> QED
      BY <1>2, <2>1, <2>2, <2>3, <3>1
  <2> QED
    BY <1>2, <1>8, <2>1, <2>5
<1>15. a2 - (l - q2) \in (-2)..VbvMax
  <2>1. a2 - (l - q2) >= -2
    BY <1>2, <1>7, <1>8, <1>12, <1>14
  <2>2. a2 - (l - q2) <= VbvMax
    <3>1. q - l = f - o + p
      BY <1>2, <1>9
    <3>2. a2 - (l - q2) <= a2 + q - l
      BY <1>2, <1>7, <1>8
    <3> QED
      BY <1>2, <1>7, <1>8, <1>9, <1>10, <1>13, <3>1, <3>2
  <2> QED
    BY <1>2, <1>7, <1>8, <1>10, <2>1, <2>2
<1>16. \/ o - p2 >= a2
       \/ o - p2 + 1 >= a2 /\ Len(toSend') = 1 /\ Len(toSend'[1].packet.data) = 1
  <2>1. CASE toSend' = <<>> /\ p2 = 0
    BY <1>2, <1>8, <1>14, <2>1
  <2>2. CASE p2 = 1 /\ Len(toSend') = 1 /\ Len(toSend'[1].packet.data) = 1
    <3>1. p2 = 1
      BY <2>2
    <3>2. o - p2 + 1 >= a2
      BY <1>2, <1>8, <1>14, <3>1
    <3> QED
      BY <2>2, <3>2, Zenon
  <2> QED
    BY <1>12, <2>1, <2>2
<1>17. ~(Len(toSend') = 2)
  <2>1. CASE toSend' = <<>>
    BY <2>1
  <2>2. CASE Len(toSend') = 1
    BY <2>2
  <2> QED
    BY <1>12, <2>1, <2>2, Zenon
<1> QED
  BY <1>1, <1>7, <1>11, <1>12, <1>14, <1>15, <1>16, <1>17
  DEF Filled, LookAhead, a2, w2, o, l, p2, q2, f2

LEMMA VideoFills ==
  ASSUME NEW T, FilesAreSound(T), Loop(T), Loop(T)', Counted, Counted', Filled, VideoPart
  PROVE  Filled'
<1>1. CASE Look \/ NextFile \/ Reopen
  BY <1>1, ReadFills
<1>2. CASE FindHeader
  BY <1>2, FindHeaderFills
<1>3. CASE Fill
  BY <1>3, FillFills
<1>4. CASE Send
  BY <1>4, SendFills
<1>5. CASE Null
  BY <1>5, NullFills
<1>6. CASE GoOn
  BY <1>6, GoOnFills
<1> QED
  BY <1>1, <1>2, <1>3, <1>4, <1>5, <1>6 DEF VideoPart, VideoNext

LEMMA BufferStarts ==
  ASSUME NEW T, FilesAreSound(T), Init
  PROVE  Counted /\ Filled
<1>1. Chain(T)
  BY StreamStarts
<1>2. /\ look = SubSeq(files[1].pes, 1, 2) /\ toSend = <<>>
      /\ es = [input |-> 2, old |-> 0, last |-> 0] /\ pc = "head"
      /\ m = [out |-> 1, old_pcr |-> 0, frames |-> FALSE, first |-> 0, popped |-> 0,
              queue |-> <<>>, vbv |-> 0]
      /\ taken = EsOf(look) /\ arrived = <<>>
  BY DEF Init, VideoInit, LookAhead
<1> DEFINE p == files[1].pes
<1>3. SoundFile(T, p) /\ look \in Seq(T)
  BY <1>1 DEF Chain, StreamTypes
<1>4. p \in Seq(T) /\ Len(p) >= 2 /\ Len(p) \in Nat /\ p[1].kind = "pes" /\ Follows(p[1], p[2])
  <2>1. p \in Seq(T) /\ Len(p) >= 2 /\ Len(p) \in Nat /\ p[1].kind = "pes"
    BY <1>3 DEF SoundFile
  <2>2. 1 \in 1..(Len(p) - 1) /\ 1 + 1 = 2
    BY <2>1
  <2>3. Follows(p[1], p[1 + 1])
    BY <1>3, <2>2 DEF SoundFile
  <2> QED
    BY <2>1, <2>2, <2>3, Zenon
<1>5. Len(look) = 2 /\ look[1] = p[1] /\ look[2] = p[2] /\ look # <<>>
  BY <1>2, <1>4
<1>6. Due = 0 /\ Pending(toSend) = 0
  BY <1>2, NothingWaits
<1>7. Total(m.queue) = 0
  BY <1>2, TotalEmpty
<1>8. es.input = Len(taken) + Unfound /\ Len(taken) = (IF IsHeader(p[2]) THEN 0 ELSE 1)
  <2>1. Len(EsOf(look)) = (IF IsHeader(look[2]) THEN 0 ELSE 1)
    <3>1. look[1].kind = "pes"
      BY <1>4, <1>5, Zenon
    <3> QED
      BY <1>3, <1>5, <3>1, HeaderIsShort, Zenon
  <2>2. Unfound = (IF p[1].both THEN 2 ELSE 1)
    <3>1. ~Found
      BY <1>2 DEF Found
    <3> QED
      BY <1>4, <1>5, <3>1 DEF Unfound
  <2>3. p[1].both <=> IsHeader(p[2])
    BY <1>4 DEF Follows, Both, IsHeader
  <2>4. es.input = 2
    BY <1>2
  <2>5. Len(taken) = (IF IsHeader(p[2]) THEN 0 ELSE 1)
    BY <1>2, <1>5, <2>1, Zenon
  <2> HIDE DEF p
  <2> QED
    BY <2>2, <2>3, <2>4, <2>5
<1>9. Counted
  <2>1. es.last = 0
    BY <1>2
  <2> QED
    BY <1>8, <2>1 DEF Counted
<1>10. Len(arrived) = 0
  BY <1>2
<1>11. Fullness = 0
  <2>1. es.last = 0
    BY <1>2
  <2> QED
    BY <1>7, <1>10, <2>1 DEF Fullness
<1>12. Filled
  <2>1. m \in Buffers
    BY <1>2 DEF Buffers
  <2>2. es.last = 0 /\ es.old = 0 /\ m.vbv = 0 /\ pc # "nulls" /\ ~(Len(toSend) = 2)
    BY <1>2
  <2> QED
    BY <1>6, <1>7, <1>10, <1>11, <2>1, <2>2, RoomAssumption, VideoAssumption
    DEF Filled, LookAhead
<1> QED
  BY <1>9, <1>12

\* The buffer of a receiver holds what pesvideo2ts sends it, whatever the sizes of the frames:
\* what is sent and not taken yet has at most vbv_max bytes, and a frame is not taken before
\* it is there, but for its last byte, and the one that comes with a short header.
THEOREM TheBufferHolds == Spec => []ReceiverBufferHolds
<1>0. FilesAreSound(Tokens)
  BY AllSound
<1>1. Init => Loop(Tokens) /\ Counted /\ Filled
  BY <1>0, StreamStarts, AccountsStart, BufferStarts DEF Loop
<1>2. Loop(Tokens) /\ Counted /\ Filled /\ [Next]_vars => (Loop(Tokens) /\ Counted /\ Filled)'
  <2> SUFFICES ASSUME Loop(Tokens), Counted, Filled, [Next]_vars
               PROVE  (Loop(Tokens) /\ Counted /\ Filled)'
    OBVIOUS
  <2>1. Loop(Tokens)'
    BY <1>0, LoopGoesOn
  <2>2. CASE VideoPart
    BY <1>0, <2>1, <2>2, VideoCounts, VideoFills
  <2>3. CASE UNCHANGED <<videoVars, taken, arrived>>
    <3>1. Counted'
      BY <2>3 DEF Counted, Unfound, Found, IsStart, videoVars
    <3>2. Due' = Due /\ Fullness' = Fullness
      BY <2>3 DEF Due, Fullness, videoVars
    <3>3. Filled'
      BY <2>3, <3>2 DEF Filled, LookAhead, videoVars
    <3> QED
      BY <2>1, <3>1, <3>3
  <2> QED
    BY <2>2, <2>3 DEF Next, AudioPart, vars
<1>3. Filled => ReceiverBufferHolds
  BY DEF Filled, ReceiverBufferHolds
<1> QED
  BY <1>1, <1>2, <1>3, PTL DEF Spec

-----------------------------------------------------------------------------
(* pesdata2ts.                                                                *)

\* The sequences in a sequence, one after the other.
LEMMA FlattenIs ==
  ASSUME NEW T, NEW s \in Seq(Seq(T))
  PROVE  \E f \in [0..Len(s) -> Seq(T)] :
           /\ f[0] = <<>> /\ \A i \in 1..Len(s) : f[i] = f[i - 1] \o s[i]
           /\ FlattenSeq(s) = f[Len(s)]
<1> DEFINE n == Len(s)
           S == Seq(T)
           b == <<>>
           g == [v \in S |-> [i \in 1..n |-> v \o s[i]]]
           P(f) == f = [i \in 1..n |-> IF i = 1 THEN s[i] ELSE f[i - 1] \o s[i]]
           e == CHOOSE f : P(f)
<1>1. n \in Nat /\ (\A i \in 1..n : s[i] \in S) /\ b \in S
  OBVIOUS
<1>2. ASSUME NEW v \in S, NEW w \in S PROVE v \o w \in S
  OBVIOUS
<1> HIDE DEF S, n, b, P, e
<1>3. g \in [S -> [1..n -> S]]
  BY <1>1, <1>2
<1>4. \A v \in S, i \in 1..n : g[v][i] = v \o s[i]
  OBVIOUS
<1> HIDE DEF g
<1>5. Unfolds(S, b, n, g)
  BY <1>1, <1>3, Recursion
<1>6. PICK f \in [0..n -> S] : f[0] = b /\ \A i \in 1..n : f[i] = g[f[i - 1]][i]
  BY <1>5, Zenon DEF Unfolds
<1>7. ASSUME NEW i \in 1..n PROVE f[i] = f[i - 1] \o s[i]
  <2>1. f[i - 1] \in S
    BY <1>1, <1>6
  <2> QED
    BY <1>4, <1>6, <2>1
<1>8. CASE n = 0
  <2>1. s = <<>>
    BY <1>8 DEF n
  <2>2. FlattenSeq(s) = <<>>
    BY <2>1 DEF FlattenSeq
  <2>3. FlattenSeq(s) = f[n]
    BY <1>6, <1>8, <2>2 DEF b
  <2> QED
    BY <1>6, <1>7, <2>3 DEF S, n, b
<1>9. CASE n # 0
  <2> DEFINE h == [i \in 1..n |-> f[i]]
  <2>1. P(h)
    <3>1. ASSUME NEW i \in 1..n PROVE h[i] = IF i = 1 THEN s[i] ELSE h[i - 1] \o s[i]
      <4>1. CASE i = 1
        <5>0. 1 \in 1..n /\ 1 - 1 = 0
          BY <1>1, <4>1
        <5>1. f[1] = f[0] \o s[1]
          BY <1>7, <5>0
        <5>2. f[0] \o s[1] = s[1]
          <6>1. s[1] \in S /\ f[0] = <<>>
            BY <1>1, <1>6, <4>1 DEF b
          <6>2. \A z \in S : <<>> \o z = z
            BY DEF S
          <6> QED
            BY <6>1, <6>2
        <5> QED
          BY <4>1, <5>1, <5>2
      <4>2. CASE i # 1
        <5>1. i - 1 \in 1..n
          BY <1>1, <4>2
        <5> QED
          BY <1>7, <4>2, <5>1
      <4> QED
        BY <4>1, <4>2
    <3>2. h = [i \in 1..n |-> h[i]]
      OBVIOUS
    <3> HIDE DEF h
    <3> QED
      BY <3>1, <3>2 DEF P
  <2>2. P(e)
    BY <2>1, Zenon DEF e
  <2>3. \A i \in 1..n : e[i] = IF i = 1 THEN s[i] ELSE e[i - 1] \o s[i]
    <3> DEFINE q == [i \in 1..n |-> IF i = 1 THEN s[i] ELSE e[i - 1] \o s[i]]
    <3>1. e = q
      BY <2>2 DEF P
    <3>2. \A i \in 1..n : q[i] = IF i = 1 THEN s[i] ELSE e[i - 1] \o s[i]
      OBVIOUS
    <3> HIDE DEF q
    <3> QED
      BY <3>1, <3>2
  <2>4. \A i \in 1..n : h[i] = IF i = 1 THEN s[i] ELSE h[i - 1] \o s[i]
    <3> DEFINE q == [i \in 1..n |-> IF i = 1 THEN s[i] ELSE h[i - 1] \o s[i]]
    <3>1. h = q
      BY <2>1 DEF P
    <3>2. \A i \in 1..n : q[i] = IF i = 1 THEN s[i] ELSE h[i - 1] \o s[i]
      OBVIOUS
    <3> HIDE DEF q, h
    <3> QED
      BY <3>1, <3>2
  <2>5. h[n] = f[n]
    BY <1>1, <1>9
  <2> HIDE DEF h
  <2> DEFINE M == {i \in Nat : i < n => e[i + 1] = h[i + 1]}
  <2>6. 0 \in M
    <3>1. 1 \in 1..n
      BY <1>1, <1>9
    <3>2. e[1] = s[1] /\ h[1] = s[1]
      BY <2>3, <2>4, <3>1
    <3> QED
      BY <3>2
  <2>7. ASSUME NEW i \in Nat, i \in M PROVE i + 1 \in M
    <3> SUFFICES ASSUME i + 1 < n PROVE e[(i + 1) + 1] = h[(i + 1) + 1]
      OBVIOUS
    <3>1. e[i + 1] = h[i + 1] /\ (i + 1) + 1 \in 1..n /\ (i + 1) + 1 # 1 /\ ((i + 1) + 1) - 1 = i + 1
      BY <1>1, <2>7
    <3> HIDE DEF M
    <3>2. e[(i + 1) + 1] = e[i + 1] \o s[(i + 1) + 1]
      BY <2>3, <3>1
    <3>3. h[(i + 1) + 1] = h[i + 1] \o s[(i + 1) + 1]
      BY <2>4, <3>1
    <3> QED
      BY <3>1, <3>2, <3>3
  <2> HIDE DEF M
  <2>8. \A i \in Nat : i \in M
    BY <2>6, <2>7, Counting
  <2>9. n - 1 \in Nat /\ n - 1 < n /\ (n - 1) + 1 = n
    BY <1>1, <1>9
  <2>10. e[n] = h[n]
    BY <2>8, <2>9 DEF M
  <2>11. FlattenSeq(s) = e[n]
    BY <1>9, Zenon DEF FlattenSeq, n, e, P
  <2>12. FlattenSeq(s) = f[n]
    BY <2>5, <2>10, <2>11
  <2> QED
    BY <1>6, <1>7, <2>12 DEF S, n, b
<1> QED
  BY <1>8, <1>9

LEMMA FlattenAppend ==
  ASSUME NEW T, NEW s \in Seq(Seq(T)), NEW x \in Seq(T)
  PROVE  FlattenSeq(Append(s, x)) = FlattenSeq(s) \o x /\ FlattenSeq(s) \in Seq(T)
<1> DEFINE t == Append(s, x)
           n == Len(s)
<1>1. /\ t \in Seq(Seq(T)) /\ Len(t) = n + 1 /\ t[n + 1] = x /\ n \in Nat
      /\ \A i \in 1..n : t[i] = s[i]
  OBVIOUS
<1>2. PICK f \in [0..n -> Seq(T)] :
        /\ f[0] = <<>> /\ \A i \in 1..n : f[i] = f[i - 1] \o s[i]
        /\ FlattenSeq(s) = f[n]
  BY FlattenIs
<1> HIDE DEF t
<1>3. PICK h \in [0..Len(t) -> Seq(T)] :
        /\ h[0] = <<>> /\ \A i \in 1..Len(t) : h[i] = h[i - 1] \o t[i]
        /\ FlattenSeq(t) = h[Len(t)]
  BY <1>1, FlattenIs
<1> HIDE DEF n
<1> DEFINE M == {i \in Nat : i <= n => f[i] = h[i]}
<1>4. 0 \in M
  BY <1>2, <1>3
<1>5. ASSUME NEW i \in Nat, i \in M PROVE i + 1 \in M
  <2> SUFFICES ASSUME i + 1 <= n PROVE f[i + 1] = h[i + 1]
    OBVIOUS
  <2>1. f[i] = h[i] /\ i + 1 \in 1..n /\ i + 1 \in 1..Len(t) /\ (i + 1) - 1 = i
    BY <1>1, <1>5
  <2> HIDE DEF M
  <2>2. f[i + 1] = f[i] \o s[i + 1] /\ h[i + 1] = h[i] \o t[i + 1] /\ t[i + 1] = s[i + 1]
    BY <1>1, <1>2, <1>3, <2>1
  <2> QED
    BY <2>1, <2>2
<1> HIDE DEF M
<1>6. \A i \in Nat : i \in M
  BY <1>4, <1>5, Counting
<1>7. f[n] = h[n]
  BY <1>1, <1>6 DEF M
<1>8. n + 1 \in 1..Len(t) /\ (n + 1) - 1 = n
  <2>1. n + 1 \in 1..(n + 1) /\ (n + 1) - 1 = n
    BY <1>1
  <2> QED
    BY <1>1, <2>1, Zenon
<1>9. h[n + 1] = h[n] \o t[n + 1]
  BY <1>3, <1>8
<1>10. f[n] \in Seq(T)
  BY <1>1, <1>2
<1> QED
  BY <1>1, <1>2, <1>3, <1>7, <1>9, <1>10 DEF t

\* The packets of pesdata2ts.
DataPackets == [pusi : BOOLEAN, adapt : {1, 3}, data : Seq(Tokens)]

LEMMA PesInAppend ==
  ASSUME NEW s \in Seq(DataPackets), NEW p \in DataPackets
  PROVE  PesIn(Append(s, p)) = PesIn(s) \o p.data /\ PesIn(s) \in Seq(Tokens)
<1> DEFINE t == Append(s, p)
           n == Len(s)
           a == [j \in DOMAIN s |-> Payload(s[j])]
           b == [j \in DOMAIN t |-> Payload(t[j])]
<1>1. /\ t \in Seq(DataPackets) /\ Len(t) = n + 1 /\ t[n + 1] = p /\ n \in Nat
      /\ \A i \in 1..n : t[i] = s[i] /\ s[i] \in DataPackets
      /\ DOMAIN s = 1..n /\ DOMAIN t = 1..(n + 1)
  OBVIOUS
<1>2. ASSUME NEW q \in DataPackets PROVE Payload(q) = q.data /\ q.data \in Seq(Tokens)
  BY DEF Payload, DataPackets
<1>3. PesIn(s) = FlattenSeq(a) /\ PesIn(t) = FlattenSeq(b)
  BY Zenon DEF PesIn, Payload
<1> HIDE DEF t, n
<1>4. a \in Seq(Seq(Tokens)) /\ Len(a) = n
  BY <1>1, <1>2
<1>5. /\ DOMAIN a = 1..n /\ (\A i \in 1..n : a[i] = Payload(s[i]))
      /\ DOMAIN b = 1..(n + 1) /\ (\A i \in 1..(n + 1) : b[i] = Payload(t[i]))
      /\ b = [i \in 1..(n + 1) |-> b[i]]
  BY <1>1
<1>6. p.data \in Seq(Tokens) /\ Payload(p) = p.data
  BY <1>2
<1> HIDE DEF a, b
<1>7. b = Append(a, p.data)
  <2> DEFINE c0 == Append(a, p.data)
  <2>1. /\ c0 = [i \in 1..(n + 1) |-> c0[i]] /\ c0[n + 1] = p.data
        /\ \A i \in 1..n : c0[i] = a[i]
    BY <1>1, <1>4, <1>6
  <2> HIDE DEF c0
  <2>2. ASSUME NEW i \in 1..(n + 1) PROVE b[i] = c0[i]
    <3>1. CASE i \in 1..n
      BY <1>1, <1>5, <2>1, <3>1, ZenonT(60)
    <3>2. CASE i = n + 1
      <4>1. b[n + 1] = Payload(t[n + 1])
        BY <1>1, <1>5
      <4> QED
        BY <1>1, <1>6, <2>1, <3>2, <4>1
    <3> QED
      BY <1>1, <3>1, <3>2
  <2> QED
    BY <1>5, <2>1, <2>2 DEF c0
<1> QED
  BY <1>3, <1>4, <1>6, <1>7, FlattenAppend DEF t

LEMMA JoinIs ==
  \A o, r \in Seq(Tokens) :
    /\ o \o r \in Seq(Tokens) /\ Len(o \o r) = Len(o) + Len(r) /\ o \o <<>> = o
    /\ \A i \in 1..Len(o) : (o \o r)[i] = o[i]
    /\ \A i \in 1..Len(r) : (o \o r)[Len(o) + i] = r[i]
OBVIOUS

LEMMA LongerIs ==
  \A o \in Seq(Tokens), t \in Tokens :
    /\ Append(o, t) \in Seq(Tokens) /\ Len(Append(o, t)) = Len(o) + 1 /\ Append(o, t) # <<>>
    /\ Append(<<>>, t) = <<t>>
<1>1. ASSUME NEW o \in Seq(Tokens), NEW t \in Tokens
      PROVE  Append(o, t) \in Seq(Tokens) /\ Len(Append(o, t)) = Len(o) + 1 /\ Append(o, t) # <<>>
  <2>1. Append(o, t) \in Seq(Tokens) /\ Len(Append(o, t)) = Len(o) + 1 /\ Len(o) \in Nat
    OBVIOUS
  <2> DEFINE q == Append(o, t)
  <2> HIDE DEF q
  <2>2. q # <<>>
    BY <2>1 DEF q
  <2> QED
    BY <2>1, <2>2 DEF q
<1>2. ASSUME NEW t \in Tokens PROVE Append(<<>>, t) = <<t>>
  OBVIOUS
<1> QED
  BY <1>1, <1>2

\* Marks, packet by packet.
LEMMA MarksAre ==
  ASSUME NEW s
  PROVE  StartsAreMarked(s) <=> \A j \in DOMAIN s : Marked(s[j].pusi, s[j].data)
BY Zenon DEF StartsAreMarked, Marked

LEMMA MarksAppend ==
  ASSUME NEW s \in Seq(DataPackets), NEW p \in DataPackets, StartsAreMarked(s),
         Marked(p.pusi, p.data)
  PROVE  /\ Append(s, p) \in Seq(DataPackets) /\ StartsAreMarked(Append(s, p))
         /\ PesIn(Append(s, p)) = PesIn(s) \o p.data
<1> DEFINE t == Append(s, p)
           n == Len(s)
<1>1. /\ t \in Seq(DataPackets) /\ t[n + 1] = p /\ n \in Nat
      /\ \A i \in 1..n : t[i] = s[i]
      /\ DOMAIN s = 1..n /\ DOMAIN t = 1..(n + 1)
  OBVIOUS
<1>2. \A j \in 1..n : Marked(s[j].pusi, s[j].data)
  BY <1>1, MarksAre
<1> HIDE DEF t, n
<1>3. ASSUME NEW j \in 1..(n + 1) PROVE Marked(t[j].pusi, t[j].data)
  <2>1. CASE j \in 1..n
    BY <1>1, <1>2, <2>1
  <2>2. CASE j = n + 1
    <3>1. t[j] = p
      BY <1>1, <2>2
    <3> QED
      BY <3>1
  <2> QED
    BY <1>1, <2>1, <2>2
<1>4. StartsAreMarked(t)
  BY <1>1, <1>3, MarksAre
<1> QED
  BY <1>1, <1>4, PesInAppend DEF t

\* What send_current_packet writes has what was in the packet.
LEMMA PacketsKeep ==
  ASSUME NEW s \in Seq(DataPackets), StartsAreMarked(s), NEW unit \in BOOLEAN,
         NEW d \in Seq(Tokens), d # <<>>, Len(d) <= Room, Marked(unit, d)
  PROVE  LET q == s \o Packets(unit, d)
         IN  q \in Seq(DataPackets) /\ StartsAreMarked(q) /\ PesIn(q) = PesIn(s) \o d
<1>1. ASSUME NEW p, s \o <<p>> = Append(s, p) PROVE TRUE
  OBVIOUS
<1>2. ASSUME NEW p \in DataPackets PROVE s \o <<p>> = Append(s, p)
  OBVIOUS
<1>3. ASSUME NEW x \in {1, 3}
      PROVE  LET p == TsPacket(unit, x, d)
             IN  p \in DataPackets /\ p.pusi = unit /\ p.data = d
  BY DEF TsPacket, DataPackets
<1>4. CASE Len(d) # Room - 1
  <2>1. PICK x \in {1, 3} : Packets(unit, d) = <<TsPacket(unit, x, d)>>
    BY <1>4 DEF Packets
  <2> DEFINE p == TsPacket(unit, x, d)
  <2>2. p \in DataPackets /\ p.pusi = unit /\ p.data = d
    BY <1>3
  <2>3. Packets(unit, d) = <<p>>
    BY <2>1
  <2> HIDE DEF p
  <2>4. Marked(p.pusi, p.data)
    BY <2>2
  <2>5. s \o Packets(unit, d) = Append(s, p)
    BY <1>2, <2>2, <2>3
  <2> QED
    BY <2>2, <2>4, <2>5, MarksAppend
<1>5. CASE Len(d) = Room - 1
  <2> DEFINE n == Len(d)
             a == Front(d)
             b == <<Last(d)>>
             p == TsPacket(unit, 3, a)
             q == TsPacket(FALSE, 3, b)
  <2>0. Room \in Nat /\ Room > 3
    BY RoomAssumption
  <2>1. Packets(unit, d) = <<p, q>>
    <3>1. Len(d) # Room
      BY <1>5, <2>0
    <3> QED
      BY <1>5, <3>1, Zenon DEF Packets
  <2>2. n \in Nat /\ n >= 3 /\ \A j \in 1..n : d[j] \in Tokens
    BY <1>5, <2>0
  <2>3. /\ a \in Seq(Tokens) /\ Len(a) = n - 1 /\ \A i \in 1..(n - 1) : a[i] = d[i]
    BY <2>2 DEF Front
  <2>4. b \in Seq(Tokens) /\ Len(b) = 1 /\ b[1] = d[n]
    BY <2>2 DEF Last
  <2>5. a \o b = d
    <3> DEFINE z == a \o b
    <3>1. /\ z = [i \in 1..n |-> z[i]] /\ z[n] = d[n] /\ \A i \in 1..(n - 1) : z[i] = d[i]
      <4> HIDE DEF a, b, n
      <4>1. z \in Seq(Tokens) /\ Len(z) = Len(a) + Len(b)
        BY <2>3, <2>4, JoinIs, Zenon
      <4>2. z[Len(a) + 1] = b[1]
        <5>1. 1 \in 1..Len(b)
          BY <2>4
        <5> QED
          BY <2>3, <2>4, <5>1, JoinIs, Zenon
      <4>3. \A i \in 1..Len(a) : z[i] = a[i]
        BY <2>3, <2>4, JoinIs, Zenon
      <4>4. Len(z) = n
        <5> HIDE DEF z
        <5> QED
          BY <2>2, <2>3, <2>4, <4>1
      <4>5. z[n] = d[n]
        <5>1. Len(a) + 1 = n
          BY <2>2, <2>3
        <5> HIDE DEF z
        <5> QED
          BY <2>4, <4>2, <5>1
      <4> HIDE DEF z
      <4> QED
        BY <2>2, <2>3, <4>1, <4>3, <4>4, <4>5
    <3>2. d = [i \in 1..n |-> d[i]]
      OBVIOUS
    <3> HIDE DEF z
    <3>3. \A i \in 1..n : z[i] = d[i]
      <4>1. \A i \in 1..n : i \in 1..(n - 1) \/ i = n
        BY <2>2
      <4> HIDE DEF n
      <4> QED
        BY <3>1, <4>1, Zenon
    <3>4. z = d
      BY <3>1, <3>2, <3>3
    <3> QED
      BY <3>4 DEF z
  <2> HIDE DEF a, b
  <2>6. p \in DataPackets /\ p.pusi = unit /\ p.data = a /\ q \in DataPackets /\ q.pusi = FALSE /\ q.data = b
    BY <2>3, <2>4 DEF TsPacket, DataPackets
  <2> HIDE DEF p, q
  <2>7. Marked(unit, a)
    <3>1. a[1] = d[1] /\ \A j \in 2..Len(a) : a[j] = d[j] /\ j \in 2..Len(d)
      BY <2>2, <2>3
    <3> QED
      BY <3>1 DEF Marked
  <2>8. Marked(FALSE, b)
    <3>1. d[n].kind # "pes"
      <4>1. n \in 2..n
        BY <2>2
      <4> QED
        BY <4>1 DEF Marked
    <3> QED
      BY <2>4, <3>1 DEF Marked
  <2> DEFINE t == Append(s, p)
  <2>9. t \in Seq(DataPackets) /\ StartsAreMarked(t) /\ PesIn(t) = PesIn(s) \o a
    BY <2>6, <2>7, MarksAppend
  <2>10. s \o Packets(unit, d) = Append(t, q)
    <3>1. s \o <<p, q>> = Append(Append(s, p), q)
      BY <2>6
    <3> QED
      BY <2>1, <3>1, Zenon
  <2> HIDE DEF t
  <2>11. Append(t, q) \in Seq(DataPackets) /\ StartsAreMarked(Append(t, q)) /\ PesIn(Append(t, q)) = PesIn(t) \o b
    BY <2>6, <2>8, <2>9, MarksAppend
  <2>12. PesIn(s) \in Seq(Tokens)
    BY <2>6, PesInAppend
  <2>13. (PesIn(s) \o a) \o b = PesIn(s) \o d
    BY <2>3, <2>4, <2>5, <2>12, JoinsAnyWay, Zenon
  <2> QED
    BY <2>9, <2>10, <2>11, <2>13, Zenon
<1> QED
  BY <1>4, <1>5

DataStates == [out : Seq(DataPackets), data : Seq(Tokens), pusi : BOOLEAN]

\* A packet that is not full, and what was written before it.
DataSound(w) ==
  /\ w \in DataStates /\ Len(w.data) < Room /\ StartsAreMarked(w.out) /\ Marked(w.pusi, w.data)

\* What was read.
ReadOf(w) == PesIn(w.out) \o w.data

LEMMA DataStepKeeps ==
  ASSUME NEW w, DataSound(w), NEW t \in Tokens, w.data = <<>> /\ w.pusi => t.kind = "pes"
  PROVE  LET x == DataStep(w, t)
         IN  /\ DataSound(x) /\ (x.data = <<>> => ~x.pusi)
             /\ ReadOf(x) = Append(ReadOf(w), t)
<1> DEFINE begins == t.kind = "pes"
           flushed == IF begins /\ w.data # <<>> THEN w.out \o Packets(w.pusi, w.data) ELSE w.out
           d == IF begins THEN <<t>> ELSE Append(w.data, t)
           u == begins \/ w.pusi
           x == DataStep(w, t)
           rest == IF begins THEN <<>> ELSE w.data
<1>1. /\ w.out \in Seq(DataPackets) /\ w.data \in Seq(Tokens) /\ w.pusi \in BOOLEAN
      /\ Len(w.data) < Room /\ StartsAreMarked(w.out) /\ Marked(w.pusi, w.data)
  BY DEF DataSound, DataStates
<1>0. Room \in Nat /\ Room > 3
  BY RoomAssumption
<1>2. x = IF Len(d) = Room THEN [out |-> flushed \o Packets(u, d), data |-> <<>>, pusi |-> FALSE]
          ELSE [out |-> flushed, data |-> d, pusi |-> u]
  BY Zenon DEF DataStep
<1> DEFINE o == w.out
           e == w.data
           f == w.pusi
<1> HIDE DEF x
<1>3. PesIn(o) \in Seq(Tokens)
  <2>1. TsPacket(TRUE, 3, <<>>) \in DataPackets
    BY DEF TsPacket, DataPackets
  <2> QED
    BY <1>1, <2>1, PesInAppend
<1>4. flushed \in Seq(DataPackets) /\ StartsAreMarked(flushed) /\ PesIn(flushed) \o rest = PesIn(o) \o e
  <2>1. CASE begins /\ e # <<>>
    <3>1. /\ o \o Packets(f, e) \in Seq(DataPackets) /\ StartsAreMarked(o \o Packets(f, e))
          /\ PesIn(o \o Packets(f, e)) = PesIn(o) \o e
      <4>1. Len(e) <= Room
        BY <1>0, <1>1
      <4> HIDE DEF o, e, f
      <4> QED
        BY <1>1, <2>1, <4>1, PacketsKeep DEF o, e, f
    <3>2. flushed = o \o Packets(f, e) /\ rest = <<>>
      BY <2>1
    <3>3. PesIn(o) \o e \in Seq(Tokens)
      BY <1>1, <1>3
    <3>4. (PesIn(o) \o e) \o <<>> = PesIn(o) \o e
      BY <3>3
    <3> HIDE DEF flushed, rest, o, e, f
    <3> QED
      BY <3>1, <3>2, <3>4
  <2>2. CASE ~begins
    BY <1>1, <2>2
  <2>3. CASE e = <<>>
    BY <1>1, <2>3
  <2> QED
    BY <2>1, <2>2, <2>3
<1>5. d = Append(rest, t) /\ rest \in Seq(Tokens)
  <2>1. <<>> \in Seq(Tokens)
    OBVIOUS
  <2>2. CASE begins
    <3>1. d = <<t>> /\ rest = <<>>
      BY <2>2
    <3> HIDE DEF d, rest
    <3> QED
      BY <2>1, <3>1, LongerIs, Zenon
  <2>3. CASE ~begins
    <3>1. d = Append(w.data, t) /\ rest = w.data
      BY <2>3
    <3> HIDE DEF d, rest
    <3> QED
      BY <1>1, <3>1, Zenon
  <2> QED
    BY <2>2, <2>3
<1>6. d \in Seq(Tokens) /\ Len(d) <= Room /\ d # <<>>
  <2>1. Len(Append(rest, t)) = Len(rest) + 1 /\ Append(rest, t) \in Seq(Tokens) /\ Append(rest, t) # <<>>
    BY <1>5, LongerIs, Zenon
  <2>2. Len(rest) < Room /\ Len(rest) \in Nat
    BY <1>0, <1>1
  <2> HIDE DEF rest, d
  <2> QED
    BY <1>0, <1>5, <2>1, <2>2
<1>7. Marked(u, d) /\ u \in BOOLEAN
  <2>1. CASE begins
    <3>1. d = <<t>>
      BY <2>1
    <3>2. Len(<<t>>) = 1 /\ <<t>>[1] = t
      OBVIOUS
    <3> HIDE DEF d
    <3> QED
      BY <2>1, <3>1, <3>2 DEF Marked
  <2>2. CASE ~begins /\ e = <<>>
    <3>1. d = <<t>> /\ ~f
      BY <2>2
    <3>2. Len(<<t>>) = 1 /\ <<t>>[1] = t
      OBVIOUS
    <3> HIDE DEF d
    <3> QED
      BY <1>1, <2>2, <3>1, <3>2 DEF Marked
  <2>3. CASE ~begins /\ e # <<>>
    <3>1. d = Append(e, t)
      BY <2>3
    <3>2. /\ Len(d) = Len(e) + 1 /\ d[1] = e[1] /\ d[Len(e) + 1] = t /\ Len(e) \in Nat
          /\ \A j \in 1..Len(e) : d[j] = e[j]
      <4> HIDE DEF e, d
      <4>1. e \in Seq(Tokens) /\ e # <<>>
        BY <1>1, <2>3 DEF e
      <4> QED
        BY <3>1, <4>1
    <3> HIDE DEF d
    <3>3. ASSUME NEW j \in 2..Len(d) PROVE d[j].kind # "pes"
      <4>1. CASE j \in 2..Len(e)
        BY <1>1, <3>2, <4>1 DEF Marked
      <4>2. CASE j = Len(e) + 1
        <5>1. d[j] = t
          BY <3>2, <4>2
        <5> QED
          BY <2>3, <5>1
      <4> QED
        BY <3>2, <4>1, <4>2
    <3>4. u <=> d[1].kind = "pes"
      BY <1>1, <2>3, <3>2 DEF Marked
    <3> QED
      BY <1>1, <3>3, <3>4 DEF Marked
  <2> QED
    BY <2>1, <2>2, <2>3
<1>8. PesIn(flushed) \o d = Append(PesIn(o) \o e, t) /\ PesIn(flushed) \in Seq(Tokens)
  <2>1. TsPacket(TRUE, 3, <<>>) \in DataPackets
    BY DEF TsPacket, DataPackets
  <2> HIDE DEF flushed, rest, d, o, e
  <2>2. PesIn(flushed) \in Seq(Tokens)
    BY <1>4, <2>1, PesInAppend
  <2> DEFINE z == PesIn(flushed)
  <2> HIDE DEF z
  <2>3. z \o Append(rest, t) = Append(z \o rest, t)
    BY <1>5, <2>2 DEF z
  <2> QED
    BY <1>4, <1>5, <2>2, <2>3 DEF z
<1> HIDE DEF flushed, d, u, rest
<1>9. CASE Len(d) = Room
  <2>1. x = [out |-> flushed \o Packets(u, d), data |-> <<>>, pusi |-> FALSE]
    BY <1>2, <1>9
  <2>2. /\ flushed \o Packets(u, d) \in Seq(DataPackets) /\ StartsAreMarked(flushed \o Packets(u, d))
        /\ PesIn(flushed \o Packets(u, d)) = PesIn(flushed) \o d
    BY <1>4, <1>6, <1>7, PacketsKeep
  <2> DEFINE q == flushed \o Packets(u, d)
  <2> HIDE DEF q
  <2>3. x \in DataStates /\ x.out = q /\ x.data = <<>> /\ x.pusi = FALSE
    BY <2>1, <2>2 DEF DataStates, q
  <2>4. PesIn(q) \o <<>> = PesIn(q)
    <3>1. PesIn(q) \in Seq(Tokens)
      BY <1>6, <1>8, <2>2, JoinIs, Zenon DEF q
    <3> QED
      BY <3>1, JoinIs, Zenon
  <2>5. Marked(FALSE, <<>>) /\ Len(<<>>) = 0
    BY DEF Marked
  <2>6. DataSound(x)
    <3>1. Len(x.data) < Room
      BY <1>0, <2>3, <2>5
    <3>2. StartsAreMarked(x.out)
      BY <2>2, <2>3, Zenon DEF q
    <3>3. Marked(x.pusi, x.data)
      BY <2>3, <2>5, Zenon
    <3> QED
      BY <2>3, <3>1, <3>2, <3>3, Zenon DEF DataSound
  <2>7. ReadOf(x) = Append(ReadOf(w), t)
    <3>1. ReadOf(x) = PesIn(q)
      BY <2>3, <2>4 DEF ReadOf
    <3> QED
      BY <1>8, <2>2, <3>1 DEF ReadOf, q
  <2> QED
    BY <2>3, <2>6, <2>7 DEF x
<1>10. CASE Len(d) # Room
  <2>1. x = [out |-> flushed, data |-> d, pusi |-> u]
    BY <1>2, <1>10
  <2>2. x \in DataStates /\ x.out = flushed /\ x.data = d /\ x.pusi = u
    BY <1>4, <1>6, <1>7, <2>1 DEF DataStates
  <2>3. Len(d) < Room
    BY <1>0, <1>6, <1>10
  <2>4. DataSound(x)
    BY <1>4, <1>7, <2>2, <2>3 DEF DataSound
  <2>5. ReadOf(x) = Append(ReadOf(w), t)
    BY <1>8, <2>2 DEF ReadOf
  <2> QED
    BY <1>6, <2>2, <2>4, <2>5 DEF x
<1> QED
  BY <1>9, <1>10

\* The states of pesdata2ts, token by token.
LEMMA DataTsIs ==
  ASSUME NEW p \in Seq(Tokens), Len(p) >= 1, p[1].kind = "pes"
  PROVE  \E w : /\ DataSound(w) /\ ReadOf(w) = p
               /\ DataTs(p) = IF w.data = <<>> THEN w.out ELSE w.out \o Packets(w.pusi, w.data)
<1> DEFINE n == Len(p)
           b == [out |-> <<>>, data |-> <<>>, pusi |-> TRUE]
           P(f) == f = [i \in 0..n |-> IF i = 0 THEN b ELSE DataStep(f[i - 1], p[i])]
           e == CHOOSE f : P(f)
           S == {w \in DataStates : DataSound(w) /\ (w.data = <<>> /\ w.pusi => w = b)}
           g == [w \in S |-> [i \in 1..n |-> IF w = b /\ p[i].kind # "pes" THEN b ELSE DataStep(w, p[i])]]
<1>1. n \in Nat /\ n >= 1 /\ \A i \in 1..n : p[i] \in Tokens
  OBVIOUS
<1>2. DataSound(b) /\ b \in S /\ b.data = <<>> /\ b.pusi /\ ReadOf(b) = <<>>
  <2>1. b \in DataStates /\ b.out = <<>> /\ b.data = <<>> /\ b.pusi = TRUE
    BY DEF DataStates
  <2>2. StartsAreMarked(<<>>) /\ Marked(TRUE, <<>>) /\ Len(<<>>) = 0
    BY DEF StartsAreMarked, Marked
  <2> HIDE DEF b
  <2>3. Len(b.data) < Room
    BY <2>1, <2>2, RoomAssumption
  <2>4. StartsAreMarked(b.out) /\ Marked(b.pusi, b.data)
    BY <2>1, <2>2, Zenon
  <2>5. DataSound(b)
    BY <2>1, <2>3, <2>4, Zenon DEF DataSound
  <2>6. ReadOf(b) = <<>>
    <3>1. <<>> \o <<>> = <<>>
      OBVIOUS
    <3> QED
      BY <2>1, <3>1, PesInNone, Zenon DEF ReadOf
  <2> QED
    BY <2>1, <2>5, <2>6
<1> HIDE DEF b, S
<1>3. ASSUME NEW w \in S, NEW t \in Tokens, w # b \/ t.kind = "pes"
      PROVE  DataStep(w, t) \in S /\ DataStep(w, t) # b /\ ReadOf(DataStep(w, t)) = Append(ReadOf(w), t)
  <2>1. DataSound(w) /\ (w.data = <<>> /\ w.pusi => t.kind = "pes")
    BY <1>3 DEF S
  <2> DEFINE x == DataStep(w, t)
  <2>2. DataSound(x) /\ (x.data = <<>> => ~x.pusi) /\ ReadOf(x) = Append(ReadOf(w), t)
    BY <2>1, DataStepKeeps
  <2> HIDE DEF x
  <2>3. x \in DataStates
    BY <2>2 DEF DataSound
  <2>4. x # b
    BY <1>2, <2>2
  <2> QED
    BY <2>2, <2>3, <2>4 DEF S, x
<1> HIDE DEF n
<1>4. g \in [S -> [1..n -> S]]
  <2>1. ASSUME NEW w \in S, NEW i \in 1..n
        PROVE  (IF w = b /\ p[i].kind # "pes" THEN b ELSE DataStep(w, p[i])) \in S
    BY <1>1, <1>2, <1>3
  <2> QED
    BY <2>1
<1>5. \A w \in S, i \in 1..n : g[w][i] = IF w = b /\ p[i].kind # "pes" THEN b ELSE DataStep(w, p[i])
  OBVIOUS
<1> HIDE DEF g, P, e
<1>6. Unfolds(S, b, n, g)
  BY <1>1, <1>2, <1>4, Recursion
<1>7. PICK f \in [0..n -> S] : f[0] = b /\ \A i \in 1..n : f[i] = g[f[i - 1]][i]
  BY <1>6, Zenon DEF Unfolds
<1> DEFINE M == {i \in Nat : i <= n => /\ i > 0 => f[i] # b /\ f[i] = DataStep(f[i - 1], p[i])
                                       /\ ReadOf(f[i]) = SubSeq(p, 1, i)}
<1>8. 0 \in M
  <2>1. SubSeq(p, 1, 0) = <<>>
    OBVIOUS
  <2>2. ReadOf(f[0]) = SubSeq(p, 1, 0)
    BY <1>2, <1>7, <2>1, Zenon
  <2> DEFINE q == SubSeq(p, 1, 0)
             r == ReadOf(f[0])
  <2>3. r = q
    BY <2>2
  <2> HIDE DEF q, r
  <2>4. 0 \in Nat /\ ~(0 > 0)
    OBVIOUS
  <2> QED
    BY <2>3, <2>4, Zenon DEF q, r
<1>9. ASSUME NEW i \in Nat, i \in M PROVE i + 1 \in M
  <2> SUFFICES ASSUME i + 1 <= n
               PROVE  /\ f[i + 1] # b /\ f[i + 1] = DataStep(f[(i + 1) - 1], p[i + 1])
                      /\ ReadOf(f[i + 1]) = SubSeq(p, 1, i + 1)
    OBVIOUS
  <2>1. i <= n /\ i + 1 \in 1..n /\ i \in 0..n /\ (i + 1) - 1 = i
    BY <1>1
  <2>2. (i > 0 => f[i] # b) /\ ReadOf(f[i]) = SubSeq(p, 1, i)
    BY <1>9, <2>1
  <2> HIDE DEF M
  <2>3. p[i + 1] \in Tokens /\ f[i] \in S /\ f[i + 1] = g[f[i]][i + 1]
    BY <1>1, <1>7, <2>1
  <2>4. f[i] # b \/ p[i + 1].kind = "pes"
    BY <2>2
  <2>5. f[i + 1] = DataStep(f[i], p[i + 1])
    BY <1>5, <2>1, <2>3, <2>4
  <2>6. f[i + 1] # b /\ ReadOf(f[i + 1]) = Append(ReadOf(f[i]), p[i + 1])
    BY <1>3, <2>3, <2>4, <2>5
  <2>7. SubSeq(p, 1, i + 1) = Append(SubSeq(p, 1, i), p[i + 1])
    BY <2>1 DEF n
  <2> QED
    BY <2>1, <2>2, <2>5, <2>6, <2>7
<1> HIDE DEF M
<1>10. \A i \in Nat : i \in M
  BY <1>8, <1>9, Counting
<1>11. \A i \in 1..n : f[i] = DataStep(f[i - 1], p[i])
  <2>1. \A i \in 1..n : i \in Nat /\ i <= n /\ i > 0
    BY <1>1
  <2> QED
    BY <1>10, <2>1 DEF M
<1>12. ReadOf(f[n]) = p
  <2>1. ReadOf(f[n]) = SubSeq(p, 1, n)
    BY <1>1, <1>10 DEF M
  <2>2. SubSeq(p, 1, n) = p
    BY DEF n
  <2> QED
    BY <2>1, <2>2
<1>13. P(f)
  <2>1. ASSUME NEW i \in 0..n PROVE f[i] = IF i = 0 THEN b ELSE DataStep(f[i - 1], p[i])
    <3>1. CASE i = 0
      BY <1>7, <3>1
    <3>2. CASE i # 0
      <4>1. i \in 1..n
        BY <1>1, <3>2
      <4> QED
        BY <1>11, <3>2, <4>1
    <3> QED
      BY <3>1, <3>2
  <2>2. f = [i \in 0..n |-> f[i]]
    BY <1>7
  <2> QED
    BY <2>1, <2>2 DEF P
<1>14. P(e)
  BY <1>13, Zenon DEF e
<1>15. \A i \in 0..n : e[i] = IF i = 0 THEN b ELSE DataStep(e[i - 1], p[i])
  <2> DEFINE h == [i \in 0..n |-> IF i = 0 THEN b ELSE DataStep(e[i - 1], p[i])]
  <2>1. e = h
    BY <1>14 DEF P
  <2>2. \A i \in 0..n : h[i] = IF i = 0 THEN b ELSE DataStep(e[i - 1], p[i])
    OBVIOUS
  <2> HIDE DEF h
  <2> QED
    BY <2>1, <2>2
<1>16. e[n] = f[n]
  <2> DEFINE N == {i \in Nat : i <= n => e[i] = f[i]}
  <2>1. 0 \in N
    BY <1>1, <1>7, <1>15
  <2>2. ASSUME NEW i \in Nat, i \in N PROVE i + 1 \in N
    <3> SUFFICES ASSUME i + 1 <= n PROVE e[i + 1] = f[i + 1]
      OBVIOUS
    <3>1. e[i] = f[i] /\ i + 1 \in 1..n /\ i + 1 \in 0..n /\ (i + 1) - 1 = i /\ i + 1 # 0
      BY <1>1, <2>2
    <3> HIDE DEF N
    <3>2. e[i + 1] = DataStep(e[(i + 1) - 1], p[i + 1])
      BY <1>15, <3>1
    <3>3. f[i + 1] = DataStep(f[(i + 1) - 1], p[i + 1])
      BY <1>11, <3>1
    <3> QED
      BY <3>1, <3>2, <3>3
  <2> HIDE DEF N
  <2>3. \A i \in Nat : i \in N
    BY <2>1, <2>2, Counting
  <2> QED
    BY <1>1, <2>3 DEF N
<1>17. DataTs(p) = LET w == e[n] IN IF w.data = <<>> THEN w.out ELSE w.out \o Packets(w.pusi, w.data)
  BY Zenon DEF DataTs, e, P, b, n
<1> DEFINE v == f[n]
<1>18. v \in S
  BY <1>1, <1>7
<1>19. DataSound(v)
  BY <1>18 DEF S
<1>20. DataTs(p) = IF v.data = <<>> THEN v.out ELSE v.out \o Packets(v.pusi, v.data)
  BY <1>16, <1>17
<1> QED
  BY <1>12, <1>19, <1>20

\* For every file that begins with a header.
LEMMA DataIsKept ==
  ASSUME NEW p \in Seq(Tokens), Len(p) >= 1, p[1].kind = "pes"
  PROVE  KeepsData(p)
<1>1. PICK w : /\ DataSound(w) /\ ReadOf(w) = p
               /\ DataTs(p) = IF w.data = <<>> THEN w.out ELSE w.out \o Packets(w.pusi, w.data)
  BY DataTsIs
<1>2. /\ w.out \in Seq(DataPackets) /\ w.data \in Seq(Tokens) /\ w.pusi \in BOOLEAN
      /\ Len(w.data) < Room /\ StartsAreMarked(w.out) /\ Marked(w.pusi, w.data)
  BY <1>1 DEF DataSound, DataStates
<1>3. CASE w.data = <<>>
  <2>1. TsPacket(TRUE, 3, <<>>) \in DataPackets
    BY DEF TsPacket, DataPackets
  <2>2. PesIn(w.out) \in Seq(Tokens)
    BY <1>2, <2>1, PesInAppend
  <2>3. ReadOf(w) = PesIn(w.out)
    BY <1>3, <2>2, JoinIs, Zenon DEF ReadOf
  <2> QED
    BY <1>1, <1>2, <1>3, <2>3, Zenon DEF KeepsData
<1>4. CASE w.data # <<>>
  <2>1. Len(w.data) <= Room
    BY <1>2, RoomAssumption
  <2>2. LET q == w.out \o Packets(w.pusi, w.data)
        IN  q \in Seq(DataPackets) /\ StartsAreMarked(q) /\ PesIn(q) = PesIn(w.out) \o w.data
    BY <1>2, <1>4, <2>1, PacketsKeep
  <2> QED
    BY <1>1, <1>4, <2>2, Zenon DEF KeepsData, ReadOf
<1> QED
  BY <1>3, <1>4

-----------------------------------------------------------------------------
(* esvideo2pes and pes2es.                                                    *)

LEMMA EsStream ==
  ASSUME NEW r \in Seq(StreamTokens)
  PROVE  EsOf(r) = r
<1> DEFINE n == Len(r)
           f == [i \in 0..n |-> SubSeq(r, 1, i)]
<1>1. n \in Nat /\ \A i \in 1..n : r[i] \in StreamTokens
  OBVIOUS
<1>2. \A t \in StreamTokens : ~IsHeader(t)
  BY TokenKinds
<1>3. SubSeq(r, 1, 0) = <<>> /\ SubSeq(r, 1, n) = r
  OBVIOUS
<1>4. ASSUME NEW i \in 1..n PROVE SubSeq(r, 1, i) = Append(SubSeq(r, 1, i - 1), r[i])
  OBVIOUS
<1>5. ASSUME NEW i \in 0..n PROVE f[i] = EsNext(r, f, i)
  <2>1. CASE i = 0
    <3>1. f[i] = SubSeq(r, 1, 0)
      BY <2>1
    <3> HIDE DEF f
    <3> QED
      BY <1>3, <2>1, <3>1, Zenon DEF EsNext
  <2>2. CASE i # 0
    <3>1. i \in 1..n /\ i - 1 \in 0..n
      BY <1>1, <2>2
    <3>2. f[i] = SubSeq(r, 1, i) /\ f[i - 1] = SubSeq(r, 1, i - 1)
      BY <3>1
    <3>3. ~IsHeader(r[i])
      BY <1>1, <1>2, <3>1
    <3> HIDE DEF f
    <3> QED
      BY <1>4, <2>2, <3>1, <3>2, <3>3, Zenon DEF EsNext
  <2> QED
    BY <2>1, <2>2
<1>6. f = [i \in 0..n |-> f[i]]
  OBVIOUS
<1>7. f[n] = r
  BY <1>1, <1>3
<1> HIDE DEF f
<1>8. IsEs(r, f)
  BY <1>5, <1>6 DEF IsEs
<1> QED
  BY <1>7, <1>8, EsOfIs DEF n

LEMMA EsHeaders ==
  ASSUME NEW x \in Nat, NEW y \in Nat
  PROVE  /\ Header(x, y) \in Seq(Tokens) /\ EsOf(Header(x, y)) = <<>>
         /\ <<PtsToken(x, FALSE)>> \in Seq(Tokens) /\ EsOf(<<PtsToken(x, FALSE)>>) = <<>>
<1>1. x \in Int /\ y \in Int /\ TRUE \in BOOLEAN /\ FALSE \in BOOLEAN
  OBVIOUS
<1> DEFINE u == PtsToken(x, TRUE)
           w == DtsToken(y)
           z == PtsToken(x, FALSE)
<1>2. u \in Tokens /\ IsHeader(u) /\ w \in Tokens /\ IsHeader(w) /\ z \in Tokens /\ IsHeader(z)
  BY <1>1, HeaderTokens DEF IsHeader
<1>3. Header(x, y) = <<u, w>>
  BY DEF Header
<1> HIDE DEF u, w, z
<1>4. <<u>> \in Seq(Tokens) /\ <<z>> \in Seq(Tokens)
  BY <1>2
<1>5. Append(<<u>>, w) = <<u, w>> /\ Append(<<u>>, w) \in Seq(Tokens)
  <2> DEFINE a == Append(<<u>>, w)
             h == Header(x, y)
  <2>1. h \in Seq(Tokens) /\ Len(h) = 2 /\ h[1] = u /\ h[2] = w
    BY <1>1, HeaderTokens DEF u, w
  <2>2. a \in Seq(Tokens) /\ Len(a) = 2 /\ a[1] = u /\ a[2] = w
    BY <1>2, <1>4
  <2> HIDE DEF a, h
  <2>3. \A i \in 1..2 : a[i] = h[i]
    BY <2>1, <2>2
  <2>4. a = [i \in 1..2 |-> a[i]] /\ h = [i \in 1..2 |-> h[i]]
    BY <2>1, <2>2
  <2>5. a = h
    BY <2>3, <2>4
  <2> QED
    BY <1>3, <2>2, <2>5, Zenon DEF a, h
<1>6. EsOf(<<u>>) = <<>> /\ EsOf(<<z>>) = <<>>
  BY <1>2, EsOne
<1>7. EsOf(Append(<<u>>, w)) = EsOf(<<u>>)
  BY <1>2, <1>4, EsAppend
<1> QED
  BY <1>3, <1>4, <1>5, <1>6, <1>7, Zenon DEF u, w, z

LEMMA EsGrown ==
  ASSUME NEW o \in Seq(Tokens), NEW h \in Seq(Tokens), EsOf(h) = <<>>, NEW r \in Seq(StreamTokens)
  PROVE  EsOf((o \o h) \o r) = EsOf(o) \o r
<1>1. r \in Seq(Tokens) /\ o \o h \in Seq(Tokens) /\ EsOf(o) \in Seq(Tokens)
  BY StreamSmooth, JoinIs, EsType
<1>2. EsOf((o \o h) \o r) = EsOf(o \o h) \o EsOf(r)
  BY <1>1, EsConcat
<1>3. EsOf(o \o h) = EsOf(o) \o EsOf(h)
  BY EsConcat
<1>4. EsOf(o) \o <<>> = EsOf(o)
  BY <1>1, JoinIs, Zenon
<1> QED
  BY <1>2, <1>3, <1>4, EsStream, Zenon

\* From a sequence header to the first picture of its group.
Opening(h) == h # <<>> /\ h[1].kind = "seq" /\ \A j \in 1..Len(h) : h[j].kind # "pic"

\* esvideo2pes has written or holds all of z.
Holds(v, z) ==
  /\ v.pc \in {"skip", "scan", "look"} /\ EsOf(v.out) \o v.held = z
  /\ IF v.pc = "look" THEN Opening(v.held) ELSE v.held = <<>>

LEMMA StepHolds ==
  ASSUME NEW v \in Packing, NEW t \in StreamTokens, NEW z \in Seq(StreamTokens),
         \/ v.pc = "first" /\ v.held = <<>> /\ z = <<>>
         \/ Holds(v, z)
  PROVE  \/ Holds(PesStep(v, t), Append(z, t))
         \/ v.pc = "look" /\ PesStep(v, t).pc = "done" /\ PesStep(v, t).out = v.out
         \/ /\ v.pc = "look" /\ TooVerbose(v)
            /\ PesStep(v, t).pc = "exit" /\ PesStep(v, t).out = v.out
<1> DEFINE w == PesStep(v, t)
           o == v.out
           r == <<t>>
<1>1. t.kind \in {"seq", "pic", "data"}
  BY TokenKinds DEF Packing
<1>2. o \in Seq(Tokens) /\ v.dts \in Nat /\ v.held \in Seq(StreamTokens) /\ EsOf(o) \in Seq(Tokens)
  <2>1. o \in Seq(Tokens) /\ v.dts \in Nat /\ v.held \in Seq(StreamTokens)
    BY DEF Packing
  <2> QED
    BY <2>1, EsType
<1>3. r \in Seq(StreamTokens) /\ t \in Tokens
  BY TokenKinds
<1>4. \A q \in Seq(Tokens) : q \o <<>> = q
  BY JoinIs
<1>5. \A q \in Seq(Tokens) : q \o r = Append(q, t)
  BY <1>3
<1>6. z \in Seq(Tokens)
  BY StreamSmooth
<1>7. CASE v.pc = "first"
  <2>1. v.held = <<>> /\ z = <<>>
    BY <1>7 DEF Holds
  <2>2. w.pc = "skip" /\ w.out = Append(Header(PtsStep, 0), t) /\ w.held = v.held
    BY <1>7, FirstIs, Zenon DEF Same
  <2> DEFINE h == Header(PtsStep, 0)
  <2>3. PtsStep \in Nat /\ 0 \in Nat
    BY TimesAssumption
  <2>4. h \in Seq(Tokens) /\ EsOf(h) = <<>>
    BY <2>3, EsHeaders
  <2> HIDE DEF h
  <2>5. EsOf(Append(h, t)) = Append(EsOf(h), t)
    BY <1>3, <2>4, EsAppend, TokenKinds, ZenonT(60)
  <2>6. EsOf(w.out) = Append(z, t)
    BY <2>1, <2>2, <2>4, <2>5, Zenon DEF h
  <2>7. Append(z, t) \in Seq(Tokens)
    BY <1>3, <1>6
  <2>8. EsOf(w.out) \o w.held = Append(z, t)
    BY <1>4, <2>1, <2>2, <2>6, <2>7, Zenon
  <2> HIDE DEF w
  <2>9. Holds(w, Append(z, t))
    BY <2>1, <2>2, <2>8 DEF Holds
  <2> QED
    BY <2>9 DEF w
<1> HIDE DEF w
<1>8. ASSUME v.pc # "first", v.pc # "look" PROVE EsOf(o) = z /\ v.held = <<>>
  BY <1>2, <1>4, <1>8 DEF Holds
<1>9. ASSUME v.pc \in {"skip", "scan"}, w.pc \in {"skip", "scan"}, w.held = v.held, EsOf(w.out) = Append(EsOf(o), t)
      PROVE  Holds(w, Append(z, t))
  <2>1. EsOf(o) = z /\ v.held = <<>>
    BY <1>8, <1>9
  <2>2. Append(z, t) \in Seq(Tokens)
    BY <1>3, <1>6
  <2>3. EsOf(w.out) \o w.held = Append(z, t)
    BY <1>4, <1>9, <2>1, <2>2, Zenon
  <2> QED
    BY <1>9, <2>1, <2>3 DEF Holds
<1>10. CASE v.pc = "skip"
  <2>1. w.out = Append(o, t) /\ w.pc \in {"scan", "skip"} /\ w.held = v.held
    BY <1>10, SkipIs DEF w, Same
  <2>2. EsOf(w.out) = Append(EsOf(o), t)
    BY <1>2, <1>3, <2>1, EsAppend, TokenKinds
  <2> QED
    BY <1>9, <1>10, <2>1, <2>2 DEF w
<1>11. CASE v.pc = "scan" /\ t.kind = "data"
  <2>1. w.out = Append(o, t) /\ w.pc = "scan" /\ w.held = v.held
    BY <1>11, DataIs, Zenon DEF w, Same
  <2>2. EsOf(w.out) = Append(EsOf(o), t)
    BY <1>2, <1>3, <2>1, EsAppend, TokenKinds
  <2> QED
    BY <1>9, <1>11, <2>1, <2>2 DEF w
<1>12. CASE v.pc = "scan" /\ t.kind = "pic"
  <2>1. /\ w.pc = "scan" /\ w.held = v.held
        /\ \/ \E x \in Nat : w.out = (o \o <<PtsToken(x, FALSE)>>) \o <<t>>
           \/ \E x, y \in Nat : w.out = (o \o Header(x, y)) \o <<t>>
    BY <1>12, PictureIs, Zenon DEF w, Same
  <2>2. \E h \in Seq(Tokens) : EsOf(h) = <<>> /\ w.out = (o \o h) \o r
    BY <2>1, EsHeaders
  <2>3. EsOf(w.out) = EsOf(o) \o r
    <3>1. PICK h \in Seq(Tokens) : EsOf(h) = <<>> /\ w.out = (o \o h) \o r
      BY <2>2
    <3>2. EsOf((o \o h) \o r) = EsOf(o) \o r
      BY <1>2, <1>3, <3>1, EsGrown
    <3> QED
      BY <3>1, <3>2, Zenon
  <2>4. EsOf(w.out) = Append(EsOf(o), t)
    BY <1>2, <1>5, <2>3
  <2> QED
    BY <1>9, <1>12, <2>1, <2>4 DEF w
<1>13. CASE v.pc = "scan" /\ t.kind = "seq"
  <2>1. w.out = o /\ w.pc = "look" /\ w.held = r
    BY <1>13, SequenceIs, Zenon DEF w
  <2>2. EsOf(o) = z
    BY <1>8, <1>13
  <2>3. EsOf(w.out) \o w.held = Append(z, t)
    BY <1>2, <1>5, <2>1, <2>2
  <2>4. Opening(w.held)
    <3>1. r # <<>> /\ Len(r) = 1 /\ r[1] = t
      OBVIOUS
    <3> HIDE DEF r
    <3>2. \A j \in 1..Len(r) : r[j] = t
      BY <3>1
    <3> QED
      BY <1>13, <2>1, <3>1, <3>2 DEF Opening
  <2> QED
    BY <2>1, <2>3, <2>4 DEF Holds, w
<1>15. CASE v.pc = "look" /\ TooVerbose(v)
  <2>1. w.out = o /\ w.pc = "exit"
    BY <1>15, ExitIs, Zenon DEF w
  <2> QED
    BY <1>15, <2>1 DEF w
<1>14. CASE v.pc = "look" /\ ~TooVerbose(v)
  <2>1. EsOf(o) \o v.held = z /\ Opening(v.held)
    BY <1>14 DEF Holds
  <2>2. CASE t.kind # "pic"
    <3>1. w.out = o /\ w.pc = "look" /\ w.held = Append(v.held, t)
      BY <1>14, <2>2, HeldIs, Zenon DEF w
    <3>2. EsOf(w.out) \o w.held = Append(z, t)
      <4> DEFINE q == EsOf(o)
                 h == v.held
      <4>1. q \in Seq(Tokens) /\ h \in Seq(Tokens)
        BY <1>2, StreamSmooth
      <4> HIDE DEF q, h
      <4>2. q \o Append(h, t) = Append(q \o h, t)
        BY <1>3, <4>1
      <4> QED
        BY <2>1, <3>1, <4>2, Zenon DEF q, h
    <3>3. Opening(w.held)
      <4> DEFINE h == v.held
                 g == Append(h, t)
      <4>1. h \in Seq(StreamTokens) /\ h # <<>> /\ h[1].kind = "seq" /\ \A j \in 1..Len(h) : h[j].kind # "pic"
        BY <1>2, <2>1 DEF Opening
      <4> HIDE DEF h
      <4>2. Len(g) = Len(h) + 1 /\ g[Len(h) + 1] = t /\ (\A j \in 1..Len(h) : g[j] = h[j]) /\ Len(h) \in Nat /\ Len(h) >= 1
        BY <4>1
      <4> HIDE DEF g
      <4>3. \A j \in 1..Len(g) : j \in 1..Len(h) \/ j = Len(h) + 1
        BY <4>2
      <4>4. \A j \in 1..Len(g) : g[j].kind # "pic"
        BY <2>2, <4>1, <4>2, <4>3
      <4>5. g # <<>> /\ g[1].kind = "seq"
        BY <4>1, <4>2
      <4> QED
        BY <3>1, <4>4, <4>5 DEF Opening, g, h
    <3> QED
      BY <3>1, <3>2, <3>3 DEF Holds, w
  <2>3. CASE t.kind = "pic"
    <3> DEFINE x == Presented(v.dts, t.ref)
    <3>1. /\ x \in Nat
          /\ IF TooLong(v, x) THEN w = [v EXCEPT !.pc = "done"]
             ELSE w.pc = "scan" /\ w.held = <<>> /\ w.out = ((o \o Header(x, v.dts)) \o v.held) \o <<t>>
      BY <1>14, <2>3, GroupIs, Zenon DEF w
    <3> HIDE DEF x
    <3>2. CASE TooLong(v, x)
      <4>1. w = [v EXCEPT !.pc = "done"]
        BY <3>1, <3>2
      <4>2. w.pc = "done" /\ w.out = o
        BY <4>1 DEF Packing
      <4> QED
        BY <1>14, <4>2 DEF w
    <3>3. CASE ~TooLong(v, x)
      <4> DEFINE h == Header(x, v.dts)
                 g == v.held \o r
      <4>1. h \in Seq(Tokens) /\ EsOf(h) = <<>>
        BY <1>2, <3>1, EsHeaders
      <4>2. g \in Seq(StreamTokens)
        BY <1>2, <1>3
      <4>3. v.held \in Seq(Tokens) /\ r \in Seq(Tokens)
        BY <1>2, <1>3, StreamSmooth
      <4> HIDE DEF h, r
      <4>4. w.out = (o \o h) \o g
        <5>1. w.out = ((o \o h) \o v.held) \o r
          BY <3>1, <3>3 DEF h, r
        <5>2. o \o h \in Seq(Tokens)
          BY <1>2, <4>1, JoinIs, Zenon
        <5> QED
          BY <4>3, <5>1, <5>2, JoinsAnyWay, Zenon
      <4>5. EsOf(w.out) = EsOf(o) \o g
        <5> HIDE DEF g, o
        <5>1. EsOf((o \o h) \o g) = EsOf(o) \o g
          BY <1>2, <4>1, <4>2, EsGrown
        <5> QED
          BY <4>4, <5>1, Zenon
      <4>6. EsOf(o) \o g = z \o r
        BY <1>2, <2>1, <4>3, JoinsAnyWay, Zenon
      <4>7. z \o r = Append(z, t) /\ Append(z, t) \in Seq(Tokens)
        BY <1>3, <1>5, <1>6
      <4>8. w.held = <<>> /\ w.pc = "scan"
        BY <3>1, <3>3
      <4>9. EsOf(w.out) \o w.held = Append(z, t)
        BY <1>4, <4>5, <4>6, <4>7, <4>8, Zenon
      <4> QED
        BY <4>8, <4>9 DEF Holds, w
    <3> QED
      BY <3>2, <3>3
  <2> QED
    BY <2>2, <2>3
<1> QED
  BY <1>1, <1>7, <1>10, <1>11, <1>12, <1>13, <1>14, <1>15 DEF Holds

\* So many of the first i tokens are of a kind.
Count(s, x, i) == Cardinality({j \in 1..i : s[j].kind = x})

LEMMA CountNext ==
  ASSUME NEW s, NEW x, NEW i \in Nat
  PROVE  /\ Count(s, x, i) \in Nat /\ Count(s, x, 0) = 0
         /\ Count(s, x, i + 1) = Count(s, x, i) + (IF s[i + 1].kind = x THEN 1 ELSE 0)
<1> DEFINE S(n) == {j \in 1..n : s[j].kind = x}
<1>1. IsFiniteSet(S(i)) /\ Cardinality(S(i)) \in Nat
  <2>1. IsFiniteSet(1..i)
    BY FS_Interval
  <2>2. S(i) \subseteq 1..i
    OBVIOUS
  <2>3. IsFiniteSet(S(i))
    BY <2>1, <2>2, FS_Subset
  <2> QED
    BY <2>3, FS_CardinalityType
<1>2. Cardinality(S(0)) = 0
  <2>1. S(0) = {}
    OBVIOUS
  <2> QED
    BY <2>1, FS_EmptySet
<1>3. Cardinality(S(i + 1)) = Cardinality(S(i)) + (IF s[i + 1].kind = x THEN 1 ELSE 0)
  <2>1. CASE s[i + 1].kind = x
    <3>1. S(i + 1) = S(i) \cup {i + 1} /\ i + 1 \notin S(i)
      BY <2>1
    <3>2. Cardinality(S(i) \cup {i + 1}) = Cardinality(S(i)) + 1
      BY <1>1, <3>1, FS_AddElement
    <3> QED
      BY <2>1, <3>1, <3>2
  <2>2. CASE s[i + 1].kind # x
    <3>1. S(i + 1) = S(i)
      BY <2>2
    <3> QED
      BY <1>1, <2>2, <3>1
  <2> QED
    BY <2>1, <2>2
<1> QED
  BY <1>1, <1>2, <1>3 DEF Count

\* What is known of the times when g groups of length d have begun.
GroupTimes(v, g, d) ==
  /\ v.first_gop = IF g >= 2 THEN d ELSE 0
  /\ v.a_gop = IF g >= 3 THEN d ELSE 0
  /\ PtsLimit > 0 /\ g >= 3 => g * d <= PtsLimit

\* After a sequence headers and p pictures, in groups of G.
Timely(v, a, p, G) ==
  /\ v.pc = "skip" => p = 0 /\ a = 1 /\ v.dts = 0 /\ v.frames = 1 /\ v.first_gop = 0 /\ v.a_gop = 0
  /\ v.pc \in {"scan", "look"} => v.frames = p /\ v.dts = p * PtsStep
  /\ v.pc = "scan" => a >= 1 /\ GroupTimes(v, a, G * PtsStep)
  /\ v.pc = "look" => a >= 2 /\ p = G * (a - 1) /\ GroupTimes(v, a - 1, G * PtsStep)
  /\ v.pc = "done" => v.frames * PtsStep <= PtsLimit

LEMMA Products ==
  ASSUME NEW x \in Nat, NEW y \in Nat, NEW z \in Nat
  PROVE  /\ x * y \in Nat /\ (x + 1) * y = x * y + y /\ 1 * y = y /\ 2 * y = y + y
         /\ 0 * y = 0 /\ (x * y) * z = y * (x * z)
         /\ x >= 1 => x * y >= y
         /\ x >= 1 /\ y >= 1 => x * y >= 1
<1>1. x * y \in Nat /\ (x + 1) * y = x * y + y /\ 1 * y = y /\ 2 * y = y + y /\ 0 * y = 0
  OBVIOUS
<1>2. (x * y) * z = y * (x * z)
  OBVIOUS
<1>3. ASSUME x >= 1 PROVE x * y >= y
  <2>1. x - 1 \in Nat
    BY <1>3
  <2>2. \A u \in Nat : u * y \in Nat /\ (u + 1) * y = u * y + y
    OBVIOUS
  <2>3. (x - 1) * y \in Nat /\ ((x - 1) + 1) * y = (x - 1) * y + y /\ (x - 1) + 1 = x
    BY <2>1, <2>2
  <2> DEFINE w == (x - 1) * y
  <2> HIDE DEF w
  <2>4. w + y >= y
    BY <2>3 DEF w
  <2> QED
    BY <2>3, <2>4 DEF w
<1>4. ASSUME x >= 1, y >= 1 PROVE x * y >= 1
  <2> DEFINE w == x * y
  <2>1. w >= y /\ w \in Nat
    BY <1>1, <1>3, <1>4
  <2> HIDE DEF w
  <2>2. w >= 1
    BY <1>4, <2>1
  <2> QED
    BY <2>2 DEF w
<1> QED
  BY <1>1, <1>2, <1>3, <1>4

LEMMA GroupTimesStay ==
  ASSUME NEW v, NEW w, NEW g, NEW d, GroupTimes(v, g, d),
         w.first_gop = v.first_gop, w.a_gop = v.a_gop
  PROVE  GroupTimes(w, g, d)
BY DEF GroupTimes

LEMMA StepTimes ==
  ASSUME NEW v \in Packing, NEW t \in StreamTokens, NEW G \in Nat \ {0}, NEW a \in Nat, NEW p \in Nat,
         PtsLimit > 0 => 3 * (G * PtsStep) <= PtsLimit,
         \/ /\ v.pc = "first" /\ a = 0 /\ p = 0 /\ t.kind = "seq"
            /\ v.dts = 0 /\ v.first_gop = 0 /\ v.a_gop = 0
         \/ v.pc # "first" /\ Timely(v, a, p, G),
         t.kind = "seq" => p = G * a
  PROVE  Timely(PesStep(v, t), a + (IF t.kind = "seq" THEN 1 ELSE 0),
               p + (IF t.kind = "pic" THEN 1 ELSE 0), G)
<1> DEFINE w == PesStep(v, t)
           d == G * PtsStep
           b == a + (IF t.kind = "seq" THEN 1 ELSE 0)
           q == p + (IF t.kind = "pic" THEN 1 ELSE 0)
<1>1. v.pc \in {"first", "skip", "scan", "look", "done", "exit"} /\ t.kind \in {"seq", "pic", "data"}
  BY TokenKinds DEF Packing
<1>2. v.dts \in Nat /\ v.frames \in Nat /\ v.first_gop \in Nat /\ v.a_gop \in Int
  BY DEF Packing
<1>3. PtsStep \in Nat /\ PtsStep >= 1 /\ PtsLimit \in Nat /\ G \in Nat /\ G >= 1
  BY TimesAssumption
<1>4. d \in Nat /\ d >= 1
  BY <1>3, Products
<1>5. PtsLimit > 0 => (d + d) + d <= PtsLimit
  <2>1. 3 * d = (d + d) + d
    BY <1>4
  <2> QED
    BY <2>1
<1>6. /\ t.kind = "seq" => b = a + 1 /\ q = p
      /\ t.kind = "pic" => b = a /\ q = p + 1
      /\ t.kind = "data" => b = a /\ q = p
  OBVIOUS
<1>7. b \in Nat /\ q \in Nat
  OBVIOUS
<1> HIDE DEF w, d, b, q
<1>8. CASE v.pc = "first"
  <2>1. w.pc = "skip" /\ w.dts = v.dts /\ w.frames = 1 /\ w.first_gop = v.first_gop /\ w.a_gop = v.a_gop
    BY <1>8, FirstIs, Zenon DEF w, Same
  <2>2. b = 1 /\ q = 0 /\ v.dts = 0 /\ v.first_gop = 0 /\ v.a_gop = 0
    BY <1>6, <1>8
  <2>3. Timely(w, b, q, G)
    BY <2>1, <2>2 DEF Timely
  <2> QED
    BY <2>3 DEF w, b, q
<1>9. CASE v.pc = "skip"
  <2>1. /\ w.frames = v.frames /\ w.first_gop = v.first_gop /\ w.a_gop = v.a_gop
        /\ IF t.kind = "pic" THEN w.pc = "scan" /\ w.dts = v.dts + PtsStep
           ELSE w.pc = "skip" /\ w.dts = v.dts
    BY <1>9, SkipIs DEF w, Same
  <2>2. p = 0 /\ a = 1 /\ v.dts = 0 /\ v.frames = 1 /\ v.first_gop = 0 /\ v.a_gop = 0
    BY <1>9 DEF Timely
  <2>3. t.kind # "seq"
    <3>1. G * 1 # 0
      BY <1>3
    <3> QED
      BY <2>2, <3>1
  <2>4. CASE t.kind = "pic"
    <3>1. b = 1 /\ q = 1 /\ w.pc = "scan" /\ w.frames = 1 /\ w.dts = PtsStep /\ w.first_gop = 0 /\ w.a_gop = 0
      BY <1>3, <1>6, <2>1, <2>2, <2>4
    <3>2. GroupTimes(w, 1, d)
      BY <3>1 DEF GroupTimes
    <3>3. 1 * PtsStep = PtsStep
      BY <1>3
    <3>4. Timely(w, b, q, G)
      <4>1. GroupTimes(w, b, G * PtsStep)
        BY <3>1, <3>2, Zenon DEF d
      <4>2. w.dts = q * PtsStep
        BY <3>1, <3>3, Zenon
      <4> QED
        BY <3>1, <4>1, <4>2 DEF Timely
    <3> QED
      BY <3>4 DEF w, b, q
  <2>5. CASE t.kind = "data"
    <3>1. b = 1 /\ q = 0 /\ w.pc = "skip" /\ w.frames = 1 /\ w.dts = 0 /\ w.first_gop = 0 /\ w.a_gop = 0
      BY <1>6, <2>1, <2>2, <2>5
    <3>2. Timely(w, b, q, G)
      BY <3>1 DEF Timely
    <3> QED
      BY <3>2 DEF w, b, q
  <2> QED
    BY <1>1, <2>3, <2>4, <2>5
<1>10. ASSUME v.pc = "scan" PROVE a >= 1 /\ GroupTimes(v, a, d) /\ v.frames = p /\ v.dts = p * PtsStep
  BY <1>10 DEF Timely, d
<1>11. CASE v.pc = "scan" /\ t.kind = "data"
  <2>1. /\ w.frames = v.frames /\ w.first_gop = v.first_gop /\ w.a_gop = v.a_gop
        /\ w.pc = "scan" /\ w.dts = v.dts
    BY <1>11, DataIs, Zenon DEF w, Same
  <2>2. GroupTimes(w, a, d)
    BY <1>10, <1>11, <2>1, GroupTimesStay
  <2>3. b = a /\ q = p
    BY <1>6, <1>11
  <2>4. Timely(w, b, q, G)
    BY <1>10, <1>11, <2>1, <2>2, <2>3 DEF Timely, d
  <2> QED
    BY <2>4 DEF w, b, q
<1>12. CASE v.pc = "scan" /\ t.kind = "pic"
  <2>1. /\ w.frames = v.frames + 1 /\ w.first_gop = v.first_gop /\ w.a_gop = v.a_gop
        /\ w.pc = "scan" /\ w.dts = v.dts + PtsStep
    BY <1>12, PictureIs, Zenon DEF w, Same
  <2>2. GroupTimes(w, a, d)
    BY <1>10, <1>12, <2>1, GroupTimesStay
  <2>3. b = a /\ q = p + 1
    BY <1>6, <1>12
  <2>4. (p + 1) * PtsStep = p * PtsStep + PtsStep
    BY <1>3, Products
  <2>5. w.dts = q * PtsStep /\ w.frames = q
    BY <1>10, <1>12, <2>1, <2>3, <2>4, Zenon
  <2>6. GroupTimes(w, b, G * PtsStep) /\ b >= 1
    BY <1>10, <1>12, <2>2, <2>3 DEF d
  <2>7. Timely(w, b, q, G)
    BY <2>1, <2>5, <2>6 DEF Timely
  <2> QED
    BY <2>7 DEF w, b, q
<1>13. CASE v.pc = "scan" /\ t.kind = "seq"
  <2>1. /\ w.frames = v.frames /\ w.first_gop = v.first_gop /\ w.a_gop = v.a_gop
        /\ w.pc = "look" /\ w.dts = v.dts
    BY <1>13, SequenceIs, Zenon DEF w
  <2>2. GroupTimes(w, a, d)
    BY <1>10, <1>13, <2>1, GroupTimesStay
  <2>3. b = a + 1 /\ q = p /\ p = G * a
    BY <1>6, <1>13
  <2>4. b - 1 = a /\ b >= 2
    BY <1>10, <1>13, <2>3
  <2>5. w.dts = q * PtsStep /\ w.frames = q /\ q = G * (b - 1) /\ GroupTimes(w, b - 1, G * PtsStep)
    BY <1>10, <1>13, <2>1, <2>2, <2>3, <2>4, Zenon DEF d
  <2>6. Timely(w, b, q, G)
    BY <2>1, <2>4, <2>5 DEF Timely
  <2> QED
    BY <2>6 DEF w, b, q
<1>14. ASSUME v.pc = "look"
       PROVE  a >= 2 /\ p = G * (a - 1) /\ GroupTimes(v, a - 1, d) /\ v.frames = p /\ v.dts = p * PtsStep
  BY <1>14 DEF Timely, d
<1>15. CASE v.pc = "look" /\ ~TooVerbose(v) /\ t.kind # "pic"
  <2>1. /\ w.frames = v.frames /\ w.first_gop = v.first_gop /\ w.a_gop = v.a_gop
        /\ w.pc = "look" /\ w.dts = v.dts
    BY <1>15, HeldIs, Zenon DEF w
  <2>2. t.kind # "seq"
    <3> SUFFICES ASSUME t.kind = "seq" PROVE FALSE
      OBVIOUS
    <3>1. G * a = G * (a - 1)
      BY <1>14, <1>15
    <3>2. a - 1 \in Nat /\ (a - 1) + 1 = a
      BY <1>14, <1>15
    <3>3. \A x \in Nat : G * (x + 1) = G * x + G /\ G * x \in Nat
      BY <1>3
    <3>4. G * a = G * (a - 1) + G /\ G * (a - 1) \in Nat
      BY <3>2, <3>3
    <3> DEFINE x == G * (a - 1)
               y == G * a
    <3> HIDE DEF x, y
    <3>5. y = x /\ y = x + G /\ x \in Nat
      BY <3>1, <3>4 DEF x, y
    <3> QED
      BY <1>3, <3>5
  <2>3. b = a /\ q = p
    BY <1>1, <1>6, <1>15, <2>2
  <2>4. GroupTimes(w, a - 1, d)
    BY <1>14, <1>15, <2>1, GroupTimesStay
  <2>5. Timely(w, b, q, G)
    BY <1>14, <1>15, <2>1, <2>3, <2>4 DEF Timely, d
  <2> QED
    BY <2>5 DEF w, b, q
<1>16. CASE v.pc = "look" /\ ~TooVerbose(v) /\ t.kind = "pic"
  <2> DEFINE x == Presented(v.dts, t.ref)
             g == a - 1
             e == g * d
             h == a * d
  <2>1. /\ x \in Nat
        /\ IF TooLong(v, x) THEN w = [v EXCEPT !.pc = "done"]
           ELSE /\ w.pc = "scan"
                /\ w.dts = v.dts + PtsStep /\ w.frames = v.frames + 1
                /\ w.first_gop = (IF v.first_gop = 0 /\ x > PtsStep THEN v.dts ELSE v.first_gop)
                /\ w.a_gop = (IF v.first_gop > 0 /\ v.a_gop = 0 THEN v.dts - v.first_gop ELSE v.a_gop)
    BY <1>16, GroupIs, Zenon DEF w
  <2>2. g \in Nat /\ g >= 1 /\ g + 1 = a
    BY <1>14, <1>16
  <2>3. v.dts = e /\ v.frames = p /\ v.frames * PtsStep = e
    <3>1. v.dts = p * PtsStep /\ p = G * g /\ v.frames = p
      BY <1>14, <1>16
    <3> HIDE DEF g
    <3>2. (G * g) * PtsStep = g * (G * PtsStep)
      BY <1>3, <2>2, Products
    <3> QED
      BY <3>1, <3>2, Zenon DEF e, d
  <2>4. e \in Nat /\ e >= d /\ (g = 1 => e = d) /\ (g = 2 => e = d + d) /\ h = e + d
    <3> HIDE DEF g
    <3>1. g * d \in Nat /\ (g + 1) * d = g * d + d /\ g * d >= d /\ 1 * d = d /\ 2 * d = d + d
      BY <1>4, <2>2, Products
    <3>2. h = e + d
      BY <2>2, <3>1, Zenon DEF e, h
    <3>3. (g = 1 => e = d) /\ (g = 2 => e = d + d)
      BY <3>1, Zenon DEF e
    <3> QED
      BY <3>1, <3>2, <3>3, Zenon DEF e
  <2>5. x >= e + PtsStep
    <3>1. t.ref \in Nat
      BY <1>16, TokenKinds
    <3> DEFINE r == t.ref * PtsStep
    <3>2. r \in Nat
      BY <1>3, <3>1, Products
    <3>3. x = (v.dts + r) + PtsStep
      BY DEF Presented
    <3> HIDE DEF r, x, e
    <3> QED
      BY <1>3, <2>3, <2>4, <3>2, <3>3
  <2>6. /\ v.first_gop = (IF g >= 2 THEN d ELSE 0) /\ v.a_gop = (IF g >= 3 THEN d ELSE 0)
        /\ (PtsLimit > 0 /\ g >= 3 => e <= PtsLimit)
    BY <1>14, <1>16 DEF GroupTimes
  <2>7. v.a_gop \in Nat
    BY <1>4, <2>6
  <2> HIDE DEF x, g, e, h
  <2>8. CASE TooLong(v, x)
    <3>1. PtsLimit > 0 /\ g >= 3
      <4>1. PtsLimit > 0 /\ v.a_gop > 0
        BY <2>8 DEF TooLong
      <4> QED
        BY <2>2, <2>6, <4>1
    <3>2. w = [v EXCEPT !.pc = "done"]
      BY <2>1, <2>8
    <3>3. w.pc = "done" /\ w.frames = v.frames
      BY <3>2 DEF Packing
    <3>4. w.frames * PtsStep <= PtsLimit
      <4>1. w.frames * PtsStep = e
        BY <2>3, <3>3, Zenon
      <4>2. e <= PtsLimit
        BY <2>6, <3>1
      <4> QED
        BY <4>1, <4>2, Zenon
    <3>5. Timely(w, b, q, G)
      BY <3>3, <3>4 DEF Timely
    <3> QED
      BY <3>5 DEF w, b, q
  <2>9. CASE ~TooLong(v, x)
    <3>1. ~(PtsLimit > 0 /\ v.first_gop > 0 /\ v.a_gop > 0 /\ x > v.first_gop
            /\ v.first_gop <= PtsLimit /\ x + v.a_gop >= PtsLimit)
      BY <2>9 DEF TooLong
    <3> DEFINE fg == v.first_gop
               ag == v.a_gop
    <3> HIDE DEF fg, ag
    <3>2. /\ fg \in Nat /\ ag \in Nat
          /\ fg = (IF g >= 2 THEN d ELSE 0) /\ ag = (IF g >= 3 THEN d ELSE 0)
          /\ ~(PtsLimit > 0 /\ fg > 0 /\ ag > 0 /\ x > fg /\ fg <= PtsLimit /\ x + ag >= PtsLimit)
      BY <1>2, <2>6, <2>7, <3>1, Zenon DEF fg, ag
    <3>3. h \in Nat
      BY <1>4, <2>4
    <3>4. /\ (IF fg = 0 /\ x > PtsStep THEN e ELSE fg) = (IF g + 1 >= 2 THEN d ELSE 0)
          /\ (IF fg > 0 /\ ag = 0 THEN e - fg ELSE ag) = (IF g + 1 >= 3 THEN d ELSE 0)
          /\ (PtsLimit > 0 /\ g + 1 >= 3 => h <= PtsLimit)
      <4> DEFINE s == PtsStep
                 l == PtsLimit
      <4>1. s \in Nat /\ s >= 1 /\ l \in Nat /\ d \in Nat /\ d >= 1 /\ (l > 0 => (d + d) + d <= l)
        BY <1>3, <1>4, <1>5
      <4>2. /\ x \in Nat /\ g \in Nat /\ g >= 1 /\ e \in Nat /\ e >= d /\ (g = 1 => e = d)
            /\ (g = 2 => e = d + d) /\ h = e + d /\ x >= e + s /\ h \in Nat
            /\ (l > 0 /\ g >= 3 => e <= l)
        BY <2>1, <2>2, <2>4, <2>5, <2>6, <3>3
      <4>3. /\ fg \in Nat /\ ag \in Nat
            /\ fg = (IF g >= 2 THEN d ELSE 0) /\ ag = (IF g >= 3 THEN d ELSE 0)
            /\ ~(l > 0 /\ fg > 0 /\ ag > 0 /\ x > fg /\ fg <= l /\ x + ag >= l)
        BY <3>2
      <4> HIDE DEF s, l
      <4>4. /\ (IF fg = 0 /\ x > s THEN e ELSE fg) = (IF g + 1 >= 2 THEN d ELSE 0)
            /\ (IF fg > 0 /\ ag = 0 THEN e - fg ELSE ag) = (IF g + 1 >= 3 THEN d ELSE 0)
            /\ (l > 0 /\ g + 1 >= 3 => h <= l)
        <5>1. CASE g = 1
          BY <4>1, <4>2, <4>3, <5>1
        <5>2. CASE g = 2
          BY <4>1, <4>2, <4>3, <5>2
        <5>3. CASE g >= 3
          BY <4>1, <4>2, <4>3, <5>3
        <5> QED
          BY <4>2, <5>1, <5>2, <5>3
      <4> QED
        BY <4>4 DEF s, l
    <3>5. /\ w.pc = "scan" /\ w.dts = v.dts + PtsStep /\ w.frames = v.frames + 1
          /\ w.first_gop = (IF fg = 0 /\ x > PtsStep THEN e ELSE fg)
          /\ w.a_gop = (IF fg > 0 /\ ag = 0 THEN e - fg ELSE ag)
      BY <2>1, <2>3, <2>9, Zenon DEF fg, ag
    <3>6. GroupTimes(w, a, d)
      <4>1. /\ w.first_gop = (IF a >= 2 THEN d ELSE 0)
            /\ w.a_gop = (IF a >= 3 THEN d ELSE 0)
            /\ (PtsLimit > 0 /\ a >= 3 => h <= PtsLimit)
        BY <2>2, <3>4, <3>5, Zenon
      <4> QED
        BY <4>1, Zenon DEF GroupTimes, h
    <3>7. b = a /\ q = p + 1 /\ a >= 1
      BY <1>6, <1>14, <1>16
    <3>8. (p + 1) * PtsStep = p * PtsStep + PtsStep
      BY <1>3, Products
    <3>9. w.dts = q * PtsStep /\ w.frames = q
      BY <1>14, <1>16, <3>5, <3>7, <3>8, Zenon
    <3>10. Timely(w, b, q, G)
      <4>1. GroupTimes(w, b, G * PtsStep)
        BY <3>6, <3>7, Zenon DEF d
      <4> QED
        BY <3>5, <3>7, <3>9, <4>1 DEF Timely
    <3> QED
      BY <3>10 DEF w, b, q
  <2> QED
    BY <2>8, <2>9
<1>17. CASE v.pc = "done"
  <2>1. w = v
    BY <1>17, DoneIs DEF w
  <2>2. v.frames * PtsStep <= PtsLimit
    BY <1>17 DEF Timely
  <2>3. Timely(w, b, q, G)
    BY <1>17, <2>1, <2>2 DEF Timely
  <2> QED
    BY <2>3 DEF w, b, q
<1>18. CASE v.pc = "exit" \/ (v.pc = "look" /\ TooVerbose(v))
  <2>1. w.pc = "exit"
    BY <1>18, DoneIs, ExitIs, Zenon DEF w
  <2>2. Timely(w, b, q, G)
    BY <2>1 DEF Timely
  <2> QED
    BY <2>2 DEF w, b, q
<1> QED
  BY <1>1, <1>8, <1>9, <1>11, <1>12, <1>13, <1>15, <1>16, <1>17, <1>18

\* Groups have one size, with which three of them end before pts_limit.
EvenGroups(s) ==
  \E G \in Nat \ {0} :
    /\ PtsLimit > 0 => 3 * (G * PtsStep) <= PtsLimit
    /\ \A i \in DOMAIN s : s[i].kind = "seq" => Count(s, "pic", i - 1) = G * Count(s, "seq", i - 1)

\* The header at j + 1 does not fit in header_buffer.
Unfit(s, j) ==
  /\ j + HeaderRoom <= Len(s) /\ s[j + 1].kind = "seq"
  /\ \A a \in j + 1..j + HeaderRoom - 1 : s[a].kind # "pic"

LEMMA PrefixIs ==
  ASSUME NEW s \in Seq(StreamTokens), NEW i \in 0..Len(s)
  PROVE  /\ SubSeq(s, 1, i) \in Seq(StreamTokens) /\ Len(SubSeq(s, 1, i)) = i
         /\ \A j \in 1..i : SubSeq(s, 1, i)[j] = s[j]
         /\ \A j \in 0..i : SubSeq(SubSeq(s, 1, i), 1, j) = SubSeq(s, 1, j)
<1> DEFINE z == SubSeq(s, 1, i)
           n == Len(s)
<1>1. n \in Nat /\ i \in Nat /\ i <= n /\ \A j \in 1..n : s[j] \in StreamTokens
  OBVIOUS
<1>2. Len(z) = i /\ \A j \in 1..i : z[j] = s[j]
  BY <1>1
<1>3. z \in Seq(StreamTokens)
  BY <1>1
<1>4. ASSUME NEW j \in 0..i PROVE SubSeq(z, 1, j) = SubSeq(s, 1, j)
  <2>1. SubSeq(z, 1, j) = [q \in 1..j |-> z[q]] /\ SubSeq(s, 1, j) = [q \in 1..j |-> s[q]]
    <3> HIDE DEF z
    <3> QED
      OBVIOUS
  <2>2. \A q \in 1..j : z[q] = s[q]
    BY <1>2
  <2> HIDE DEF z
  <2> QED
    BY <2>1, <2>2
<1> QED
  BY <1>2, <1>3, <1>4

\* The first j tokens are those written, when those read are written or held.
LEMMA WrittenPrefix ==
  ASSUME NEW z \in Seq(StreamTokens), NEW q \in Seq(Tokens), NEW h \in Seq(Tokens), q \o h = z
  PROVE  LET j == Len(q)
         IN  /\ j \in Nat /\ j + Len(h) = Len(z) /\ q = SubSeq(z, 1, j)
             /\ \A a \in 1..Len(h) : z[j + a] = h[a]
<1> DEFINE j == Len(q)
<1>1. /\ Len(z) = Len(q) + Len(h) /\ Len(h) \in Nat /\ j \in Nat
      /\ \A a \in 1..Len(h) : z[j + a] = h[a]
  <2>1. /\ Len(q \o h) = Len(q) + Len(h)
        /\ \A a \in 1..Len(h) : (q \o h)[Len(q) + a] = h[a]
    BY JoinIs, Zenon
  <2>2. Len(q) \in Nat /\ Len(h) \in Nat
    OBVIOUS
  <2> QED
    BY <2>1, <2>2, Zenon
<1>2. q = SubSeq(q \o h, 1, j)
  <2>1. \A a \in 1..j : (q \o h)[a] = q[a]
    OBVIOUS
  <2> DEFINE y == q \o h
  <2>2. y = z /\ y \in Seq(StreamTokens) /\ Len(y) >= j
    BY <1>1
  <2>3. q = [a \in 1..j |-> q[a]]
    OBVIOUS
  <2> HIDE DEF y, j
  <2>4. SubSeq(y, 1, j) = [a \in 1..j |-> y[a]]
    BY <1>1, <2>2
  <2> QED
    BY <2>1, <2>3, <2>4 DEF y
<1> QED
  BY <1>1, <1>2

\* What was read so far.
LEMMA StreamHolds ==
  ASSUME NEW s, IsStream(s), NEW f \in [0..Len(s) -> Packing], f[0] = PesStart,
         \A i \in 1..Len(s) : f[i] = PesStep(f[i - 1], s[i])
  PROVE  \A i \in 1..Len(s) :
           \/ Holds(f[i], SubSeq(s, 1, i))
           \/ /\ f[i].pc = "done"
              /\ \E j \in 0..Len(s) - 1 : EsOf(f[i].out) = SubSeq(s, 1, j)
           \/ /\ f[i].pc = "exit"
              /\ \E j \in 0..Len(s) - 1 : EsOf(f[i].out) = SubSeq(s, 1, j) /\ Unfit(s, j)
<1> DEFINE n == Len(s)
           D(v) == \E j \in 0..n - 1 : EsOf(v.out) = SubSeq(s, 1, j)
           X(v) == \E j \in 0..n - 1 : EsOf(v.out) = SubSeq(s, 1, j) /\ Unfit(s, j)
           H(i) == \/ Holds(f[i], SubSeq(s, 1, i))
                   \/ f[i].pc = "done" /\ D(f[i])
                   \/ f[i].pc = "exit" /\ X(f[i])
           M == {i \in Nat : i <= n => i = 0 \/ H(i)}
<1>1. s \in Seq(StreamTokens) /\ n \in Nat /\ \A i \in 1..n : s[i] \in StreamTokens
  BY DEF IsStream
<1>2. f[0].pc = "first" /\ f[0].held = <<>> /\ SubSeq(s, 1, 0) = <<>>
  BY <1>1 DEF PesStart
<1> HIDE DEF H, n
<1>3. 0 \in M
  OBVIOUS
<1>4. ASSUME NEW i \in Nat, i \in M PROVE i + 1 \in M
  <2> SUFFICES ASSUME i + 1 <= n PROVE H(i + 1)
    OBVIOUS
  <2>1. i <= n /\ i + 1 \in 1..n /\ i \in 0..n /\ (i + 1) - 1 = i
    BY <1>1
  <2>2. i = 0 \/ H(i)
    BY <1>4, <2>1
  <2> HIDE DEF M
  <2> DEFINE v == f[i]
             w == f[i + 1]
             t == s[i + 1]
             z == SubSeq(s, 1, i)
  <2>3. v \in Packing /\ t \in StreamTokens /\ w = PesStep(v, t)
    BY <1>1, <2>1 DEF n
  <2>4. z \in Seq(StreamTokens) /\ Len(z) = i /\ SubSeq(s, 1, i + 1) = Append(z, t)
    <3>1. z \in Seq(StreamTokens) /\ Len(z) = i
      BY <1>1, <2>1, PrefixIs DEF n
    <3>2. SubSeq(s, 1, i + 1) = Append(z, t)
      BY <1>1, <2>1 DEF n
    <3> QED
      BY <3>1, <3>2
  <2>5. CASE v.pc \in {"done", "exit"}
    <3>1. w = v
      BY <2>3, <2>5, DoneIs
    <3>2. H(i)
      BY <1>2, <2>2, <2>5
    <3> HIDE DEF D, X
    <3>3. (v.pc = "done" /\ D(v)) \/ (v.pc = "exit" /\ X(v))
      BY <2>5, <3>2 DEF H, Holds
    <3> QED
      BY <3>1, <3>3 DEF H
  <2>6. CASE v.pc \notin {"done", "exit"}
    <3>1. \/ v.pc = "first" /\ v.held = <<>> /\ z = <<>>
          \/ Holds(v, z)
      <4>1. CASE i = 0
        BY <1>2, <4>1
      <4>2. CASE H(i)
        BY <2>6, <4>2 DEF H
      <4> QED
        BY <2>2, <4>1, <4>2
    <3>2. \/ Holds(PesStep(v, t), Append(z, t))
          \/ v.pc = "look" /\ PesStep(v, t).pc = "done" /\ PesStep(v, t).out = v.out
          \/ /\ v.pc = "look" /\ TooVerbose(v)
             /\ PesStep(v, t).pc = "exit" /\ PesStep(v, t).out = v.out
      BY <2>3, <2>4, <3>1, StepHolds
    <3>3. CASE Holds(PesStep(v, t), Append(z, t))
      <4>1. Holds(w, SubSeq(s, 1, i + 1))
        BY <2>3, <2>4, <3>3, Zenon
      <4> QED
        BY <4>1 DEF H
    <3>4. CASE /\ v.pc = "look" /\ PesStep(v, t).out = v.out
               /\ \/ PesStep(v, t).pc = "done"
                  \/ TooVerbose(v) /\ PesStep(v, t).pc = "exit"
      <4>1. EsOf(v.out) \o v.held = z /\ Opening(v.held)
        BY <3>1, <3>4 DEF Holds
      <4> DEFINE q == EsOf(v.out)
                 h == v.held
                 j == Len(q)
      <4>2. q \in Seq(Tokens) /\ h \in Seq(Tokens)
        <5>1. v.out \in Seq(Tokens) /\ v.held \in Seq(StreamTokens)
          BY <2>3 DEF Packing
        <5> QED
          BY <5>1, EsType, StreamSmooth
      <4> HIDE DEF v, w, t, z
      <4> HIDE DEF q, h
      <4>3. /\ j \in Nat /\ Len(h) \in Nat /\ j + Len(h) = i /\ q = SubSeq(z, 1, j)
            /\ \A a \in 1..Len(h) : z[j + a] = h[a]
        <5>1. q \o h = z
          BY <4>1 DEF q, h
        <5>2. /\ Len(q) \in Nat /\ Len(q) + Len(h) = Len(z) /\ q = SubSeq(z, 1, Len(q))
              /\ \A a \in 1..Len(h) : z[Len(q) + a] = h[a]
          BY <2>4, <4>2, <5>1, WrittenPrefix, Zenon
        <5>3. Len(h) \in Nat
          BY <4>2
        <5> QED
          BY <2>4, <5>2, <5>3
      <4> HIDE DEF j
      <4>4. j \in 0..n - 1 /\ j \in 0..i
        BY <1>1, <2>1, <4>3
      <4>5. SubSeq(z, 1, j) = SubSeq(s, 1, j)
        BY <1>1, <2>1, <4>4, PrefixIs DEF n, z
      <4>6. EsOf(w.out) = SubSeq(s, 1, j)
        BY <2>3, <3>4, <4>3, <4>5 DEF q
      <4>7. CASE w.pc = "done"
        BY <4>4, <4>6, <4>7 DEF H, w
      <4>8. CASE w.pc = "exit"
        <5>1. Len(h) + 1 >= HeaderRoom /\ HeaderRoom \in Nat /\ HeaderRoom >= 2
          <6>1. w.pc # "done"
            BY <4>8
          <6>2. TooVerbose(v)
            BY <2>3, <3>4, <6>1
          <6> QED
            BY <6>2, HeaderAssumption DEF TooVerbose, h
        <5>2. \A a \in 1..i : z[a] = s[a]
          BY <1>1, <2>1, PrefixIs DEF n, z
        <5>3. /\ h[1].kind = "seq" /\ \A a \in 1..Len(h) : h[a].kind # "pic"
          BY <4>1 DEF Opening, h
        <5>4. \A a \in 1..Len(h) : s[j + a] = h[a]
          <6>1. \A a \in 1..Len(h) : j + a \in 1..i
            BY <4>3
          <6> QED
            BY <4>3, <5>2, <6>1
        <5>5. s[j + 1].kind = "seq"
          <6>1. 1 \in 1..Len(h)
            BY <4>3, <5>1
          <6> QED
            BY <5>3, <5>4, <6>1
        <5>6. ASSUME NEW a \in j + 1..j + HeaderRoom - 1 PROVE s[a].kind # "pic"
          <6>1. a - j \in 1..Len(h) /\ j + (a - j) = a
            BY <4>3, <5>1
          <6>2. s[j + (a - j)] = h[a - j] /\ h[a - j].kind # "pic"
            BY <5>3, <5>4, <6>1
          <6> QED
            BY <6>1, <6>2
        <5>7. j + HeaderRoom <= n
          BY <1>1, <2>1, <4>3, <5>1
        <5>8. Unfit(s, j)
          BY <5>5, <5>6, <5>7 DEF Unfit, n
        <5> QED
          BY <4>4, <4>6, <4>8, <5>8 DEF H, w
      <4> QED
        BY <2>3, <3>4, <4>7, <4>8
    <3> QED
      BY <3>2, <3>3, <3>4
  <2> QED
    BY <2>5, <2>6
<1> HIDE DEF M
<1>5. \A i \in Nat : i \in M
  BY <1>3, <1>4, Counting
<1>6. \A i \in 1..n : H(i)
  <2>1. \A i \in 1..n : i \in Nat /\ i <= n /\ i # 0
    BY <1>1
  <2> QED
    BY <1>5, <2>1 DEF M
<1> QED
  BY <1>6 DEF H, n

LEMMA StreamTimes ==
  ASSUME NEW s, IsStream(s), NEW f \in [0..Len(s) -> Packing], f[0] = PesStart,
         \A i \in 1..Len(s) : f[i] = PesStep(f[i - 1], s[i]),
         NEW G \in Nat \ {0}, PtsLimit > 0 => 3 * (G * PtsStep) <= PtsLimit,
         \A i \in DOMAIN s : s[i].kind = "seq" => Count(s, "pic", i - 1) = G * Count(s, "seq", i - 1),
         \A i \in 1..Len(s) : f[i].pc # "first"
  PROVE  \A i \in 1..Len(s) : Timely(f[i], Count(s, "seq", i), Count(s, "pic", i), G)
<1> DEFINE n == Len(s)
           H(i) == Timely(f[i], Count(s, "seq", i), Count(s, "pic", i), G)
           M == {i \in Nat : i <= n => i = 0 \/ H(i)}
<1>1. /\ s \in Seq(StreamTokens) /\ n \in Nat /\ (\A i \in 1..n : s[i] \in StreamTokens)
      /\ DOMAIN s = 1..n /\ s[1].kind = "seq"
  BY DEF IsStream
<1>2. f[0].pc = "first" /\ f[0].dts = 0 /\ f[0].first_gop = 0 /\ f[0].a_gop = 0
  BY DEF PesStart
<1> HIDE DEF H, n
<1>3. 0 \in M
  OBVIOUS
<1>4. ASSUME NEW i \in Nat, i \in M PROVE i + 1 \in M
  <2> SUFFICES ASSUME i + 1 <= n PROVE H(i + 1)
    OBVIOUS
  <2>1. i <= n /\ i + 1 \in 1..n /\ i \in 0..n /\ (i + 1) - 1 = i
    BY <1>1
  <2>2. i = 0 \/ H(i)
    BY <1>4, <2>1
  <2> HIDE DEF M
  <2> DEFINE v == f[i]
             w == f[i + 1]
             t == s[i + 1]
             a == Count(s, "seq", i)
             p == Count(s, "pic", i)
  <2>3. v \in Packing /\ t \in StreamTokens /\ w = PesStep(v, t)
    BY <1>1, <2>1 DEF n
  <2>4. /\ a \in Nat /\ p \in Nat
        /\ Count(s, "seq", i + 1) = a + (IF t.kind = "seq" THEN 1 ELSE 0)
        /\ Count(s, "pic", i + 1) = p + (IF t.kind = "pic" THEN 1 ELSE 0)
    BY CountNext
  <2>5. t.kind = "seq" => p = G * a
    BY <1>1, <2>1
  <2>6. \/ /\ v.pc = "first" /\ a = 0 /\ p = 0 /\ t.kind = "seq"
           /\ v.dts = 0 /\ v.first_gop = 0 /\ v.a_gop = 0
        \/ v.pc # "first" /\ Timely(v, a, p, G)
    <3>1. CASE i = 0
      <4>1. Count(s, "seq", 0) = 0 /\ Count(s, "pic", 0) = 0
        BY CountNext
      <4>2. v = f[0] /\ t = s[1] /\ a = Count(s, "seq", 0) /\ p = Count(s, "pic", 0)
        BY <3>1
      <4> HIDE DEF v, t, a, p
      <4> QED
        BY <1>1, <1>2, <4>1, <4>2
    <3>2. CASE i # 0
      <4>1. i \in 1..n
        BY <2>1, <3>2
      <4>2. v.pc # "first"
        BY <4>1 DEF n
      <4> QED
        BY <2>2, <3>2, <4>2 DEF H
    <3> QED
      BY <3>1, <3>2
  <2> HIDE DEF v, w, t, a, p
  <2>7. Timely(PesStep(v, t), a + (IF t.kind = "seq" THEN 1 ELSE 0),
               p + (IF t.kind = "pic" THEN 1 ELSE 0), G)
    BY <2>3, <2>4, <2>5, <2>6, StepTimes
  <2>8. Timely(w, Count(s, "seq", i + 1), Count(s, "pic", i + 1), G)
    BY <2>3, <2>4, <2>7, Zenon
  <2> QED
    BY <2>8 DEF H, w
<1> HIDE DEF M
<1>5. \A i \in Nat : i \in M
  BY <1>3, <1>4, Counting
<1>6. \A i \in 1..n : H(i)
  <2>1. \A i \in 1..n : i \in Nat /\ i <= n /\ i # 0
    BY <1>1
  <2> QED
    BY <1>5, <2>1 DEF M
<1> QED
  BY <1>6 DEF H, n

\* The last bytes of the stream stay in the buffer, and all the others are written.
LEMMA StreamIsCut ==
  ASSUME NEW s \in Seq(StreamTokens), NEW o, Written(o), EsOf(o) = s
  PROVE  LET e == EsOf(Append(Front(o), Cut(Last(o))))
         IN  Len(e) = Len(s) /\ Front(e) = Front(s)
<1> DEFINE l == Last(o)
           b == Front(o)
           q == EsOf(b)
<1>1. o \in Seq(Tokens) /\ o # <<>> /\ o[Len(o)] \in StreamTokens
  <2>1. o \in Seq(Tokens) /\ Len(o) >= 3 /\ o[Len(o)] \in StreamTokens
    BY DEF Written
  <2> QED
    BY <2>1
<1>2. /\ b \in Seq(Tokens) /\ l \in StreamTokens /\ Append(b, l) = o
  <2>1. b \in Seq(Tokens) /\ l = o[Len(o)] /\ b \o <<l>> = o /\ l \in Tokens
    BY <1>1, FrontAndLast
  <2> HIDE DEF b, l
  <2>2. b \o <<l>> = Append(b, l)
    BY <2>1
  <2> QED
    BY <1>1, <2>1, <2>2
<1>3. ~IsHeader(l) /\ l \in Tokens /\ Cut(l) \in Tokens /\ ~IsHeader(Cut(l))
  BY <1>2, TokenKinds DEF IsHeader
<1> HIDE DEF b, l
<1>4. EsOf(Append(b, l)) = Append(q, l) /\ EsOf(Append(b, Cut(l))) = Append(q, Cut(l))
  BY <1>2, <1>3, EsAppend
<1>5. s = Append(q, l) /\ q \in Seq(Tokens)
  BY <1>2, <1>4, EsType
<1> DEFINE x == Cut(l)
<1>6. x \in Tokens
  BY <1>3
<1> HIDE DEF q, x
<1>7. \A y \in Tokens : Len(Append(q, y)) = Len(q) + 1 /\ Front(Append(q, y)) = q
  <2> SUFFICES ASSUME NEW y \in Tokens PROVE Len(Append(q, y)) = Len(q) + 1 /\ Front(Append(q, y)) = q
    OBVIOUS
  <2> DEFINE z == Append(q, y)
             n == Len(q)
  <2>1. z \in Seq(Tokens) /\ Len(z) = n + 1 /\ n \in Nat /\ \A i \in 1..n : z[i] = q[i]
    BY <1>5
  <2>2. q = [i \in 1..n |-> q[i]]
    BY <1>5
  <2> HIDE DEF z, n
  <2>3. Front(z) = [i \in 1..n |-> z[i]]
    <3>1. Front(z) = SubSeq(z, 1, n)
      BY <2>1 DEF Front
    <3>2. SubSeq(z, 1, n) = [i \in 1..n |-> z[i]]
      BY <2>1
    <3> QED
      BY <3>1, <3>2
  <2> QED
    BY <2>1, <2>2, <2>3 DEF z, n
<1> QED
  BY <1>3, <1>4, <1>5, <1>6, <1>7 DEF b, l, x

\* So for a stream that is closed.
LEMMA ClosedEven ==
  ASSUME NEW s, IsStream(s), EvenGroups(s)
  PROVE  EvenGroups(Closed(s))
<1> DEFINE e == Closed(s)
<1>1. /\ Len(s) \in Nat /\ Len(e) \in Nat /\ DOMAIN s = 1..Len(s) /\ DOMAIN e = 1..Len(e)
      /\ \A i \in 1..Len(s) : e[i] = s[i]
      /\ \A i \in Len(s) + 1..Len(e) : e[i].kind = "pic"
  <2>1. s \in Seq(StreamTokens) /\ e \in Seq(StreamTokens)
    BY ClosedIs DEF IsStream
  <2> HIDE DEF e
  <2>2. Len(s) \in Nat /\ Len(e) \in Nat /\ DOMAIN s = 1..Len(s) /\ DOMAIN e = 1..Len(e)
    BY <2>1
  <2> QED
    BY <2>2, ClosedIs DEF e
<1> HIDE DEF e
<1>2. ASSUME NEW i \in 1..Len(s), NEW x PROVE Count(e, x, i - 1) = Count(s, x, i - 1)
  <2>1. \A j \in 1..i - 1 : e[j] = s[j]
    BY <1>1
  <2>2. {j \in 1..i - 1 : e[j].kind = x} = {j \in 1..i - 1 : s[j].kind = x}
    BY <2>1
  <2> QED
    BY <2>2 DEF Count
<1>3. ASSUME NEW i \in DOMAIN e, e[i].kind = "seq" PROVE i \in DOMAIN s /\ s[i].kind = "seq"
  <2>1. i \in 1..Len(s) \/ i \in Len(s) + 1..Len(e)
    BY <1>1
  <2>2. i \notin Len(s) + 1..Len(e)
    BY <1>1, <1>3
  <2> QED
    BY <1>1, <1>3, <2>1, <2>2
<1>4. PICK G \in Nat \ {0} :
        /\ PtsLimit > 0 => 3 * (G * PtsStep) <= PtsLimit
        /\ \A i \in DOMAIN s : s[i].kind = "seq" => Count(s, "pic", i - 1) = G * Count(s, "seq", i - 1)
  BY DEF EvenGroups
<1>5. ASSUME NEW i \in DOMAIN e, e[i].kind = "seq"
      PROVE  Count(e, "pic", i - 1) = G * Count(e, "seq", i - 1)
  BY <1>1, <1>2, <1>3, <1>4, <1>5
<1>6. EvenGroups(e)
  BY <1>4, <1>5 DEF EvenGroups
<1> QED
  BY <1>6 DEF e

\* pes2es gives back what esvideo2pes is given, from the beginning to pts_limit or to a header
\* that does not fit in header_buffer; and all but the last bytes, if there is neither.
LEMMA StreamIsKept ==
  ASSUME NEW s, IsStream(s), EvenGroups(s)
  PROVE  KeepsStream(s)
<1> DEFINE e == Closed(s)
           n == Len(e)
           v == Packed(s)
<1>a. IsStream(e) /\ EvenGroups(e)
  BY ClosedIs, ClosedEven
<1>b. /\ Len(s) \in Nat /\ s \in Seq(StreamTokens) /\ Len(s) <= Len(e) /\ Len(e) <= Len(s) + 1
      /\ \A i \in 1..Len(s) : e[i] = s[i]
      /\ Scanned(s).pc = "look" => e[Len(e)].kind = "pic"
      /\ Scanned(s).pc # "look" => e = s
  <2>1. s \in Seq(StreamTokens) /\ Len(s) \in Nat
    BY DEF IsStream
  <2> QED
    BY <2>1, ClosedIs
<1>c. v = Scanned(e)
  BY DEF Packed
<1> HIDE DEF e, v
<1>1. e \in Seq(StreamTokens) /\ e # <<>> /\ n \in Nat /\ n \in 1..n /\ SubSeq(e, 1, n) = e
  <2>1. e \in Seq(StreamTokens) /\ e # <<>>
    BY <1>a DEF IsStream
  <2> QED
    BY <2>1
<1>2. PICK f \in [0..Len(e) -> Packing] :
        /\ f[0] = PesStart /\ \A i \in 1..Len(e) : f[i] = PesStep(f[i - 1], e[i])
        /\ Scanned(e) = f[Len(e)]
  BY <1>1, ScannedIs
<1>3. \A i \in 1..Len(e) : f[i].pc # "first" /\ Written(f[i].out)
  BY <1>a, <1>2, AlwaysWell
<1>4. \A i \in 1..Len(e) :
        \/ Holds(f[i], SubSeq(e, 1, i))
        \/ /\ f[i].pc = "done"
           /\ \E j \in 0..Len(e) - 1 : EsOf(f[i].out) = SubSeq(e, 1, j)
        \/ /\ f[i].pc = "exit"
           /\ \E j \in 0..Len(e) - 1 : EsOf(f[i].out) = SubSeq(e, 1, j) /\ Unfit(e, j)
  BY <1>a, <1>2, StreamHolds
<1>6. PICK G \in Nat \ {0} :
        /\ PtsLimit > 0 => 3 * (G * PtsStep) <= PtsLimit
        /\ \A i \in DOMAIN e : e[i].kind = "seq" => Count(e, "pic", i - 1) = G * Count(e, "seq", i - 1)
  BY <1>a DEF EvenGroups
<1>7. \A i \in 1..Len(e) : Timely(f[i], Count(e, "seq", i), Count(e, "pic", i), G)
  <2>1. \A i \in 1..Len(e) : f[i].pc # "first"
    BY <1>3
  <2> QED
    BY <1>a, <1>2, <1>6, <2>1, StreamTimes
<1>8. v = f[n] /\ v \in Packing
  <2>1. n \in 0..n
    BY <1>1
  <2> QED
    BY <1>2, <1>c, <2>1
<1>9. /\ v.pc # "first" /\ Written(v.out) /\ Timely(v, Count(e, "seq", n), Count(e, "pic", n), G)
      /\ \/ Holds(v, e)
         \/ v.pc = "done" /\ \E j \in 0..n - 1 : EsOf(v.out) = SubSeq(e, 1, j)
         \/ v.pc = "exit" /\ \E j \in 0..n - 1 : EsOf(v.out) = SubSeq(e, 1, j) /\ Unfit(e, j)
  BY <1>1, <1>3, <1>4, <1>7, <1>8, Zenon
<1> HIDE DEF n
<1>d. ASSUME NEW j \in 0..n - 1
      PROVE  j \in 0..Len(s) /\ SubSeq(e, 1, j) = SubSeq(s, 1, j) /\ Len(SubSeq(s, 1, j)) = j
  <2>1. j \in 0..Len(s) /\ j \in 0..Len(e)
    BY <1>1, <1>b DEF n
  <2>2. \A i \in 1..j : e[i] = s[i]
    BY <1>b, <2>1
  <2>3. SubSeq(e, 1, j) = [i \in 1..j |-> e[i]] /\ SubSeq(s, 1, j) = [i \in 1..j |-> s[i]]
    BY <1>1, <1>b, <2>1
  <2>4. Len(SubSeq(s, 1, j)) = j
    BY <1>b, <2>1, PrefixIs
  <2> QED
    BY <2>1, <2>2, <2>3, <2>4
<1>10. CASE v.pc \in {"done", "exit"}
  <2>1. PICK j \in 0..n - 1 : EsOf(v.out) = SubSeq(e, 1, j) /\ (v.pc = "exit" => Unfit(e, j))
    BY <1>9, <1>10 DEF Holds
  <2>2. PesOf(s) = v.out
    BY <1>10, Zenon DEF PesOf, v
  <2>3. EsOf(PesOf(s)) = SubSeq(s, 1, j) /\ Len(EsOf(PesOf(s))) = j
    BY <1>d, <2>1, <2>2
  <2>4. CASE v.pc = "done"
    <3>1. Length(s) <= PtsLimit
      <4>1. v.frames * PtsStep <= PtsLimit
        BY <1>9, <2>4 DEF Timely
      <4> QED
        BY <4>1 DEF Length, v
    <3> QED
      BY <2>3, <2>4, <3>1 DEF KeepsStream, v
  <2>5. CASE v.pc = "exit"
    <3>1. /\ j + HeaderRoom <= Len(e) /\ e[j + 1].kind = "seq"
          /\ \A a \in j + 1..j + HeaderRoom - 1 : e[a].kind # "pic"
      BY <2>1, <2>5 DEF Unfit
    <3>2. /\ j + HeaderRoom - 1 <= Len(s) /\ j + 1 \in 1..Len(s)
          /\ \A a \in j + 1..j + HeaderRoom - 1 : a \in 1..Len(s)
      <4>1. HeaderRoom \in Nat /\ HeaderRoom >= 2 /\ Len(e) \in Nat
        BY <1>1, HeaderAssumption DEF n
      <4> QED
        BY <1>b, <3>1, <4>1
    <3>3. s[j + 1].kind = "seq" /\ \A a \in j + 1..j + HeaderRoom - 1 : s[a].kind # "pic"
      BY <1>b, <3>1, <3>2
    <3> QED
      BY <2>3, <2>5, <3>2, <3>3 DEF KeepsStream, v
  <2> QED
    BY <1>10, <2>4, <2>5
<1>11. CASE v.pc \notin {"done", "exit"}
  <2>1. Holds(v, e)
    BY <1>9, <1>11
  <2> DEFINE o == v.out
             h == v.held
             q == EsOf(o)
  <2>2. /\ o \in Seq(Tokens) /\ h \in Seq(StreamTokens) /\ h \in Seq(Tokens) /\ q \in Seq(Tokens)
        /\ q \o h = e
    <3>1. o \in Seq(Tokens) /\ h \in Seq(StreamTokens)
      BY <1>8 DEF Packing
    <3> QED
      BY <2>1, <3>1, StreamSmooth, EsType DEF Holds
  <2>3. h = <<>>
    <3> SUFFICES ASSUME v.pc = "look", Opening(h) PROVE FALSE
      BY <2>1 DEF Holds
    <3>1. e[Len(e)].kind = "pic"
      BY <1>b, <1>c
    <3> HIDE DEF q, h
    <3>2. h # <<>> /\ \A j \in 1..Len(h) : h[j].kind # "pic"
      BY DEF Opening
    <3>3. Len(h) \in 1..Len(h)
      BY <2>2, <3>2
    <3>4. Len(q) + Len(h) = Len(e) /\ e[Len(q) + Len(h)] = h[Len(h)]
      BY <1>1, <2>2, <3>3, WrittenPrefix
    <3> QED
      BY <3>1, <3>2, <3>3, <3>4
  <2>4. EsOf(o) = e
    <3>1. q \o <<>> = q
      BY <2>2, JoinIs
    <3> QED
      BY <2>2, <2>3, <3>1, Zenon DEF q
  <2>5. LET g == EsOf(Append(Front(o), Cut(Last(o))))
        IN  Len(g) = Len(e) /\ Front(g) = Front(e)
    BY <1>1, <1>9, <2>4, StreamIsCut
  <2>6. PesOf(s) = Append(Front(o), Cut(Last(o)))
    BY <1>11, Zenon DEF PesOf, v
  <2> QED
    BY <1>11, <2>5, <2>6 DEF KeepsStream, v, e
<1> QED
  BY <1>10, <1>11

\* What the files are, from the beginning on.
FilesWell ==
  \A i \in DOMAIN files : /\ IsStream(files[i].stream) /\ EvenGroups(files[i].stream)
                          /\ files[i].pes = PesOf(files[i].stream)

\* esvideo2pes and pesdata2ts keep every file, whatever its stream is, up to pts_limit or to a
\* header that does not fit in header_buffer, if it begins with a sequence header and pictures
\* are in groups of one size, of which three end before pts_limit.
THEOREM EveryFileIsKept ==
  ASSUME \A u \in VideoFiles : \A i \in DOMAIN u : EvenGroups(u[i].stream)
  PROVE  Spec => []FilesAreKept
<1>1. \A u \in VideoFiles : \A i \in DOMAIN FilesOf(u) :
        /\ IsStream(FilesOf(u)[i].stream) /\ EvenGroups(FilesOf(u)[i].stream)
        /\ FilesOf(u)[i].pes = PesOf(FilesOf(u)[i].stream)
  <2> SUFFICES ASSUME NEW u \in VideoFiles, NEW i \in DOMAIN FilesOf(u)
               PROVE  /\ IsStream(FilesOf(u)[i].stream) /\ EvenGroups(FilesOf(u)[i].stream)
                      /\ FilesOf(u)[i].pes = PesOf(FilesOf(u)[i].stream)
    OBVIOUS
  <2>1. /\ i \in DOMAIN u /\ FilesOf(u)[i].stream = u[i].stream
        /\ FilesOf(u)[i].pes = PesOf(u[i].stream)
    BY DEF FilesOf
  <2>2. IsStream(u[i].stream) /\ EvenGroups(u[i].stream)
    BY <2>1, PackagingAssumption
  <2> QED
    BY <2>1, <2>2
<1>2. Init => FilesWell
  <2> SUFFICES ASSUME Init PROVE FilesWell
    OBVIOUS
  <2>1. PICK u \in VideoFiles : files = FilesOf(u)
    <3>1. Some(VideoFiles) \in VideoFiles
      BY PackagingAssumption DEF Some
    <3> QED
      BY <3>1 DEF Init
  <2> QED
    BY <1>1, <2>1 DEF FilesWell
<1>3. FilesWell /\ [Next]_vars => FilesWell'
  <2> SUFFICES ASSUME FilesWell, [Next]_vars PROVE FilesWell'
    OBVIOUS
  <2>1. files' = files
    <3>1. CASE VideoPart
      BY <3>1 DEF VideoPart, VideoNext, Look, NextFile, FindHeader, Fill, Send, Null, GoOn, Reopen,
                  reader
    <3>2. CASE AudioPart
      BY <3>2 DEF AudioPart, videoVars
    <3>3. CASE UNCHANGED vars
      BY <3>3 DEF vars, videoVars
    <3> QED
      BY <3>1, <3>2, <3>3 DEF Next
  <2> QED
    BY <2>1 DEF FilesWell
<1>4. FilesWell => FilesAreKept
  <2> SUFFICES ASSUME FilesWell, NEW i \in DOMAIN files
               PROVE  KeepsStream(files[i].stream) /\ KeepsData(files[i].pes)
    BY DEF FilesAreKept
  <2> DEFINE s == files[i].stream
             p == PesOf(s)
  <2>1. IsStream(s) /\ EvenGroups(s) /\ files[i].pes = p
    BY DEF FilesWell
  <2> HIDE DEF s
  <2>2. SoundFile(Tokens, p)
    BY <2>1, PesIsSound
  <2> HIDE DEF p
  <2>3. p \in Seq(Tokens) /\ Len(p) >= 1 /\ p[1].kind = "pes"
    <3>1. p \in Seq(Tokens) /\ Len(p) >= 2 /\ p[1].kind = "pes"
      BY <2>2 DEF SoundFile
    <3> QED
      BY <3>1
  <2> QED
    BY <2>1, <2>3, StreamIsKept, DataIsKept DEF s
<1> QED
  BY <1>2, <1>3, <1>4, PTL DEF Spec

-----------------------------------------------------------------------------
(* Decoding times.                                                             *)

\* The decoding time in the header at i.
TimeAt(p, i) == IF p[i].both THEN p[i + 1].dts ELSE p[i].pts

\* The second header of a file is at s, and is a frame later than the first.
Learnable(p, s) ==
  /\ s \in 2..Len(p) /\ p[s].kind = "pes" /\ \A i \in 2..(s - 1) : p[i].kind # "pes"
  /\ TimeAt(p, s) = (TimeAt(p, 1) + PtsStep) % PtsMax

\* Until the step is known: j tokens of the first file were sent, not yet its second header,
\* and what is underway follows them, as far as that file goes.
Place(s, j) ==
  LET p == files[1].pes
      n == j + Len(Chunk)
  IN  /\ Learnable(p, s) /\ j \in 0..(s - 1)
      /\ \A i \in 1..Len(Chunk) : j + i <= Len(p) => Chunk[i] = p[j + i]
      /\ n < Len(p) => open = 1 /\ at = n /\ ~(pc = "ended" /\ loopOn)
      /\ c.index = 0 => j = 0 /\ decoding = -1
      /\ c.index = 1 => j >= 1 /\ decoding = TimeAt(p, 1) /\ c.pts = decoding

Learned ==
  /\ c \in [index : {0, 1, 2}, pts : Nat, delta : 0..(PtsMax - 1)]
  /\ c.index < 2 => \E s, j \in Nat : Place(s, j)
  /\ c.index = 2 => c.delta = PtsStep % PtsMax /\ decoding = c.pts % PtsMax
  /\ kind = "audio" => decoding = -1

\* Steps that leave what is underway, or add the next token to it.
LEMMA PlaceStays ==
  ASSUME NEW s, NEW j, Place(s, j), Chunk' = Chunk, UNCHANGED <<files, c, decoding>>,
         open = 1 /\ at < Len(files[1].pes) /\ ~(pc = "ended" /\ loopOn)
           => open' = 1 /\ at' = at /\ ~(pc' = "ended" /\ loopOn')
  PROVE  Place(s, j)'
BY DEF Place

LEMMA PlaceReads ==
  ASSUME NEW T, Chain(T), NEW s \in Nat, NEW j \in Nat, Place(s, j), Look \/ NextFile,
         Len(look') > Len(look), decoding' = decoding
  PROVE  Place(s, j)'
<1> DEFINE x == Last(look')
           p == files[1].pes
           n == j + Len(Chunk)
<1>1. Chunk' = Append(Chunk, x) /\ x \in T /\ Chunk \in Seq(T)
  BY ReadTakes, ChunkType DEF Chain
<1>2. files' = files /\ c' = c /\ loopOn' = loopOn
  BY DEF Look, NextFile
<1>3. look \in Seq(T) /\ Phases /\ Headers /\ p \in Seq(T) /\ Len(p) \in Nat
  BY DEF Chain, StreamTypes, SoundFile
<1>4. n < Len(p) => x = p[n + 1] /\ open' = 1 /\ at' = n + 1 /\ pc' = "head"
  <2> SUFFICES ASSUME n < Len(p) PROVE x = p[n + 1] /\ open' = 1 /\ at' = n + 1 /\ pc' = "head"
    OBVIOUS
  <2>1. open = 1 /\ at = n
    BY DEF Place
  <2>2. ~NextFile
    <3>1. NextFile => at = Len(p)
      BY <1>3, <2>1 DEF NextFile, Headers
    <3> QED
      BY <1>3, <2>1, <3>1
  <2>3. Look /\ look' # look
    BY <1>3, <2>2
  <2>4. /\ look' = Append(look, p[n + 1]) /\ at' = n + 1 /\ open' = open
        /\ (Len(look) = LookAhead) = FALSE
    BY <2>1, <2>3 DEF Look
  <2>5. pc' = "head"
    BY <1>3, <2>1, <2>3 DEF Look
  <2>6. n + 1 \in 1..Len(p)
    BY <1>1, <1>3
  <2>7. Last(look') = p[n + 1]
    <3> DEFINE y == p[n + 1]
    <3>1. y \in T
      BY <1>3, <2>6
    <3> HIDE DEF y
    <3>2. Last(Append(look, y)) = y
      BY <1>3, <3>1 DEF Last
    <3> QED
      BY <2>4, <3>2 DEF y
  <2> QED
    BY <2>1, <2>4, <2>5, <2>7
<1> HIDE DEF x
<1>5. Len(Chunk') = Len(Chunk) + 1 /\ Len(Chunk) \in Nat
  BY <1>1
<1>6. \A i \in 1..Len(Chunk') : j + i <= Len(p) => Chunk'[i] = p[j + i]
  <2> SUFFICES ASSUME NEW i \in 1..Len(Chunk'), j + i <= Len(p) PROVE Chunk'[i] = p[j + i]
    OBVIOUS
  <2>1. CASE i = Len(Chunk) + 1
    <3>1. Chunk'[i] = x /\ j + i = n + 1 /\ n < Len(p)
      BY <1>1, <1>3, <1>5, <2>1
    <3> QED
      BY <1>4, <3>1
  <2>2. CASE i # Len(Chunk) + 1
    <3>1. i \in 1..Len(Chunk) /\ Chunk'[i] = Chunk[i]
      BY <1>1, <1>5, <2>2
    <3> QED
      BY <3>1 DEF Place
  <2> QED
    BY <2>1, <2>2
<1>7. j + Len(Chunk') = n + 1
  BY <1>5
<1>8. n + 1 < Len(p) => open' = 1 /\ at' = n + 1 /\ pc' = "head"
  BY <1>3, <1>4, <1>5
<1>9. /\ Learnable(p, s) /\ j \in 0..(s - 1)
      /\ c.index = 0 => j = 0 /\ decoding = -1
      /\ c.index = 1 => j >= 1 /\ decoding = TimeAt(p, 1) /\ c.pts = decoding
  BY DEF Place
<1> HIDE DEF n
<1>10. j + Len(Chunk') < Len(p) => open' = 1 /\ at' = j + Len(Chunk') /\ ~(pc' = "ended" /\ loopOn')
  BY <1>7, <1>8
<1> QED
  BY <1>2, <1>6, <1>9, <1>10 DEF Place

\* What is written of a packet.
LEMMA SendWrites ==
  ASSUME NEW T, FilesAreSound(T), Chain(T), Send
  PROVE  LET d == Head(toSend).packet.data
         IN  /\ sent' # <<>> /\ sent'[1].data = (IF Starts(d) THEN Restamped(d) ELSE d)
             /\ c' = IF Starts(d) THEN Times(d) ELSE c
<1> DEFINE x == Head(toSend)
           d == x.packet.data
           e == IF Starts(d) THEN Restamped(d) ELSE d
           p == [x.packet EXCEPT !.data = IF Starts(@) THEN Restamped(@) ELSE @]
<1>1. \E r \in {<<>>, <<PcrPacket>>} : sent' = <<p>> \o r
  BY DEF Send, PcrAfter
<1>2. c' = IF Starts(d) THEN Times(d) ELSE c
  BY DEF Send
<1>3. x \in Shipments(T)
  BY SendTakes
<1> HIDE DEF x
<1>4. x.packet \in [pusi : BOOLEAN, adapt : {1, 3}, data : Seq(T)] /\ Marked(x.packet.pusi, d)
  BY <1>3 DEF Shipments
<1>5. Marked(x.packet.pusi, e)
  BY <1>3, <1>4, RestampedKeeps
<1>6. p.data = e /\ p.pusi = x.packet.pusi
  BY <1>4
<1> HIDE DEF p, e, d
<1>7. sent' # <<>> /\ sent'[1] = p
  BY <1>1, <1>5, <1>6, PesInSent
<1> QED
  BY <1>2, <1>6, <1>7 DEF d, e, x

\* The time in the header of a packet, and the one that is written instead.
LEMMA HeaderTime ==
  ASSUME NEW T, FilesAreSound(T), NEW x \in Shipments(T), Starts(x.packet.data),
         c \in [index : {0, 1, 2}, pts : Nat, delta : 0..(PtsMax - 1)]
  PROVE  LET d == x.packet.data
         IN  /\ TimeOf(d) \in 0..(PtsMax - 1) /\ (d[1].both => Len(d) > 1)
             /\ c.index = 2 => Starts(Restamped(d)) /\ TimeOf(Restamped(d)) = (c.pts + c.delta) % PtsMax
<1> DEFINE d == x.packet.data
           e == Restamped(d)
           z == (c.pts + c.delta) % PtsMax
<1>1. /\ d \in Seq(T) /\ d # <<>> /\ Timed(d) /\ Len(d) \in Nat
      /\ Len(d) >= 1 /\ DOMAIN d = 1..Len(d) /\ d[1].kind = "pes" /\ \A i \in 1..Len(d) : d[i] \in T
  <2>1. d \in Seq(T) /\ d # <<>> /\ Timed(d)
    BY DEF Shipments
  <2>2. Len(d) \in Nat \ {0}
    BY <2>1, EmptySeq
  <2> HIDE DEF d
  <2>3. DOMAIN d = 1..Len(d) /\ \A i \in 1..Len(d) : d[i] \in T
    BY <2>1, LenProperties, ElementOfSeq
  <2>4. d[1].kind = "pes"
    BY DEF Starts, d
  <2> QED
    BY <2>1, <2>2, <2>3, <2>4
<1> HIDE DEF d
<1>2. d[1] \in [kind : {"pes"}, pts : 0..(PtsMax - 1), both : BOOLEAN]
  <2>1. 1 \in 1..Len(d)
    BY <1>1
  <2> QED
    BY <1>1, <2>1 DEF FilesAreSound
<1>3. d[1].both => /\ 2 \in 1..Len(d) /\ d[2] \in [kind : {"dts"}, dts : 0..(PtsMax - 1)]
                   /\ Len(d) > 1
  <2>1. d[1].both => Len(d) > 1 /\ d[2].kind = "dts"
    BY <1>1 DEF Timed, Both
  <2>2. d[1].both => 2 \in 1..Len(d)
    BY <1>1, <2>1
  <2> QED
    BY <1>1, <2>1, <2>2 DEF FilesAreSound
<1>4. TimeOf(d) \in 0..(PtsMax - 1)
  BY <1>2, <1>3 DEF TimeOf
<1>5. ASSUME c.index = 2 PROVE Starts(e) /\ TimeOf(e) = z
  <2>0. Times(d).pts % PtsMax = z
    <3>1. Times(d) = [c EXCEPT !.pts = @ + c.delta]
      BY <1>5 DEF Times
    <3>2. Times(d).pts = c.pts + c.delta
      BY <3>1
    <3> QED
      BY <3>2
  <2>1. CASE d[1].both
    <3> DEFINE u == (Times(d).pts + (d[1].pts - d[2].dts)) % PtsMax
               v == Times(d).pts % PtsMax
    <3>1. e = [d EXCEPT ![1].pts = u, ![2].dts = v]
      BY <1>5, <2>1 DEF Restamped
    <3>2. v = z
      BY <2>0
    <3> HIDE DEF u, v
    <3> DEFINE g == [d EXCEPT ![1].pts = u]
    <3>3. /\ DOMAIN g = 1..Len(d) /\ g[1] = [d[1] EXCEPT !.pts = u]
          /\ \A i \in 1..Len(d) : i # 1 => g[i] = d[i]
      BY <1>1
    <3>4. e = [g EXCEPT ![2].dts = v]
      BY <3>1
    <3> HIDE DEF g, e
    <3>5. DOMAIN e = 1..Len(d) /\ e[2] = [g[2] EXCEPT !.dts = v] /\ e[1] = g[1]
      BY <1>1, <1>3, <2>1, <3>3, <3>4
    <3>6. e[1].kind = "pes" /\ e[1].both /\ e[2].dts = v
      BY <1>1, <1>2, <1>3, <2>1, <3>3, <3>5
    <3>7. e # <<>>
      <4>1. 1 \in DOMAIN e
        BY <1>1, <3>5
      <4> QED
        BY <4>1
    <3> HIDE DEF z
    <3> QED
      BY <3>2, <3>6, <3>7 DEF Starts, TimeOf
  <2>2. CASE ~d[1].both
    <3> DEFINE v == Times(d).pts % PtsMax
    <3>1. e = [d EXCEPT ![1].pts = v]
      BY <1>5, <2>2 DEF Restamped
    <3>2. v = z
      BY <2>0
    <3> HIDE DEF v, e
    <3>3. DOMAIN e = 1..Len(d) /\ e[1] = [d[1] EXCEPT !.pts = v]
      BY <1>1, <3>1
    <3>4. e[1].kind = "pes" /\ ~e[1].both /\ e[1].pts = v
      BY <1>1, <1>2, <2>2, <3>3
    <3>5. e # <<>>
      <4>1. 1 \in DOMAIN e
        BY <1>1, <3>3
      <4> QED
        BY <4>1
    <3> HIDE DEF z
    <3> QED
      BY <3>2, <3>4, <3>5 DEF Starts, TimeOf
  <2> QED
    BY <2>1, <2>2
<1> QED
  BY <1>3, <1>4, <1>5 DEF d, e, z

\* The place after a packet with the payload d.
LEMMA PlaceMoves ==
  ASSUME NEW T, Chain(T), NEW s \in Nat, NEW j \in Nat, Place(s, j), NEW d \in Seq(T),
         Chunk = d \o Chunk', Chunk' \in Seq(T), UNCHANGED <<files, open, at>>, pc' # "ended",
         \A i \in 2..Len(d) : d[i].kind # "pes"
  PROVE  LET p == files[1].pes
             n == j + Len(d)
         IN  /\ \A i \in 1..Len(Chunk') : n + i <= Len(p) => Chunk'[i] = p[n + i]
             /\ n + Len(Chunk') < Len(p) => open' = 1 /\ at' = n + Len(Chunk') /\ pc' # "ended"
             /\ \A i \in 1..Len(d) : j + i <= Len(p) => d[i] = p[j + i]
             /\ Len(d) >= 1 /\ (d[1].kind # "pes" \/ j = 0) => n \in 0..(s - 1)
<1> DEFINE p == files[1].pes
           n == j + Len(d)
           r == Chunk'
<1>1. p \in Seq(T) /\ Len(p) \in Nat /\ Chunk \in Seq(T) /\ r \in Seq(T) /\ Len(r) \in Nat /\ Len(d) \in Nat
  BY ChunkType DEF Chain, StreamTypes, SoundFile
<1>2. /\ Learnable(p, s) /\ j \in 0..(s - 1)
      /\ \A i \in 1..Len(Chunk) : j + i <= Len(p) => Chunk[i] = p[j + i]
      /\ j + Len(Chunk) < Len(p) => open = 1 /\ at = j + Len(Chunk)
  BY DEF Place
<1> HIDE DEF r, p
<1>3. /\ Len(Chunk) = Len(d) + Len(r)
      /\ \A i \in 1..Len(d) : Chunk[i] = d[i]
      /\ \A i \in 1..Len(r) : Chunk[Len(d) + i] = r[i]
  <2>1. Chunk = d \o r
    BY DEF r
  <2> QED
    BY <1>1, <2>1
<1>4. \A i \in 1..Len(r) : n + i <= Len(p) => r[i] = p[n + i]
  <2> SUFFICES ASSUME NEW i \in 1..Len(r), n + i <= Len(p) PROVE r[i] = p[n + i]
    OBVIOUS
  <2>1. Len(d) + i \in 1..Len(Chunk) /\ j + (Len(d) + i) = n + i
    BY <1>1, <1>3
  <2> QED
    BY <1>2, <1>3, <2>1
<1>5. n + Len(r) = j + Len(Chunk)
  BY <1>1, <1>3
<1>6. \A i \in 1..Len(d) : j + i <= Len(p) => d[i] = p[j + i]
  <2> SUFFICES ASSUME NEW i \in 1..Len(d), j + i <= Len(p) PROVE d[i] = p[j + i]
    OBVIOUS
  <2>1. i \in 1..Len(Chunk)
    BY <1>1, <1>3
  <2> QED
    BY <1>2, <1>3, <2>1
<1>7. ASSUME Len(d) >= 1, d[1].kind # "pes" \/ j = 0 PROVE n \in 0..(s - 1)
  <2>1. s \in 2..Len(p) /\ p[s].kind = "pes"
    BY <1>2 DEF Learnable
  <2>2. ~(n >= s)
    <3> SUFFICES ASSUME n >= s PROVE FALSE
      OBVIOUS
    <3> DEFINE i == s - j
    <3>1. i \in 1..Len(d) /\ j + i = s
      BY <1>1, <1>2
    <3>2. d[i].kind = "pes"
      BY <1>1, <1>6, <2>1, <3>1
    <3>3. i = 1
      BY <1>1, <3>1, <3>2
    <3> QED
      BY <1>7, <2>1, <3>1, <3>2, <3>3
  <2> QED
    BY <1>1, <2>1, <2>2
<1>8. n + Len(r) < Len(p) => open' = 1 /\ at' = n + Len(r) /\ pc' # "ended"
  BY <1>2, <1>5
<1> QED
  BY <1>4, <1>6, <1>7, <1>8 DEF p, r

\* A packet with a header teaches the step, or has the next time.
LEMMA SendLearns ==
  ASSUME NEW T, FilesAreSound(T), Chain(T), Learned, Send, kind = "video", kind' = kind,
         decoding' = IF WritesStart THEN TimeOf(sent'[1].data) ELSE decoding
  PROVE  /\ Learned'
         /\ decoding # -1 /\ WritesStart => decoding' = (decoding + PtsStep) % PtsMax
<1>1. PICK d \in Seq(T), x \in Shipments(T) : /\ d = x.packet.data /\ Head(toSend) = x
                                             /\ Chunk = d \o Chunk' /\ Chunk' \in Seq(T)
  <2>1. Head(toSend) \in Shipments(T)
    BY SendTakes
  <2>2. Head(toSend).packet.data \in Seq(T)
    BY <2>1 DEF Shipments
  <2> QED
    BY <2>1, <2>2, SendTakes
<1> DEFINE p == files[1].pes
           t == TimeOf(d)
           C == [index : {0, 1, 2}, pts : Nat, delta : 0..(PtsMax - 1)]
<1>2. /\ sent' # <<>> /\ sent'[1].data = (IF Starts(d) THEN Restamped(d) ELSE d)
      /\ c' = IF Starts(d) THEN Times(d) ELSE c
  BY <1>1, SendWrites
<1>3. UNCHANGED <<files, open, at>> /\ pc' = "nulls" /\ loopOn' = loopOn /\ files' = files
  BY DEF Send, reader
<1>4. SoundFile(T, p) /\ p \in Seq(T) /\ Len(p) \in Nat
  BY DEF Chain, StreamTypes, SoundFile
<1>5. d # <<>> /\ \A i \in 2..Len(d) : d[i].kind # "pes"
  BY <1>1 DEF Shipments, Marked
<1>6. c \in C /\ PtsMax \in Nat \ {0} /\ PtsStep \in Nat /\ 0..(PtsMax - 1) \subseteq Nat
  BY TimesAssumption DEF Learned
<1>7. Starts(d) => t \in 0..(PtsMax - 1) /\ (d[1].both => Len(d) > 1)
  BY <1>1, <1>6, HeaderTime
<1>8. c.index = 2 /\ Starts(d) => /\ Starts(Restamped(d))
                                  /\ TimeOf(Restamped(d)) = (c.pts + c.delta) % PtsMax
  BY <1>1, <1>6, HeaderTime
<1>9. c.index < 2 => Restamped(d) = d
  BY DEF Restamped
<1>10. WritesStart <=> Starts(d)
  <2>1. WritesStart <=> Starts(sent'[1].data)
    BY <1>2 DEF WritesStart
  <2>2. c.index < 2 \/ c.index = 2
    BY <1>6
  <2> QED
    BY <1>2, <1>8, <1>9, <2>1, <2>2
<1>11. Len(d) \in Nat /\ Len(d) >= 1
  <2> QED
    BY <1>5, EmptySeq
<1>12. CASE c.index = 2
  <2>1. c.delta = PtsStep % PtsMax /\ decoding = c.pts % PtsMax
    BY <1>12 DEF Learned
  <2>2. CASE ~Starts(d)
    <3>1. c' = c /\ decoding' = decoding /\ ~WritesStart
      BY <1>2, <1>10, <2>2
    <3> QED
      BY <1>6, <1>12, <2>1, <3>1 DEF Learned
  <2>3. CASE Starts(d)
    <3>1. c' = [c EXCEPT !.pts = @ + c.delta]
      BY <1>2, <1>12, <2>3 DEF Times
    <3>2. decoding' = (c.pts + c.delta) % PtsMax /\ WritesStart
      BY <1>2, <1>8, <1>10, <1>12, <2>3
    <3>3. decoding' = (decoding + PtsStep) % PtsMax
      <4>1. (c.pts + (PtsStep % PtsMax)) % PtsMax = ((c.pts % PtsMax) + PtsStep) % PtsMax
        BY <1>6, NextTime
      <4> QED
        BY <2>1, <3>2, <4>1
    <3>4. c.pts \in Nat /\ c.delta \in Nat /\ c.pts + c.delta \in Nat
      BY <1>6
    <3>5. c' \in C /\ c'.index = 2 /\ c'.pts = c.pts + c.delta /\ c'.delta = c.delta
      BY <1>6, <1>12, <3>1, <3>4
    <3> QED
      BY <2>1, <3>2, <3>3, <3>5 DEF Learned
  <2> QED
    BY <2>2, <2>3
<1>13. CASE c.index < 2
  <2>1. PICK s \in Nat, j \in Nat : Place(s, j)
    BY <1>13 DEF Learned
  <2> DEFINE n == j + Len(d)
  <2>2. /\ \A i \in 1..Len(Chunk') : n + i <= Len(p) => Chunk'[i] = p[n + i]
        /\ n + Len(Chunk') < Len(p) => open' = 1 /\ at' = n + Len(Chunk') /\ pc' # "ended"
        /\ \A i \in 1..Len(d) : j + i <= Len(p) => d[i] = p[j + i]
        /\ (d[1].kind # "pes" \/ j = 0) => n \in 0..(s - 1)
    <3>1. pc' # "ended"
      BY <1>3
    <3>2. LET q == files[1].pes
              u == j + Len(d)
          IN  /\ \A i \in 1..Len(Chunk') : u + i <= Len(q) => Chunk'[i] = q[u + i]
              /\ u + Len(Chunk') < Len(q) => open' = 1 /\ at' = u + Len(Chunk') /\ pc' # "ended"
              /\ \A i \in 1..Len(d) : j + i <= Len(q) => d[i] = q[j + i]
              /\ Len(d) >= 1 /\ (d[1].kind # "pes" \/ j = 0) => u \in 0..(s - 1)
      BY <1>1, <1>3, <1>5, <2>1, <3>1, PlaceMoves
    <3> QED
      BY <1>11, <3>2
  <2>3. /\ Learnable(p, s) /\ j \in 0..(s - 1)
        /\ c.index = 0 => j = 0 /\ decoding = -1
        /\ c.index = 1 => j >= 1 /\ decoding = TimeAt(p, 1) /\ c.pts = decoding
    BY <2>1 DEF Place
  <2>4. s \in 2..Len(p) /\ p[s].kind = "pes" /\ \A i \in 2..(s - 1) : p[i].kind # "pes"
    BY <2>3 DEF Learnable
  <2>5. 1 \in 1..Len(d) /\ j + 1 <= Len(p) /\ d[1] = p[j + 1]
    BY <1>4, <1>11, <2>2, <2>3, <2>4
  <2>6. n \in Nat /\ n >= 1
    BY <1>11
  <2> HIDE DEF p
  <2>7. ASSUME n \in 0..(s - 1),
               c' \in C, c'.index = 1, decoding' = TimeAt(p, 1), c'.pts = decoding'
        PROVE  Learned'
    <3>1. Place(s, n)'
      <4>1. files'[1].pes = p
        BY <1>3 DEF p
      <4>2. (c'.index = 0) = FALSE
        BY <2>7
      <4> HIDE DEF n
      <4> QED
        BY <2>2, <2>3, <2>6, <2>7, <4>1, <4>2 DEF Place
    <3> QED
      BY <2>6, <2>7, <3>1 DEF Learned
  <2>8. CASE c.index = 0
    <3>1. j = 0 /\ decoding = -1 /\ p[1].kind = "pes"
      BY <1>4, <2>3, <2>8 DEF SoundFile
    <3>2. d[1] = p[1] /\ Starts(d)
      BY <1>5, <2>5, <3>1 DEF Starts
    <3>3. c' = [c EXCEPT !.index = 1, !.pts = t] /\ decoding' = t
      BY <1>2, <1>9, <1>10, <2>8, <3>2 DEF Times
    <3>4. t = TimeAt(p, 1)
      <4>1. d[1].both => d[2] = p[2]
        <5> SUFFICES ASSUME d[1].both PROVE d[2] = p[2]
          OBVIOUS
        <5>1. 2 \in 1..Len(d) /\ j + 2 <= Len(p)
          BY <1>4, <1>7, <1>11, <2>4, <3>1, <3>2
        <5> QED
          BY <2>2, <3>1, <5>1
      <4> QED
        BY <3>2, <4>1 DEF TimeOf, TimeAt
    <3>5. c' \in C /\ c'.index = 1 /\ c'.pts = t
      <4>1. t \in Nat
        BY <1>6, <1>7, <3>2
      <4> HIDE DEF t
      <4> QED
        BY <1>6, <3>3, <4>1
    <3>6. n \in 0..(s - 1)
      BY <2>2, <3>1
    <3> HIDE DEF t
    <3> QED
      BY <2>7, <3>1, <3>3, <3>4, <3>5, <3>6
  <2>9. CASE c.index = 1 /\ ~Starts(d)
    <3>1. c' = c /\ decoding' = decoding /\ ~WritesStart
      BY <1>2, <1>10, <2>9
    <3>2. d[1].kind # "pes"
      BY <1>5, <2>9 DEF Starts
    <3> QED
      BY <1>6, <2>2, <2>3, <2>7, <2>9, <3>1, <3>2
  <2>10. CASE c.index = 1 /\ Starts(d)
    <3>1. j >= 1 /\ decoding = TimeAt(p, 1) /\ c.pts = decoding
      BY <2>3, <2>10
    <3>2. j + 1 = s
      <4>1. p[j + 1].kind = "pes"
        BY <2>5, <2>10 DEF Starts
      <4>2. j + 1 \notin 2..(s - 1)
        BY <2>4, <4>1
      <4> QED
        BY <2>3, <2>4, <3>1, <4>2
    <3>3. c' = [index |-> 2, pts |-> t, delta |-> (t - c.pts) % PtsMax] /\ decoding' = t
      BY <1>2, <1>9, <1>10, <2>10 DEF Times
    <3>4. t = TimeAt(p, s)
      <4>1. d[1].both => d[2] = p[s + 1]
        <5> SUFFICES ASSUME d[1].both PROVE d[2] = p[s + 1]
          OBVIOUS
        <5>1. s \in 1..Len(p) /\ Both(p[s])
          BY <2>4, <2>5, <3>2 DEF Both
        <5>2. s < Len(p)
          BY <1>4, <5>1, FollowsInFile
        <5>3. 2 \in 1..Len(d) /\ j + 2 = s + 1 /\ j + 2 <= Len(p)
          BY <1>4, <1>7, <1>11, <2>4, <2>10, <3>2, <5>2
        <5> QED
          BY <2>2, <5>3
      <4> QED
        BY <2>5, <3>2, <4>1 DEF TimeOf, TimeAt
    <3>5. t = (decoding + PtsStep) % PtsMax
      BY <2>3, <3>1, <3>4 DEF Learnable
    <3>6. t \in 0..(PtsMax - 1)
      BY <1>7, <2>10
    <3>7. decoding \in Nat
      BY <1>6, <3>1
    <3> HIDE DEF t
    <3>8. (t - c.pts) % PtsMax = PtsStep % PtsMax /\ PtsStep % PtsMax \in 0..(PtsMax - 1)
      <4>1. (((decoding + PtsStep) % PtsMax) - decoding) % PtsMax = PtsStep % PtsMax
        BY <1>6, <3>7, NextTime
      <4>2. PtsStep % PtsMax \in 0..(PtsMax - 1)
        BY <1>6
      <4> QED
        BY <3>1, <3>5, <4>1, <4>2
    <3>9. t % PtsMax = t
      BY <1>6, <3>6, SmallRest
    <3>10. c' \in C /\ c'.index = 2 /\ c'.pts = t /\ c'.delta = PtsStep % PtsMax
      <4>1. t \in Nat
        BY <1>6, <3>6
      <4> QED
        BY <3>3, <3>8, <4>1
    <3> QED
      BY <3>3, <3>5, <3>9, <3>10 DEF Learned
  <2>11. c.index = 0 \/ c.index = 1
    BY <1>6, <1>13
  <2> QED
    BY <2>8, <2>9, <2>10, <2>11
<1>14. c.index < 2 \/ c.index = 2
  BY <1>6
<1> QED
  BY <1>12, <1>13, <1>14

\* The other steps of the loop write no header.
LEMMA OthersLearn ==
  ASSUME NEW T, FilesAreSound(T), Chain(T), Learned, VideoNext, ~Send, kind' = kind,
         decoding' = IF WritesStart THEN TimeOf(sent'[1].data) ELSE decoding
  PROVE  Learned' /\ ~WritesStart
<1>1. /\ StreamTypes(T) /\ Phases /\ Headers /\ look \in Seq(T) /\ Len(look) \in Nat
      /\ files[1].pes \in Seq(T) /\ Len(files[1].pes) \in Nat
  BY DEF Chain, StreamTypes, SoundFile
<1>2. ~WritesStart /\ UNCHANGED <<c, files, loopOn>>
  <2>1. CASE Null
    <3>1. \E r \in {<<>>, <<PcrPacket>>} : sent' = <<NullPacket>> \o r
      BY <2>1 DEF Null, PcrAfter
    <3>2. Marked(NullPacket.pusi, NullPacket.data) /\ NullPacket.data = <<>>
      BY DEF NullPacket, TsPacket, Marked
    <3>3. sent'[1] = NullPacket
      BY <3>1, <3>2, PesInSent
    <3> QED
      BY <2>1, <3>2, <3>3 DEF WritesStart, Starts, Null, reader
  <2>2. CASE ~Null
    <3>1. sent' = <<>> /\ UNCHANGED <<c, files, loopOn>>
      BY <2>2 DEF VideoNext, Look, NextFile, FindHeader, Fill, GoOn, Reopen, reader
    <3> QED
      BY <3>1 DEF WritesStart
  <2> QED
    BY <2>1, <2>2
<1>3. decoding' = decoding /\ c' = c /\ files' = files /\ loopOn' = loopOn
  BY <1>2
<1>4. ASSUME c.index < 2 PROVE \E s, j \in Nat : Place(s, j)'
  <2>1. PICK s \in Nat, j \in Nat : Place(s, j)
    BY <1>4 DEF Learned
  <2>2. ASSUME Chunk' = Chunk,
               open = 1 /\ at < Len(files[1].pes) /\ ~(pc = "ended" /\ loopOn)
                 => open' = 1 /\ at' = at /\ ~(pc' = "ended" /\ loopOn')
        PROVE  Place(s, j)'
    BY <1>3, <2>1, <2>2, PlaceStays
  <2>3. CASE (Look \/ NextFile) /\ Len(look') > Len(look)
    BY <1>3, <2>1, <2>3, PlaceReads
  <2>4. CASE (Look \/ NextFile) /\ ~(Len(look') > Len(look))
    <3>1. look' = look
      <4>1. look' = look \/ \E x : look' = Append(look, x)
        BY <2>4 DEF Look, NextFile, Opened, Missing
      <4>2. \A x : Len(Append(look, x)) > Len(look)
        BY <1>1
      <4> QED
        BY <2>4, <4>1, <4>2
    <3>2. Chunk' = Chunk
      <4>1. UNCHANGED <<toSend, data>>
        BY <2>4 DEF Look, NextFile
      <4> QED
        BY <3>1, <4>1 DEF Chunk
    <3>3. CASE Look
      <4>1. open' = open /\ at' = at /\ pc' # "ended"
        <5>1. \A x : Append(look, x) # look
          BY <1>1
        <5> QED
          BY <3>1, <3>3, <5>1 DEF Look
      <4> QED
        BY <2>2, <3>2, <4>1
    <3>4. CASE NextFile
      <4>1. open = 1 => at = Len(files[1].pes)
        BY <1>1, <3>4 DEF NextFile, Headers
      <4> QED
        BY <1>1, <2>2, <3>2, <4>1
    <3> QED
      BY <2>4, <3>3, <3>4
  <2>5. CASE Fill
    <3>1. Chunk' = Chunk /\ open' = open /\ at' = at
      BY <2>5, FillMoves DEF Fill, reader
    <3>2. byteRead \/ ~loopOn
      BY <1>1, <2>5 DEF Fill, Phases, AtEnd
    <3>3. ~(pc' = "ended" /\ loopOn')
      BY <1>3, <2>5, <3>2 DEF Fill
    <3> QED
      BY <2>2, <3>1, <3>3
  <2>6. CASE FindHeader
    <3>1. Chunk' = Chunk /\ open' = open /\ at' = at /\ pc' # "ended"
      BY <2>6, FindHeaderMoves DEF FindHeader, reader
    <3> QED
      BY <2>2, <3>1
  <2>7. CASE Null
    <3>1. Chunk' = Chunk /\ open' = open /\ at' = at /\ pc' = pc
      BY <2>7 DEF Null, Chunk, reader
    <3> QED
      BY <1>3, <2>2, <3>1
  <2>8. CASE GoOn
    <3>1. Chunk' = Chunk /\ open' = open /\ at' = at
      BY <2>8 DEF GoOn, Chunk, reader
    <3>2. byteRead \/ ~loopOn
      BY <1>1, <2>8 DEF GoOn, Phases, AtEnd
    <3>3. ~(pc' = "ended" /\ loopOn')
      BY <1>3, <2>8, <3>2 DEF GoOn
    <3> QED
      BY <2>2, <3>1, <3>3
  <2>9. CASE Reopen
    <3>1. Chunk' = Chunk /\ pc = "ended" /\ loopOn
      BY <2>9 DEF Reopen, Chunk
    <3> QED
      BY <2>2, <3>1
  <2>10. Look \/ NextFile \/ FindHeader \/ Fill \/ Null \/ GoOn \/ Reopen
    BY DEF VideoNext
  <2> QED
    BY <2>3, <2>4, <2>5, <2>6, <2>7, <2>8, <2>9, <2>10
<1> QED
  BY <1>2, <1>3, <1>4 DEF Learned

LEMMA LearnedStarts ==
  ASSUME NEW T, FilesAreSound(T), Init,
         \A v \in VideoFiles : \E s \in Nat : Learnable(PesOf(v[1].stream), s)
  PROVE  Learned
<1> DEFINE p == files[1].pes
<1>1. PICK s \in Nat : Learnable(p, s)
  <2>1. Some(VideoFiles) \in VideoFiles
    BY DEF FilesAreSound, Some
  <2>2. PICK v \in VideoFiles : files = FilesOf(v)
    BY <2>1 DEF Init
  <2>3. p = PesOf(v[1].stream)
    BY <2>2 DEF FilesAreSound, FilesOf
  <2> QED
    BY <2>3
<1>2. Chain(T) /\ p \in Seq(T) /\ Len(p) \in Nat /\ Len(p) >= 2
  <2>1. Chain(T)
    BY StreamStarts
  <2> QED
    BY <2>1 DEF Chain, StreamTypes, SoundFile
<1>3. /\ open = 1 /\ at = 2 /\ look = SubSeq(p, 1, 2) /\ toSend = <<>> /\ data = <<>> /\ pc = "head"
      /\ c = [index |-> 0, pts |-> 0, delta |-> 0] /\ decoding = -1
  BY DEF Init, VideoInit, LookAhead
<1>4. Chunk = look /\ look \in Seq(T)
  <2>1. Waits(toSend) = <<>> /\ look \in Seq(T) /\ <<>> \in Seq(T)
    BY <1>2, <1>3, WaitsNone, ChunkType DEF Chain
  <2>2. Chunk = (<<>> \o <<>>) \o look
    BY <1>3, <2>1 DEF Chunk
  <2> QED
    BY <2>1, <2>2, Unsent
<1>5. Len(Chunk) = 2 /\ Chunk[1] = p[1] /\ Chunk[2] = p[2]
  <2> HIDE DEF p
  <2> QED
    BY <1>2, <1>3, <1>4
<1>6. s \in 2..Len(p)
  BY <1>1 DEF Learnable
<1>7. Place(s, 0)
  <2>1. \A i \in 1..Len(Chunk) : Chunk[i] = p[0 + i]
    <3>1. \A i \in 1..Len(Chunk) : (i = 1 \/ i = 2) /\ 0 + i = i
      BY <1>5
    <3> QED
      BY <1>5, <3>1
  <2> QED
    BY <1>1, <1>2, <1>3, <1>5, <1>6, <2>1 DEF Place
<1>8. 0 \in 0..(PtsMax - 1)
  BY TimesAssumption
<1> QED
  BY <1>3, <1>7, <1>8 DEF Learned

LEMMA LoopLearns ==
  ASSUME NEW T, FilesAreSound(T), Chain(T), Learned, [Next]_vars
  PROVE  /\ Learned'
         /\ decoding # -1 /\ WritesStart /\ ~UNCHANGED vars => decoding' = (decoding + PtsStep) % PtsMax
<1>1. CASE VideoPart
  <2>1. VideoNext /\ kind = "video" /\ kind' = kind
        /\ decoding' = IF WritesStart THEN TimeOf(sent'[1].data) ELSE decoding
    BY <1>1 DEF VideoPart
  <2>2. CASE Send
    BY <2>1, <2>2, SendLearns
  <2>3. CASE ~Send
    BY <2>1, <2>3, OthersLearn
  <2> QED
    BY <2>2, <2>3
<1>2. CASE AudioPart \/ UNCHANGED vars
  <2>1. UNCHANGED <<videoVars, kind, decoding>>
    BY <1>2 DEF AudioPart, vars
  <2>2. Learned'
    BY <2>1 DEF Learned, Place, Chunk, videoVars
  <2>3. AudioPart => kind = "audio"
    BY DEF AudioPart
  <2> QED
    BY <1>2, <2>2, <2>3 DEF Learned
<1> QED
  BY <1>1, <1>2 DEF Next

\* One header was written, at time 0.
Single(o) ==
  /\ o \in Seq(Tokens) /\ Len(o) >= 3 /\ o[1].kind = "pes" /\ o[1].both /\ o[2].dts = 0
  /\ \A i \in 2..Len(o) : o[i].kind # "pes"

\* And a second, a frame later, with something after it.
Stepped(o) ==
  /\ o \in Seq(Tokens) /\ o[1].both /\ o[2].dts = 0
  /\ \E s \in 2..(Len(o) - 2) :
       /\ o[s].kind = "pes" /\ o[s].both /\ o[s + 1].dts = PtsStep % PtsMax
       /\ \A i \in 2..(s - 1) : o[i].kind # "pes"

\* What is added to them.
LEMMA SingleAppend ==
  ASSUME NEW o, Single(o), NEW t \in StreamTokens
  PROVE  Single(Append(o, t))
<1>1. t \in Tokens /\ t.kind # "pes" /\ o \in Seq(Tokens) /\ Len(o) \in Nat /\ Len(o) >= 3
  BY TokenKinds DEF Single
<1> DEFINE q == Append(o, t)
<1>2. /\ q \in Seq(Tokens) /\ Len(q) = Len(o) + 1 /\ \A i \in 1..Len(o) : q[i] = o[i]
      /\ q[Len(o) + 1] = t
  BY <1>1
<1> HIDE DEF q
<1>3. \A i \in 2..Len(q) : q[i].kind # "pes"
  <2> SUFFICES ASSUME NEW i \in 2..Len(q) PROVE q[i].kind # "pes"
    OBVIOUS
  <2>1. CASE i = Len(o) + 1
    BY <1>1, <1>2, <2>1
  <2>2. CASE i # Len(o) + 1
    <3>1. i \in 2..Len(o) /\ i \in 1..Len(o)
      BY <1>1, <1>2, <2>2
    <3> QED
      BY <1>2, <3>1 DEF Single
  <2> QED
    BY <2>1, <2>2
<1>4. q[1] = o[1] /\ q[2] = o[2] /\ Len(q) >= 3
  BY <1>1, <1>2
<1> QED
  BY <1>2, <1>3, <1>4 DEF Single, q

LEMMA SteppedGrows ==
  ASSUME NEW o, Stepped(o), NEW r \in Seq(Tokens)
  PROVE  Stepped(o \o r)
<1> DEFINE q == o \o r
<1>1. o \in Seq(Tokens) /\ Len(o) \in Nat /\ Len(r) \in Nat
  BY DEF Stepped
<1>2. q \in Seq(Tokens) /\ Len(q) = Len(o) + Len(r) /\ \A i \in 1..Len(o) : q[i] = o[i]
  BY <1>1, JoinIs
<1> HIDE DEF q
<1>3. PICK s \in 2..(Len(o) - 2) :
        /\ o[s].kind = "pes" /\ o[s].both /\ o[s + 1].dts = PtsStep % PtsMax
        /\ \A i \in 2..(s - 1) : o[i].kind # "pes"
  BY DEF Stepped
<1>4. q[s] = o[s] /\ q[s + 1] = o[s + 1] /\ q[1] = o[1] /\ q[2] = o[2] /\ s \in 2..(Len(q) - 2)
  <2>1. /\ s \in 1..Len(o) /\ s + 1 \in 1..Len(o) /\ 1 \in 1..Len(o) /\ 2 \in 1..Len(o)
        /\ s \in 2..((Len(o) + Len(r)) - 2)
    BY <1>1
  <2> QED
    BY <1>2, <2>1
<1>5. \A i \in 2..(s - 1) : q[i] = o[i]
  <2>1. \A i \in 2..(s - 1) : i \in 1..Len(o)
    BY <1>1
  <2> QED
    BY <1>2, <2>1
<1> QED
  BY <1>2, <1>3, <1>4, <1>5, SMTT(30) DEF Stepped, q

LEMMA SingleSteps ==
  ASSUME NEW o, Single(o), NEW x \in Nat, NEW h \in Seq(Tokens), NEW t \in Tokens
  PROVE  Stepped(((o \o Header(x, PtsStep)) \o h) \o <<t>>)
<1> DEFINE e == Header(x, PtsStep)
           n == Len(o)
           a == o \o e
           b == a \o h
           q == b \o <<t>>
<1>1. o \in Seq(Tokens) /\ n \in Nat /\ n >= 3 /\ Len(h) \in Nat
  BY DEF Single
<1>2. /\ e \in Seq(Tokens) /\ Len(e) = 2 /\ e[1].kind = "pes" /\ e[1].both
      /\ e[2].dts = PtsStep % PtsMax
  <2>1. x \in Int /\ PtsStep \in Int /\ TRUE \in BOOLEAN
    BY TimesAssumption
  <2>2. DtsToken(PtsStep).dts = PtsStep % PtsMax
    BY DEF DtsToken
  <2> QED
    BY <2>1, <2>2, HeaderTokens
<1>3. <<t>> \in Seq(Tokens) /\ Len(<<t>>) = 1
  OBVIOUS
<1> HIDE DEF e
<1>4. /\ a \in Seq(Tokens) /\ Len(a) = n + 2 /\ (\A i \in 1..n : a[i] = o[i])
      /\ \A i \in 1..2 : a[n + i] = e[i]
  <2>1. /\ a \in Seq(Tokens) /\ Len(a) = Len(o) + Len(e) /\ (\A i \in 1..Len(o) : a[i] = o[i])
        /\ \A i \in 1..Len(e) : a[Len(o) + i] = e[i]
    BY <1>1, <1>2, JoinIs, ZenonT(60)
  <2> HIDE DEF a
  <2> QED
    BY <1>2, <2>1
<1> HIDE DEF a
<1>5. b \in Seq(Tokens) /\ Len(b) = (n + 2) + Len(h) /\ \A i \in 1..(n + 2) : b[i] = a[i]
  <2>1. b \in Seq(Tokens) /\ Len(b) = Len(a) + Len(h) /\ \A i \in 1..Len(a) : b[i] = a[i]
    BY <1>4, JoinIs, Zenon
  <2> HIDE DEF b
  <2> QED
    BY <1>4, <2>1
<1> HIDE DEF b
<1>6. /\ q \in Seq(Tokens) /\ Len(q) = ((n + 2) + Len(h)) + 1
      /\ \A i \in 1..((n + 2) + Len(h)) : q[i] = b[i]
  <2>1. \A i \in 1..Len(b) : q[i] = b[i]
    BY <1>3, <1>5, JoinIs
  <2>2. q \in Seq(Tokens) /\ Len(q) = Len(b) + 1
    BY <1>3, <1>5, JoinIs
  <2> QED
    BY <1>5, <2>1, <2>2
<1> HIDE DEF q
<1>7. \A i \in 1..(n + 2) : q[i] = a[i]
  <2> SUFFICES ASSUME NEW i \in 1..(n + 2) PROVE q[i] = a[i]
    OBVIOUS
  <2>1. i \in 1..((n + 2) + Len(h))
    BY <1>1
  <2> QED
    BY <1>5, <1>6, <2>1
<1> DEFINE s == n + 1
<1>8. q[s] = e[1] /\ q[s + 1] = e[2]
  <2>1. s \in 1..(n + 2) /\ s + 1 \in 1..(n + 2) /\ s + 1 = n + 2 /\ s = n + 1
    BY <1>1
  <2>2. a[n + 1] = e[1] /\ a[n + 2] = e[2]
    BY <1>4
  <2> QED
    BY <1>7, <2>1, <2>2
<1>9. \A i \in 1..n : q[i] = o[i]
  <2> SUFFICES ASSUME NEW i \in 1..n PROVE q[i] = o[i]
    OBVIOUS
  <2>1. i \in 1..(n + 2)
    BY <1>1
  <2> QED
    BY <1>4, <1>7, <2>1
<1>10. q[1] = o[1] /\ q[2] = o[2] /\ \A i \in 2..(s - 1) : q[i].kind # "pes"
  <2>1. 1 \in 1..n /\ 2 \in 1..n /\ \A i \in 2..(s - 1) : i \in 1..n /\ i \in 2..n
    BY <1>1
  <2> QED
    BY <1>9, <2>1 DEF Single
<1>11. s \in 2..(Len(q) - 2)
  BY <1>1, <1>6
<1> HIDE DEF s, n
<1>12. o[1].both /\ o[2].dts = 0
  BY DEF Single
<1> QED
  BY <1>2, <1>6, <1>8, <1>10, <1>11, <1>12 DEF Stepped, q, b, a, e

\* Before the first picture, and before the second.
NoFrame(v) == v.pc = "skip" /\ v.dts = 0 /\ v.first_gop = 0 /\ Single(v.out)
OneFrame(v) == v.pc \in {"scan", "look"} /\ v.dts = PtsStep /\ v.first_gop = 0 /\ Single(v.out)

\* What the steps of esvideo2pes do with them.
LEMMA StepFirst ==
  ASSUME NEW v \in Packing, NEW t \in StreamTokens, v.pc = "first", v.dts = 0, v.first_gop = 0
  PROVE  NoFrame(PesStep(v, t))
<1> DEFINE w == PesStep(v, t)
           h == Header(PtsStep, 0)
<1>1. w.pc = "skip" /\ w.out = Append(h, t) /\ w.dts = 0 /\ w.first_gop = 0
  BY FirstIs DEF Same
<1> HIDE DEF w
<1>2. h \in Seq(Tokens) /\ Len(h) = 2 /\ h[1].kind = "pes" /\ h[1].both /\ h[2].kind = "dts" /\ h[2].dts = 0
  <2>1. PtsStep \in Int /\ 0 \in Int /\ TRUE \in BOOLEAN
    BY TimesAssumption
  <2>2. DtsToken(0).dts = 0
    <3>1. 0 % PtsMax = 0
      BY TimesAssumption, SmallRest
    <3> QED
      BY <3>1 DEF DtsToken
  <2> QED
    BY <2>1, <2>2, HeaderTokens, ZenonT(60)
<1>3. t \in Tokens /\ t.kind # "pes"
  BY TokenKinds
<1> HIDE DEF h
<1>4. /\ Append(h, t) \in Seq(Tokens) /\ Len(Append(h, t)) = 3 /\ Append(h, t)[1] = h[1]
      /\ Append(h, t)[2] = h[2] /\ Append(h, t)[3] = t
  <2>1. /\ Append(h, t) \in Seq(Tokens) /\ Len(Append(h, t)) = Len(h) + 1
        /\ (\A j \in 1..Len(h) : Append(h, t)[j] = h[j])
        /\ Append(h, t)[Len(h) + 1] = t
    <3>1. h \in Seq(Tokens) /\ t \in Tokens
      BY <1>2, <1>3
    <3>2. ASSUME NEW a \in Seq(Tokens), NEW b \in Tokens
          PROVE  /\ Append(a, b) \in Seq(Tokens) /\ Len(Append(a, b)) = Len(a) + 1
                 /\ (\A j \in 1..Len(a) : Append(a, b)[j] = a[j])
                 /\ Append(a, b)[Len(a) + 1] = b
      BY AppendIs
    <3> QED
      BY <3>1, <3>2
  <2> QED
    BY <1>2, <2>1
<1>5. \A i \in 2..3 : i = 2 \/ i = 3
  OBVIOUS
<1>6. Single(Append(h, t))
  BY <1>2, <1>3, <1>4, <1>5 DEF Single
<1> QED
  BY <1>1, <1>6 DEF NoFrame, w

LEMMA StepNoFrame ==
  ASSUME NEW v \in Packing, NEW t \in StreamTokens, NoFrame(v)
  PROVE  IF t.kind = "pic" THEN OneFrame(PesStep(v, t)) ELSE NoFrame(PesStep(v, t))
<1> DEFINE w == PesStep(v, t)
<1>1. /\ v.pc = "skip" /\ v.dts = 0 /\ v.first_gop = 0 /\ Single(v.out)
  BY DEF NoFrame
<1>2. /\ w.out = Append(v.out, t) /\ w.first_gop = 0
      /\ IF t.kind = "pic" THEN w.pc = "scan" /\ w.dts = 0 + PtsStep ELSE w.pc = "skip" /\ w.dts = 0
  <2>1. /\ w.out = Append(v.out, t) /\ w.first_gop = v.first_gop
        /\ IF t.kind = "pic" THEN w.pc = "scan" /\ w.dts = v.dts + PtsStep
           ELSE w.pc = "skip" /\ w.dts = v.dts
    BY <1>1, SkipIs DEF Same
  <2> HIDE DEF w
  <2> QED
    BY <1>1, <2>1
<1> HIDE DEF w
<1>3. Single(w.out)
  BY <1>1, <1>2, SingleAppend
<1>4. 0 + PtsStep = PtsStep
  BY TimesAssumption
<1> QED
  BY <1>2, <1>3, <1>4 DEF NoFrame, OneFrame, w

LEMMA StepOneFrame ==
  ASSUME NEW v \in Packing, NEW t \in StreamTokens, OneFrame(v), t.kind = "pic" => ~t.b,
         v.pc = "look" => ~TooVerbose(v)
  PROVE  IF t.kind = "pic" THEN Stepped(PesStep(v, t).out) ELSE OneFrame(PesStep(v, t))
<1> DEFINE w == PesStep(v, t)
<1>1. /\ v.pc \in {"scan", "look"} /\ v.dts = PtsStep /\ v.first_gop = 0 /\ Single(v.out)
  BY DEF OneFrame
<1>2. t.kind \in {"seq", "pic", "data"} /\ t \in Tokens /\ v.out \in Seq(Tokens)
  BY <1>1, TokenKinds DEF Single
<1>3. CASE v.pc = "scan" /\ t.kind = "seq"
  <2>1. w.pc = "look" /\ w.out = v.out /\ w.dts = v.dts /\ w.first_gop = v.first_gop
    BY <1>3, SequenceIs, Zenon
  <2> HIDE DEF w
  <2> QED
    BY <1>1, <1>3, <2>1 DEF OneFrame, w
<1>4. CASE v.pc = "scan" /\ t.kind = "data"
  <2>1. w.pc = "scan" /\ w.out = Append(v.out, t) /\ w.dts = v.dts /\ w.first_gop = v.first_gop
    BY <1>4, DataIs, Zenon DEF Same
  <2> HIDE DEF w
  <2>2. Single(w.out)
    BY <1>1, <2>1, SingleAppend
  <2> QED
    BY <1>1, <1>4, <2>1, <2>2 DEF OneFrame, w
<1>5. CASE v.pc = "look" /\ t.kind # "pic"
  <2>1. w.pc = "look" /\ w.out = v.out /\ w.dts = v.dts /\ w.first_gop = v.first_gop
    BY <1>5, HeldIs, Zenon
  <2> HIDE DEF w
  <2> QED
    BY <1>1, <1>5, <2>1 DEF OneFrame, w
<1>6. CASE v.pc = "scan" /\ t.kind = "pic"
  <2> DEFINE x == Presented(v.base, t.ref)
  <2>1. x \in Nat
    <3>1. v.base \in Nat /\ t.ref \in Nat
      BY <1>6, TokenKinds DEF Packing
    <3> QED
      BY <3>1, PresentedType
  <2>2. w.out = (v.out \o Header(x, PtsStep)) \o <<t>>
    <3>1. w = [v EXCEPT !.out = (@ \o Header(x, v.dts)) \o <<t>>, !.dts = @ + PtsStep, !.frames = @ + 1,
                       !.ref = t.ref]
      BY <1>6, Zenon DEF PesStep, Picture
    <3> HIDE DEF w, x
    <3>2. w.out = (v.out \o Header(x, v.dts)) \o <<t>>
      BY <3>1 DEF Packing
    <3> QED
      BY <1>1, <3>2
  <2> HIDE DEF w, x
  <2>3. <<>> \in Seq(Tokens) /\ (v.out \o Header(x, PtsStep)) \o <<>> = v.out \o Header(x, PtsStep)
    <3>1. Header(x, PtsStep) \in Seq(Tokens)
      <4>1. x \in Int /\ PtsStep \in Int /\ TRUE \in BOOLEAN
        BY <2>1, TimesAssumption
      <4> QED
        BY <4>1, HeaderTokens
    <3>2. v.out \o Header(x, PtsStep) \in Seq(Tokens)
      BY <1>2, <3>1, JoinIs
    <3>3. <<>> \in Seq(Tokens)
      OBVIOUS
    <3> QED
      BY <3>2, <3>3, JoinIs
  <2>4. Stepped(((v.out \o Header(x, PtsStep)) \o <<>>) \o <<t>>)
    BY <1>1, <1>2, <2>1, <2>3, SingleSteps
  <2>5. Stepped(w.out)
    BY <2>2, <2>3, <2>4, Zenon
  <2> QED
    BY <1>6, <2>5 DEF w
<1>7. CASE v.pc = "look" /\ t.kind = "pic"
  <2> DEFINE x == Presented(v.dts, t.ref)
  <2>1. /\ x \in Nat
        /\ ~TooLong(v, x) => w.out = ((v.out \o Header(x, v.dts)) \o v.held) \o <<t>>
    BY <1>7, GroupIs, Zenon
  <2>2. ~TooLong(v, x)
    BY <1>1 DEF TooLong
  <2> HIDE DEF w, x
  <2>3. v.held \in Seq(Tokens)
    <3>1. v.held \in Seq(StreamTokens)
      BY DEF Packing
    <3> QED
      BY <3>1, StreamSmooth
  <2>4. Stepped(((v.out \o Header(x, PtsStep)) \o v.held) \o <<t>>)
    BY <1>1, <1>2, <2>1, <2>3, SingleSteps
  <2>5. Stepped(w.out)
    BY <1>1, <2>1, <2>2, <2>4, Zenon
  <2> QED
    BY <1>7, <2>5 DEF w
<1> QED
  BY <1>1, <1>2, <1>3, <1>4, <1>5, <1>6, <1>7

\* What was written stays.
LEMMA StepStepped ==
  ASSUME NEW v \in Packing, NEW t \in StreamTokens, v.pc # "first", Stepped(v.out)
  PROVE  PesStep(v, t).pc # "first" /\ Stepped(PesStep(v, t).out)
<1> DEFINE w == PesStep(v, t)
           o == v.out
<1>1. /\ v.pc \in {"skip", "scan", "look", "done", "exit"} /\ t.kind \in {"seq", "pic", "data"}
      /\ t \in Tokens /\ o \in Seq(Tokens) /\ v.held \in Seq(Tokens)
  <2>1. v.held \in Seq(Tokens)
    <3>1. v.held \in Seq(StreamTokens)
      BY DEF Packing
    <3> QED
      BY <3>1, StreamSmooth
  <2> QED
    BY <2>1, TokenKinds DEF Packing
<1>2. <<t>> \in Seq(Tokens) /\ Append(o, t) = o \o <<t>>
  BY <1>1, SMTT(30)
<1>3. ASSUME NEW r \in Seq(Tokens), w.out = (o \o r) \o <<t>>
      PROVE  Stepped(w.out)
  <2> HIDE DEF o, w
  <2>1. Stepped(o \o r)
    BY SteppedGrows DEF o
  <2>2. Stepped((o \o r) \o <<t>>)
    BY <1>2, <2>1, SteppedGrows
  <2> QED
    BY <1>3, <2>2
<1>4. ASSUME w.out = Append(o, t) PROVE Stepped(w.out)
  <2> HIDE DEF w
  <2>1. Stepped(o \o <<t>>)
    BY <1>2, SteppedGrows
  <2> QED
    BY <1>2, <1>4, <2>1
<1>5. ASSUME NEW x \in Nat, NEW y \in Nat
      PROVE  <<PtsToken(x, FALSE)>> \in Seq(Tokens) /\ Header(x, y) \in Seq(Tokens)
  <2>1. x \in Int /\ y \in Int /\ FALSE \in BOOLEAN
    OBVIOUS
  <2>2. PtsToken(x, FALSE) \in Tokens /\ Header(x, y) \in Seq(Tokens)
    BY <2>1, HeaderTokens
  <2> DEFINE u == PtsToken(x, FALSE)
  <2> HIDE DEF u
  <2>3. u \in Tokens => <<u>> \in Seq(Tokens)
    OBVIOUS
  <2> QED
    BY <2>2, <2>3 DEF u
<1>6. CASE v.pc = "skip"
  <2>1. w.out = Append(o, t) /\ w.pc # "first"
    <3>1. w.out = Append(o, t) /\ (w.pc = "scan" \/ w.pc = "skip")
      BY <1>6, SkipIs
    <3> QED
      BY <3>1
  <2> QED
    BY <1>4, <2>1
<1>7. CASE v.pc = "scan" /\ t.kind = "seq"
  <2>1. w.out = o /\ w.pc = "look"
    BY <1>7, SequenceIs, Zenon
  <2> QED
    BY <2>1
<1>8. CASE v.pc = "scan" /\ t.kind = "data"
  <2>1. w.out = Append(o, t) /\ w.pc = "scan"
    BY <1>8, DataIs, Zenon
  <2> QED
    BY <1>4, <2>1
<1>9. CASE v.pc = "scan" /\ t.kind = "pic"
  <2>1. /\ w.pc = "scan"
        /\ \/ \E x \in Nat : w.out = (o \o <<PtsToken(x, FALSE)>>) \o <<t>>
           \/ \E x, y \in Nat : w.out = (o \o Header(x, y)) \o <<t>>
    BY <1>9, PictureIs, Zenon
  <2>2. CASE \E x \in Nat : w.out = (o \o <<PtsToken(x, FALSE)>>) \o <<t>>
    <3>1. PICK x \in Nat : w.out = (o \o <<PtsToken(x, FALSE)>>) \o <<t>>
      BY <2>2
    <3>2. <<PtsToken(x, FALSE)>> \in Seq(Tokens)
      BY <1>5
    <3> QED
      BY <1>3, <2>1, <3>1, <3>2
  <2>3. CASE \E x, y \in Nat : w.out = (o \o Header(x, y)) \o <<t>>
    <3>1. PICK x, y \in Nat : w.out = (o \o Header(x, y)) \o <<t>>
      BY <2>3
    <3>2. Header(x, y) \in Seq(Tokens)
      BY <1>5
    <3> QED
      BY <1>3, <2>1, <3>1, <3>2
  <2> QED
    BY <2>1, <2>2, <2>3
<1>10. CASE v.pc = "look" /\ ~TooVerbose(v) /\ t.kind # "pic"
  <2>1. w.out = o /\ w.pc = "look"
    BY <1>10, HeldIs, Zenon
  <2> QED
    BY <2>1
<1>11. CASE v.pc = "look" /\ ~TooVerbose(v) /\ t.kind = "pic"
  <2> DEFINE x == Presented(v.dts, t.ref)
  <2>1. /\ x \in Nat
        /\ IF TooLong(v, x) THEN w = [v EXCEPT !.pc = "done"]
           ELSE w.pc = "scan" /\ w.out = ((o \o Header(x, v.dts)) \o v.held) \o <<t>>
    BY <1>11, GroupIs, Zenon
  <2> HIDE DEF x
  <2>2. CASE TooLong(v, x)
    <3>1. w = [v EXCEPT !.pc = "done"]
      BY <2>1, <2>2
    <3> HIDE DEF w
    <3>2. w.out = o /\ w.pc = "done"
      BY <3>1 DEF Packing
    <3> QED
      BY <3>2 DEF w
  <2>3. CASE ~TooLong(v, x)
    <3>1. w.pc = "scan" /\ w.out = ((o \o Header(x, v.dts)) \o v.held) \o <<t>>
      BY <2>1, <2>3
    <3>2. Header(x, v.dts) \in Seq(Tokens)
      <4>1. v.dts \in Nat
        BY DEF Packing
      <4> QED
        BY <1>5, <2>1, <4>1
    <3> DEFINE e == Header(x, v.dts)
               h == v.held
    <3>3. e \in Seq(Tokens) /\ h \in Seq(Tokens) /\ w.out = ((o \o e) \o h) \o <<t>>
      BY <1>1, <3>1, <3>2
    <3> HIDE DEF e, h, o, w
    <3>4. (o \o e) \o h = o \o (e \o h) /\ e \o h \in Seq(Tokens)
      <4>1. o \in Seq(Tokens)
        BY <1>1
      <4>2. (o \o e) \o h = o \o (e \o h)
        BY <3>3, <4>1, ConcatAssociative, SMTT(30)
      <4> QED
        BY <3>3, <4>2, ConcatProperties
    <3> QED
      BY <1>3, <3>1, <3>3, <3>4 DEF w
  <2> QED
    BY <2>2, <2>3
<1>12. CASE v.pc \in {"done", "exit"}
  <2>1. w = v
    BY <1>12, DoneIs
  <2> QED
    BY <1>12, <2>1
<1>13. CASE v.pc = "look" /\ TooVerbose(v)
  <2>1. w.out = o /\ w.pc = "exit"
    BY <1>13, ExitIs, Zenon
  <2> QED
    BY <2>1
<1> QED
  BY <1>1, <1>6, <1>7, <1>8, <1>9, <1>10, <1>11, <1>12, <1>13

\* The second picture of a stream is not a B picture: the header before it has the decoding
\* time, a frame after that of the first.  And it is written: what is between a sequence header
\* and it fits in header_buffer.
SecondIsReference(s) ==
  \E j, i \in DOMAIN s :
    /\ j < i /\ s[j].kind = "pic" /\ s[i].kind = "pic" /\ ~s[i].b
    /\ \A n \in 1..(i - 1) : s[n].kind = "pic" => n = j
    /\ \A n \in j..i : s[n].kind = "seq" => i - n + 1 < HeaderRoom

LEMMA StreamSteps ==
  ASSUME NEW s, IsStream(s), SecondIsReference(s)
  PROVE  Stepped(Scanned(s).out)
<1> DEFINE n == Len(s)
<1>1. /\ s \in Seq(StreamTokens) /\ n \in Nat /\ n >= 1 /\ (\A i \in 1..n : s[i] \in StreamTokens)
      /\ DOMAIN s = 1..n /\ s[1].kind = "seq"
  BY DEF IsStream
<1>2. PICK f \in [0..n -> Packing] :
        /\ f[0] = PesStart /\ \A i \in 1..n : f[i] = PesStep(f[i - 1], s[i])
        /\ Scanned(s) = f[n]
  BY <1>1, ScannedIs
<1>3. PICK a, b \in 1..n :
        /\ a < b /\ s[a].kind = "pic" /\ s[b].kind = "pic" /\ ~s[b].b
        /\ \A i \in 1..(b - 1) : s[i].kind = "pic" => i = a
        /\ \A i \in a..b : s[i].kind = "seq" => b - i + 1 < HeaderRoom
  BY <1>1 DEF SecondIsReference
<1> DEFINE K(i) == \E x \in a + 1..i : s[x].kind = "seq" /\ Len(f[i].held) = i - x + 1
           H(i) == /\ 1 <= i /\ i < a => NoFrame(f[i])
                   /\ a <= i /\ i < b => OneFrame(f[i]) /\ (f[i].pc = "look" => K(i))
                   /\ b <= i => Stepped(f[i].out)
           M == {i \in Nat : i <= n => H(i)}
<1>4. a > 1 /\ f[0].pc = "first" /\ f[0].dts = 0 /\ f[0].first_gop = 0
  <2>1. a # 1
    BY <1>1, <1>3
  <2> QED
    BY <1>2, <2>1 DEF PesStart
<1> HIDE DEF H, K, n
<1>9. \A i \in 1..n : f[i].pc # "first"
  BY <1>2, AlwaysWell DEF n
<1>5. 0 \in M
  BY <1>3, <1>4 DEF H
<1>6. ASSUME NEW i \in Nat, i \in M PROVE i + 1 \in M
  <2> SUFFICES ASSUME i + 1 <= n PROVE H(i + 1)
    OBVIOUS
  <2>1. i <= n /\ i + 1 \in 1..n /\ i \in 0..n /\ (i + 1) - 1 = i
    BY <1>1
  <2>2. H(i)
    BY <1>6, <2>1
  <2> HIDE DEF M
  <2> DEFINE v == f[i]
             w == f[i + 1]
             t == s[i + 1]
  <2>3. v \in Packing /\ t \in StreamTokens /\ w = PesStep(v, t)
    BY <1>1, <1>2, <2>1
  <2>4. CASE i = 0
    <3>1. NoFrame(w)
      <4>1. v.pc = "first" /\ v.dts = 0 /\ v.first_gop = 0
        BY <1>4, <2>4
      <4> HIDE DEF v, t
      <4> QED
        BY <2>3, <4>1, StepFirst
    <3> QED
      BY <1>3, <1>4, <2>4, <3>1 DEF H
  <2>5. CASE 1 <= i /\ i < a
    <3>1. NoFrame(v)
      BY <2>2, <2>5 DEF H
    <3>2. IF t.kind = "pic" THEN OneFrame(w) ELSE NoFrame(w)
      <4> HIDE DEF v, t, w
      <4> QED
        BY <2>3, <3>1, StepNoFrame
    <3>3. t.kind = "pic" <=> i + 1 = a
      BY <1>3, <2>1, <2>5
    <3>4. w.pc # "look"
      <4>1. v.pc = "skip"
        BY <3>1 DEF NoFrame
      <4> HIDE DEF v, t, w
      <4>2. w.pc = "scan" \/ w.pc = "skip"
        BY <2>3, <4>1, SkipIs
      <4> QED
        BY <4>2
    <3> HIDE DEF t
    <3> QED
      BY <1>3, <2>5, <3>2, <3>3, <3>4 DEF H
  <2>6. CASE a <= i /\ i < b
    <3>1. OneFrame(v) /\ (v.pc = "look" => K(i))
      BY <2>2, <2>6 DEF H
    <3>2. t.kind = "pic" <=> i + 1 = b
      BY <1>3, <2>1, <2>6
    <3>3. t.kind = "pic" => ~t.b
      BY <1>3, <3>2
    <3>5. ASSUME v.pc = "look" PROVE ~TooVerbose(v)
      <4>1. PICK x \in a + 1..i : s[x].kind = "seq" /\ Len(v.held) = i - x + 1
        BY <3>1, <3>5 DEF K
      <4>2. b - x + 1 < HeaderRoom
        BY <1>3, <2>6, <4>1
      <4> QED
        BY <1>3, <2>6, <4>1, <4>2, HeaderAssumption DEF TooVerbose
    <3>4. IF t.kind = "pic" THEN Stepped(w.out) ELSE OneFrame(w)
      <4> HIDE DEF v, t, w
      <4> QED
        BY <2>3, <3>1, <3>3, <3>5, StepOneFrame
    <3>6. ASSUME i + 1 # b, w.pc = "look" PROVE K(i + 1)
      <4>1. t.kind \in {"seq", "data"} /\ v.pc \in {"scan", "look"}
        BY <2>3, <3>1, <3>2, <3>6, TokenKinds DEF OneFrame
      <4>2. CASE v.pc = "scan"
        <5>1. t.kind = "seq"
          <6> HIDE DEF v, t, w
          <6>1. t.kind = "data" => w.pc = "scan"
            BY <2>3, <4>2, DataIs
          <6> QED
            BY <3>6, <4>1, <6>1
        <5>2. w.held = <<t>>
          <6> HIDE DEF v, t, w
          <6> QED
            BY <2>3, <4>2, <5>1, SequenceIs
        <5>3. i + 1 \in a + 1..i + 1 /\ Len(<<t>>) = (i + 1) - (i + 1) + 1
          BY <1>3, <2>6
        <5> QED
          BY <5>1, <5>2, <5>3 DEF K
      <4>3. CASE v.pc = "look"
        <5>1. PICK x \in a + 1..i : s[x].kind = "seq" /\ Len(v.held) = i - x + 1
          BY <3>1, <4>3 DEF K
        <5>2. w.held = Append(v.held, t) /\ v.held \in Seq(StreamTokens)
          <6> HIDE DEF v, t, w
          <6>1. t.kind # "pic"
            BY <4>1
          <6>2. w.held = Append(v.held, t)
            BY <2>3, <3>5, <4>3, <6>1, HeldIs
          <6> QED
            BY <2>3, <6>2 DEF Packing
        <5>3. Len(w.held) = Len(v.held) + 1
          <6> HIDE DEF v, t, w
          <6> QED
            BY <2>3, <5>2
        <5>4. x \in a + 1..i + 1 /\ Len(w.held) = (i + 1) - x + 1
          BY <1>3, <5>1, <5>3
        <5> QED
          BY <5>1, <5>4 DEF K
      <4> QED
        BY <4>1, <4>2, <4>3
    <3> HIDE DEF t
    <3> QED
      BY <1>3, <2>6, <3>2, <3>4, <3>6 DEF H
  <2>7. CASE b <= i
    <3>1. v.pc # "first" /\ Stepped(v.out)
      <4>1. i \in 1..n
        BY <1>3, <2>1, <2>7
      <4> QED
        BY <1>9, <2>2, <2>7, <4>1 DEF H
    <3>2. Stepped(w.out)
      <4> HIDE DEF v, t, w
      <4> QED
        BY <2>3, <3>1, StepStepped
    <3> QED
      BY <1>3, <2>7, <3>2 DEF H
  <2> QED
    BY <1>3, <2>4, <2>5, <2>6, <2>7
<1> HIDE DEF M
<1>7. \A i \in Nat : i \in M
  BY <1>5, <1>6, Counting
<1>8. H(n)
  BY <1>1, <1>7 DEF M
<1> QED
  BY <1>2, <1>3, <1>8 DEF H

\* So the second header can be learned from.
LEMMA StreamLearns ==
  ASSUME NEW s, IsStream(s), SecondIsReference(s)
  PROVE  \E i \in Nat : Learnable(PesOf(s), i)
<1> DEFINE v == Packed(s)
           o == v.out
           l == Len(o)
           p == PesOf(s)
<1>1. Stepped(o)
  <2> DEFINE e == Closed(s)
  <2>1. /\ IsStream(e) /\ Len(s) <= Len(e) /\ Len(s) \in Nat /\ Len(e) \in Nat
        /\ DOMAIN s = 1..Len(s) /\ DOMAIN e = 1..Len(e) /\ \A i \in 1..Len(s) : e[i] = s[i]
    <3>1. s \in Seq(StreamTokens) /\ e \in Seq(StreamTokens)
      BY ClosedIs DEF IsStream
    <3> HIDE DEF e
    <3>2. Len(s) \in Nat /\ Len(e) \in Nat /\ DOMAIN s = 1..Len(s) /\ DOMAIN e = 1..Len(e)
      BY <3>1
    <3> QED
      BY <3>2, ClosedIs DEF e
  <2>2. v = Scanned(e)
    BY DEF Packed
  <2> HIDE DEF e, v
  <2>3. PICK j, i \in 1..Len(s) :
          /\ j < i /\ s[j].kind = "pic" /\ s[i].kind = "pic" /\ ~s[i].b
          /\ \A n \in 1..(i - 1) : s[n].kind = "pic" => n = j
          /\ \A n \in j..i : s[n].kind = "seq" => i - n + 1 < HeaderRoom
    BY <2>1 DEF SecondIsReference
  <2>4. /\ j \in 1..Len(e) /\ i \in 1..Len(e) /\ \A n \in 1..(i - 1) : n \in 1..Len(s)
        /\ \A n \in j..i : n \in 1..Len(s)
    BY <2>1, <2>3
  <2>5. SecondIsReference(e)
    <3>1. /\ j \in DOMAIN e /\ i \in DOMAIN e /\ j < i
          /\ e[j].kind = "pic" /\ e[i].kind = "pic" /\ ~e[i].b
      BY <2>1, <2>3, <2>4
    <3>2. \A n \in 1..(i - 1) : e[n].kind = "pic" => n = j
      BY <2>1, <2>3, <2>4
    <3>3. \A n \in j..i : e[n].kind = "seq" => i - n + 1 < HeaderRoom
      BY <2>1, <2>3, <2>4
    <3> QED
      BY <3>1, <3>2, <3>3 DEF SecondIsReference
  <2> QED
    BY <2>1, <2>2, <2>5, StreamSteps
<1>2. Written(o)
  BY PackedWell
<1> HIDE DEF v
<1>3. /\ o \in Seq(Tokens) /\ l \in Nat /\ l >= 3 /\ o[l] \in StreamTokens
  BY <1>2 DEF Written
<1>4. p \in Seq(Tokens) /\ Len(p) = l /\ \A i \in 1..(l - 1) : p[i] = o[i]
  <2>1. CASE v.pc \in {"done", "exit"}
    <3>1. p = o
      BY <2>1, Zenon DEF PesOf, v
    <3> HIDE DEF p, o
    <3> QED
      BY <1>3, <3>1 DEF l
  <2>2. CASE v.pc \notin {"done", "exit"}
    <3> DEFINE x == Cut(o[l])
               r == Front(o)
    <3>1. p = Append(r, x)
      BY <2>2 DEF PesOf, v, Last
    <3>2. x \in Tokens
      BY <1>3, TokenKinds
    <3>3. r \in Seq(Tokens) /\ Len(r) = l - 1 /\ (\A i \in 1..(l - 1) : r[i] = o[i])
      <4> HIDE DEF o
      <4> QED
        BY <1>3 DEF Front
    <3> HIDE DEF x, r, p, o, l
    <3>4. /\ Append(r, x) \in Seq(Tokens) /\ Len(Append(r, x)) = Len(r) + 1
          /\ \A j \in 1..Len(r) : Append(r, x)[j] = r[j]
      BY <3>2, <3>3, AppendIs
    <3> QED
      BY <1>3, <3>1, <3>3, <3>4
  <2> QED
    BY <2>1, <2>2
<1>5. PICK i \in 2..(l - 2) :
        /\ o[i].kind = "pes" /\ o[i].both /\ o[i + 1].dts = PtsStep % PtsMax
        /\ \A n \in 2..(i - 1) : o[n].kind # "pes"
  BY <1>1 DEF Stepped
<1>6. o[1].both /\ o[2].dts = 0
  BY <1>1 DEF Stepped
<1> HIDE DEF p, o, l
<1>7. p[1] = o[1] /\ p[1 + 1] = o[2] /\ p[i] = o[i] /\ p[i + 1] = o[i + 1] /\ i \in 2..Len(p) /\ i \in Nat
  <2>1. /\ 1 \in 1..(l - 1) /\ 2 \in 1..(l - 1) /\ i \in 1..(l - 1) /\ i + 1 \in 1..(l - 1)
        /\ i \in 2..l /\ 1 + 1 = 2 /\ i \in Nat
    BY <1>3, <1>5
  <2> QED
    BY <1>4, <2>1
<1>8. \A n \in 2..(i - 1) : p[n].kind # "pes"
  <2>1. \A n \in 2..(i - 1) : n \in 1..(l - 1)
    BY <1>3, <1>5
  <2> QED
    BY <1>4, <1>5, <2>1
<1>9. TimeAt(p, 1) = 0 /\ TimeAt(p, i) = PtsStep % PtsMax
  BY <1>5, <1>6, <1>7, Zenon DEF TimeAt
<1>10. (0 + PtsStep) % PtsMax = PtsStep % PtsMax
  BY TimesAssumption
<1>11. Learnable(p, i)
  BY <1>5, <1>7, <1>8, <1>9, <1>10 DEF Learnable
<1> QED
  BY <1>7, <1>11 DEF p

\* From the third frame on, each frame that pesvideo2ts writes has the decoding time of the one
\* before and a step, modulo 2^33, through all files and all repetitions of them: the step of
\* the first two frames of the first file, if the second of them is not a B picture and what is
\* between a sequence header and it fits in header_buffer.
THEOREM TimesGoOn ==
  ASSUME \A u \in VideoFiles : SecondIsReference(u[1].stream)
  PROVE  Spec => DecodingTimesGoOn
<1>1. \A u \in VideoFiles : \E i \in Nat : Learnable(PesOf(u[1].stream), i)
  <2> SUFFICES ASSUME NEW u \in VideoFiles PROVE \E i \in Nat : Learnable(PesOf(u[1].stream), i)
    OBVIOUS
  <2>1. IsStream(u[1].stream) /\ SecondIsReference(u[1].stream)
    BY PackagingAssumption
  <2> QED
    BY <2>1, StreamLearns
<1> DEFINE Inv == Chain(Tokens) /\ Learned
           Step == decoding # -1 /\ WritesStart => decoding' = (decoding + PtsStep) % PtsMax
<1>2. Init => Inv
  BY <1>1, AllSound, StreamStarts, LearnedStarts
<1>3. Inv /\ [Next]_vars => Inv'
  <2> SUFFICES ASSUME Inv, [Next]_vars PROVE Inv'
    OBVIOUS
  <2>1. Chain(Tokens)'
    <3>1. CASE VideoPart
      BY <3>1, VideoKeepsStream DEF VideoPart
    <3>2. CASE UNCHANGED videoVars
      BY <3>2 DEF videoVars, Chain, StreamTypes, Shipping, Phases, Payloads, Headers, IsStart, AtEnd,
                  NextIsDts
    <3> QED
      BY <3>1, <3>2 DEF Next, AudioPart, vars
  <2>2. Learned'
    BY AllSound, LoopLearns
  <2> QED
    BY <2>1, <2>2
<1>4. Inv /\ [Next]_vars => [Step]_vars
  BY AllSound, LoopLearns
<1> QED
  <2> HIDE DEF Inv
  <2>1. Spec => [][Step]_vars
    BY <1>2, <1>3, <1>4, PTL DEF Spec
  <2> QED
    BY <2>1 DEF DecodingTimesGoOn

=============================================================================
