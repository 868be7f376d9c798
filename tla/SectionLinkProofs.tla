--------------------------- MODULE SectionLinkProofs ---------------------------
(***************************************************************************)
(* Proofs about sec2ts and ts2sec, for any payload of a packet, any sizes  *)
(* and any number of sections: the pointer field is right, with -s         *)
(* sections start at the beginning of a packet, and ts2sec puts out what   *)
(* sec2ts was given.                                                       *)
(***************************************************************************)
EXTENDS SectionLink, Integers, SequenceTheorems, WellFoundedInduction, TLAPS

-----------------------------------------------------------------------------
(* Numbers.                                                                  *)

LEMMA LeastNumber ==
  ASSUME NEW S, S \subseteq Nat, S # {}
  PROVE  \E m \in S : \A n \in S : m <= n
<1> DEFINE R == OpToRel(<, Nat)
<1>1. IsWellFoundedOn(R, Nat)
  BY NatLessThanWellFounded
<1>2. \A x, y \in Nat : <<x, y>> \in R <=> x < y
  BY DEF OpToRel
<1> HIDE DEF R
<1>3. PICK m \in S : \A n \in S : ~(<<n, m>> \in R)
  BY <1>1, WFMin
<1>4. ASSUME NEW n \in S PROVE m <= n
  <2>1. m \in Nat /\ n \in Nat /\ ~(<<n, m>> \in R)
    BY <1>3
  <2>2. ~(n < m)
    BY <1>2, <2>1, Zenon
  <2> QED
    BY <2>1, <2>2
<1> QED
  BY <1>4

\* Division and its rest.
LEMMA Quotient ==
  ASSUME NEW x \in Nat, NEW m \in Nat \ {0}
  PROVE  /\ x \div m \in Nat /\ x % m \in 0..(m - 1)
         /\ x = (x \div m) * m + (x % m)
OBVIOUS

-----------------------------------------------------------------------------
(* Types.                                                                    *)

Bytes == [sec : Nat, off : Nat]
Packets == [cc : Nat, pusi : BOOLEAN, pointer : Nat, bytes : Seq(Bytes)]

Types ==
  /\ sizes \in Seq(Nat \ {0})
  /\ cur \in Nat /\ size \in Nat /\ at \in 0..size
  /\ pkt \in Packets /\ ts \in Seq(Packets)

\* The sections that ts2sec is to find are the first ones, up to one that is not available.
LEMMA SectionsToSend ==
  ASSUME sizes \in Seq(Nat \ {0})
  PROVE  \E n \in 0..Len(sizes) :
           /\ \A i \in 1..n : Available(i)
           /\ ~Available(n + 1)
           /\ SentSections = [i \in 1..n |-> [k \in 1..sizes[i] |-> [sec |-> i, off |-> k - 1]]]
<1> DEFINE Until(i) == (\A j \in 1..i : Available(j)) /\ ~Available(i + 1)
           n == CHOOSE i \in 0..Len(sizes) : Until(i)
<1>1. \E i \in 0..Len(sizes) : Until(i)
  <2> DEFINE S == {i \in 1..(Len(sizes) + 1) : ~Available(i)}
  <2>1. Len(sizes) + 1 \in S /\ S \subseteq Nat
    BY DEF Available
  <2> HIDE DEF S
  <2>2. PICK m \in S : \A k \in S : m <= k
    BY <2>1, LeastNumber
  <2>3. m \in 1..(Len(sizes) + 1) /\ ~Available(m) /\ Len(sizes) \in Nat
    BY <2>2 DEF S
  <2>4. ASSUME NEW j \in 1..(m - 1) PROVE Available(j)
    <3>1. j \in 1..(Len(sizes) + 1) /\ ~(m <= j)
      BY <2>3
    <3>2. j \notin S
      BY <2>2, <3>1
    <3> QED
      BY <3>1, <3>2 DEF S
  <2>5. m - 1 \in 0..Len(sizes) /\ (m - 1) + 1 = m
    BY <2>3
  <2> QED
    BY <2>3, <2>4, <2>5
<1>2. n \in 0..Len(sizes) /\ Until(n)
  <2> HIDE DEF Until
  <2> QED
    BY <1>1
<1>3. SentSections = [i \in 1..n |-> [k \in 1..sizes[i] |-> [sec |-> i, off |-> k - 1]]]
  BY DEF SentSections
<1> HIDE DEF n
<1> QED
  BY <1>2, <1>3

\* There is a section to send, when SentSections is not empty.
LEMMA SomethingSent ==
  ASSUME sizes \in Seq(Nat \ {0}), SentSections # <<>>
  PROVE  Available(1)
<1>1. PICK n \in 0..Len(sizes) :
        /\ \A i \in 1..n : Available(i)
        /\ SentSections = [i \in 1..n |-> [k \in 1..sizes[i] |-> [sec |-> i, off |-> k - 1]]]
  BY SectionsToSend
<1>2. ASSUME n = 0 PROVE FALSE
  <2>1. 1..n = {}
    BY <1>2
  <2>2. SentSections \in [1..0 -> {}]
    BY <1>1, <1>2, <2>1
  <2>3. SentSections \in Seq({}) /\ Len(SentSections) = 0
    BY <2>2
  <2> QED
    BY <2>3
<1>3. 1 \in 1..n
  BY <1>2
<1> QED
  BY <1>1, <1>3

-----------------------------------------------------------------------------
(* The pointer field.                                                        *)

\* A packet that is right: one section starts in it, where the pointer says, or none.
Right(p) == p \in Packets /\ StartsAt(p) = IF p.pusi THEN {p.pointer + 1} ELSE {}

\* Nothing starts in it so far, but what comes next starts where the pointer says.
Awaits(p) == p.pusi /\ p.pointer = Len(p.bytes) /\ StartsAt(p) = {}

NothingStarts(p) == ~p.pusi /\ StartsAt(p) = {}

\* The packet that is being written, before the first byte of a section; in the middle of
\* one, rest bytes of which are missing; after one that ends in the packet, to be padded;
\* and after one that does not.
Begun ==
  at = 0 /\ at < size =>
    Awaits(pkt) /\ (needPad <=> Room(pkt) > size)
GoesOn ==
  at > 0 /\ at < size =>
    /\ pkt.bytes = <<>> /\ ~needPad
    /\ LET rest == size - at
       IN  IF pkt.pusi THEN /\ pkt.pointer = rest /\ rest < Payload - 1
                            /\ Available(cur + 1)
           ELSE rest # Payload - 1 /\ (rest >= Payload \/ ~Available(cur + 1))
ToPad == at = size /\ needPad => Right(pkt)
Over ==
  at = size /\ ~needPad /\ Available(1) =>
    IF Available(cur + 1) THEN Awaits(pkt) ELSE NothingStarts(pkt)

SInv ==
  /\ Types
  /\ Room(pkt) > 0
  /\ IF cur = 0 THEN size = 0 ELSE Available(1) /\ cur \in DOMAIN sizes
  /\ Begun /\ GoesOn /\ ToPad /\ Over
  /\ Available(1) => \A k \in DOMAIN last : Right(last[k])

-----------------------------------------------------------------------------
LEMMA Constants == Payload \in Nat /\ Payload > 1
BY Sec2TsAssumption

\* A header that was just written.
LEMMA NewHeader ==
  ASSUME NEW p \in Packets, p.bytes = <<>>
  PROVE  StartsAt(p) = {} /\ Room(p) > 0 /\ Len(p.bytes) = 0
<1>1. Len(p.bytes) = 0 /\ DOMAIN p.bytes = {}
  OBVIOUS
<1> QED
  BY <1>1, Constants DEF StartsAt, Room

LEMMA HeaderTypes ==
  ASSUME Types, NEW pointer \in Nat
  PROVE  /\ StartHeader(NextCc, pointer) \in Packets /\ PlainHeader(NextCc) \in Packets
         /\ StartHeader(NextCc, pointer).bytes = <<>> /\ PlainHeader(NextCc).bytes = <<>>
         /\ StartHeader(NextCc, pointer).pusi /\ ~PlainHeader(NextCc).pusi
         /\ StartHeader(NextCc, pointer).pointer = pointer
<1>1. NextCc \in Nat
  BY DEF Types, NextCc, Packets
<1>2. <<>> \in Seq(Bytes)
  OBVIOUS
<1> QED
  BY <1>1, <1>2 DEF StartHeader, PlainHeader, Packets

LEMMA Concatenation ==
  ASSUME NEW S, NEW a \in Seq(S), NEW b \in Seq(S)
  PROVE  /\ a \o b \in Seq(S) /\ Len(a \o b) = Len(a) + Len(b)
         /\ \A k \in 1..Len(a) : (a \o b)[k] = a[k]
         /\ \A k \in 1..Len(b) : (a \o b)[Len(a) + k] = b[k]
<1>1. a \o b \in Seq(S) /\ Len(a \o b) = Len(a) + Len(b)
  OBVIOUS
<1>2. ASSUME NEW k \in 1..Len(a) PROVE (a \o b)[k] = a[k]
  OBVIOUS
<1>3. ASSUME NEW k \in 1..Len(b) PROVE (a \o b)[Len(a) + k] = b[k]
  OBVIOUS
<1> QED
  BY <1>1, <1>2, <1>3

\* The bytes of a section that are added to a packet: it starts there when the first one is
\* among them.
Filled(p, i, from, n) == [p EXCEPT !.bytes = p.bytes \o [j \in 1..n |-> Byte(i, from + j - 1)]]

LEMMA AddedBytes ==
  ASSUME NEW p \in Packets, NEW i \in DOMAIN sizes, NEW n \in Nat, NEW from \in Nat, Types,
         NEW q, q = Filled(p, i, from, n)
  PROVE  /\ q \in Packets /\ q.pusi = p.pusi /\ q.pointer = p.pointer
         /\ Len(q.bytes) = Len(p.bytes) + n
         /\ StartsAt(q) = StartsAt(p) \cup IF from = 0 /\ n > 0 THEN {Len(p.bytes) + 1} ELSE {}
<1> DEFINE f == [j \in 1..n |-> Byte(i, from + j - 1)]
           l == Len(p.bytes)
<1>1. p.bytes \in Seq(Bytes) /\ l \in Nat
  BY DEF Packets
<1>2. i \in Nat \ {0} /\ sizes[i] \in Nat \ {0}
  BY DEF Types
<1>3. ASSUME NEW j \in 1..n
      PROVE  /\ f[j] \in Bytes
             /\ (f[j].sec # 0 /\ f[j].off = 0) <=> (from = 0 /\ j = 1)
  <2>1. f[j] = Byte(i, from + j - 1) /\ from + j - 1 \in Nat /\ (from + j - 1 = 0 <=> from = 0 /\ j = 1)
    OBVIOUS
  <2> QED
    BY <1>2, <2>1 DEF Byte, Stuff, Bytes
<1>4. f \in Seq(Bytes) /\ Len(f) = n /\ DOMAIN f = 1..n
  <2>1. f \in [1..n -> Bytes]
    BY <1>3
  <2> QED
    BY <2>1
<1> HIDE DEF f
<1>5. /\ p.bytes \o f \in Seq(Bytes) /\ Len(p.bytes \o f) = l + n
      /\ \A k \in 1..l : (p.bytes \o f)[k] = p.bytes[k]
      /\ \A k \in 1..n : (p.bytes \o f)[l + k] = f[k]
  <2>1. /\ p.bytes \o f \in Seq(Bytes) /\ Len(p.bytes \o f) = Len(p.bytes) + Len(f)
        /\ \A k \in 1..Len(p.bytes) : (p.bytes \o f)[k] = p.bytes[k]
        /\ \A k \in 1..Len(f) : (p.bytes \o f)[Len(p.bytes) + k] = f[k]
    <3>1. p.bytes \in Seq(Bytes) /\ f \in Seq(Bytes)
      BY <1>1, <1>4
    <3> QED
      BY <3>1, Concatenation
  <2>2. Len(f) = n /\ l = Len(p.bytes)
    BY <1>4
  <2> HIDE DEF l
  <2> QED
    BY <2>1, <2>2
<1>6. q \in Packets /\ q.pusi = p.pusi /\ q.pointer = p.pointer /\ q.bytes = p.bytes \o f
  BY <1>5 DEF Packets, Filled, f
<1> HIDE DEF l
<1>7. ASSUME NEW k \in 1..(l + n)
      PROVE  k \in StartsAt(q) <=> k \in StartsAt(p) \/ (from = 0 /\ n > 0 /\ k = l + 1)
  <2>1. CASE k \in 1..l
    BY <1>1, <1>5, <1>6, <2>1 DEF StartsAt, l
  <2>2. CASE k \notin 1..l
    <3>1. k - l \in 1..n /\ l + (k - l) = k
      BY <1>1, <1>7, <2>2 DEF l
    <3>2. q.bytes[k] = f[k - l]
      BY <1>5, <1>6, <3>1
    <3>3. k \in StartsAt(q) <=> from = 0 /\ k - l = 1
      <4>1. DOMAIN q.bytes = 1..(l + n)
        BY <1>5, <1>6
      <4>2. k \in StartsAt(q) <=> f[k - l].sec # 0 /\ f[k - l].off = 0
        BY <1>7, <3>2, <4>1 DEF StartsAt
      <4> QED
        BY <1>3, <3>1, <4>2
    <3>4. k \notin StartsAt(p)
      BY <1>1, <2>2 DEF StartsAt, l
    <3> QED
      BY <1>1, <3>1, <3>3, <3>4 DEF l
  <2> QED
    BY <2>1, <2>2
<1>8. StartsAt(q) \subseteq 1..(l + n) /\ StartsAt(p) \subseteq 1..l
  BY <1>1, <1>5, <1>6 DEF StartsAt, l
<1>9. StartsAt(q) = StartsAt(p) \cup IF from = 0 /\ n > 0 THEN {l + 1} ELSE {}
  BY <1>1, <1>7, <1>8 DEF l
<1> QED
  BY <1>5, <1>6, <1>9 DEF l

\* Padding does not start a section.
LEMMA PaddingStartsNothing ==
  ASSUME Types
  PROVE  /\ PaddedPacket \in Packets
         /\ PaddedPacket.pusi = pkt.pusi /\ PaddedPacket.pointer = pkt.pointer
         /\ StartsAt(PaddedPacket) = StartsAt(pkt)
<1> DEFINE f == [j \in 1..Room(pkt) |-> Stuff]
           b == pkt.bytes
           l == Len(b)
           q == PaddedPacket
<1>1. pkt \in Packets /\ b \in Seq(Bytes) /\ l \in Nat
  BY DEF Types, Packets
<1>2. Room(pkt) \in Int /\ Stuff \in Bytes /\ Stuff.sec = 0
  BY <1>1, Constants DEF Room, Stuff, Bytes
<1>3. f \in Seq(Bytes) /\ \A k \in 1..Len(f) : f[k].sec = 0
  <2> DEFINE r == IF Room(pkt) > 0 THEN Room(pkt) ELSE 0
  <2>1. r \in Nat /\ 1..Room(pkt) = 1..r
    BY <1>2
  <2>2. f \in [1..r -> Bytes] /\ \A k \in 1..r : f[k] = Stuff
    BY <1>2, <2>1
  <2> HIDE DEF f, r
  <2>3. f \in Seq(Bytes) /\ Len(f) = r
    BY <2>1, <2>2
  <2> QED
    BY <1>2, <2>2, <2>3
<1>4. q = [pkt EXCEPT !.bytes = b \o f]
  BY DEF PaddedPacket
<1> HIDE DEF f, b, l, q
<1>5. /\ b \o f \in Seq(Bytes) /\ Len(b \o f) = l + Len(f) /\ Len(f) \in Nat
      /\ \A k \in 1..l : (b \o f)[k] = b[k]
      /\ \A k \in 1..Len(f) : (b \o f)[l + k] = f[k]
  BY <1>1, <1>3, Concatenation DEF b, l
<1>6. q \in Packets /\ q.pusi = pkt.pusi /\ q.pointer = pkt.pointer /\ q.bytes = b \o f
  BY <1>1, <1>4, <1>5 DEF Packets
<1>7. DOMAIN q.bytes = 1..(l + Len(f)) /\ DOMAIN b = 1..l
  BY <1>1, <1>5, <1>6 DEF b, l
<1>8. ASSUME NEW k \in 1..(l + Len(f)) PROVE k \in StartsAt(q) <=> k \in StartsAt(pkt)
  <2>1. CASE k \in 1..l
    BY <1>5, <1>6, <1>7, <2>1 DEF StartsAt, b
  <2>2. CASE k \notin 1..l
    <3>1. k - l \in 1..Len(f) /\ l + (k - l) = k
      BY <1>1, <1>5, <1>8, <2>2
    <3>2. q.bytes[k].sec = 0
      BY <1>3, <1>5, <1>6, <3>1
    <3> QED
      BY <1>7, <2>2, <3>2 DEF StartsAt, b
  <2> QED
    BY <2>1, <2>2
<1>9. StartsAt(q) = StartsAt(pkt)
  <2>1. StartsAt(q) \subseteq 1..(l + Len(f)) /\ StartsAt(pkt) \subseteq 1..(l + Len(f))
    BY <1>1, <1>5, <1>7 DEF StartsAt, b
  <2> QED
    BY <1>8, <2>1
<1> QED
  BY <1>6, <1>9 DEF q

-----------------------------------------------------------------------------
(* The steps of sec2ts.                                                      *)

LEMMA InitHolds ==
  ASSUME Init
  PROVE  SInv
<1>1. sizes \in Seq(Nat \ {0})
  <2>1. PICK n \in 1..MaxSections : sizes \in [1..n -> SizeChoices]
    BY DEF Init
  <2>2. \A x \in SizeChoices : x \in Nat \ {0}
    BY SectionLinkAssumption
  <2>3. sizes \in [1..n -> Nat \ {0}]
    BY <2>1, <2>2
  <2> QED
    BY <2>3
<1>2. /\ cur = 0 /\ size = 0 /\ at = 0 /\ needPad = FALSE /\ pkt = StartHeader(0, 0)
      /\ ts = <<>> /\ last = <<>>
  BY DEF Init, SenderInit
<1>3. pkt \in Packets /\ pkt.pusi /\ pkt.pointer = 0 /\ pkt.bytes = <<>>
  <2>1. <<>> \in Seq(Bytes)
    OBVIOUS
  <2> QED
    BY <1>2, <2>1 DEF StartHeader, Packets
<1>4. Awaits(pkt) /\ Room(pkt) > 0
  BY <1>3, NewHeader DEF Awaits
<1>5. Types
  BY <1>1, <1>2, <1>3 DEF Types
<1>6. Begun /\ GoesOn /\ ToPad /\ Over
  BY <1>2, <1>4 DEF Begun, GoesOn, ToPad, Over
<1> QED
  BY <1>2, <1>4, <1>5, <1>6 DEF SInv

LEMMA TakeKeepsInv ==
  ASSUME SInv, TakeSection, last' = last
  PROVE  SInv'
<1>1. /\ at = size /\ ~needPad /\ Available(cur + 1)
      /\ cur' = cur + 1 /\ size' = StuffedSize(cur + 1) /\ at' = 0
      /\ needPad' = (Room(pkt) > StuffedSize(cur + 1))
      /\ UNCHANGED <<stuffing, sizes, pkt, ts>>
  BY DEF TakeSection
<1>2. cur + 1 \in DOMAIN sizes /\ sizes[cur + 1] \in Nat \ {0} /\ cur + 1 \in Nat
  BY <1>1 DEF Available, SInv, Types
<1>3. size' \in Nat \ {0}
  <2> DEFINE s == sizes[cur + 1]
  <2>1. s % Payload \in 0..(Payload - 1)
    BY <1>2, Constants, Quotient
  <2> DEFINE r == s % Payload
  <2> HIDE DEF r
  <2>2. r < Payload - 1 => s + (Payload - 1 - r) \in Nat \ {0}
    BY <1>2, <2>1, Constants DEF r
  <2> QED
    BY <1>1, <1>2, <2>2 DEF StuffedSize, r
<1>4. Available(1)
  <2>1. CASE cur = 0
    BY <1>1, <2>1
  <2>2. CASE cur # 0
    BY <2>2 DEF SInv, Types
  <2> QED
    BY <2>1, <2>2
<1>5. Awaits(pkt)
  BY <1>1, <1>4 DEF SInv, Over
<1>6. /\ StartsAt(pkt)' = StartsAt(pkt) /\ Room(pkt)' = Room(pkt)
      /\ Available(1)' = Available(1)
  BY <1>1 DEF StartsAt, Room, Available
<1>7. Begun'
  BY <1>1, <1>2, <1>5, <1>6 DEF Begun, Awaits
<1>8. GoesOn' /\ ToPad' /\ Over'
  BY <1>1, <1>3 DEF GoesOn, ToPad, Over
<1>9. Types'
  BY <1>1, <1>2, <1>3 DEF SInv, Types
<1>10. (\A k \in DOMAIN last : Right(last[k]))'
  BY <1>4 DEF SInv, Right, StartsAt
<1>11. Available(1)' /\ cur' \in DOMAIN sizes' /\ ~(cur' = 0)
  <2>1. ~(cur + 1 = 0)
    BY DEF SInv, Types
  <2> QED
    BY <1>1, <1>2, <1>4, <1>6, <2>1
<1>12. (Room(pkt) > 0)'
  BY <1>6 DEF SInv
<1> QED
  BY <1>7, <1>8, <1>9, <1>10, <1>11, <1>12 DEF SInv

\* A packet that is right is written.
LEMMA OutputKeepsRight ==
  ASSUME Types, sizes' = sizes, NEW q \in Packets, Available(1) => Right(q),
         ts' = Append(ts, q), last' = <<ts'[Len(ts')]>>
  PROVE  /\ ts' \in Seq(Packets)
         /\ Available(1)' => \A k \in DOMAIN last' : Right(last'[k])
<1>1. ts' \in Seq(Packets) /\ Len(ts') = Len(ts) + 1 /\ ts'[Len(ts')] = q
  BY DEF Types
<1>2. last' = <<q>>
  BY <1>1
<1>3. \A k \in DOMAIN last' : last'[k] = q
  BY <1>2
<1>4. Available(1)' = Available(1)
  BY DEF Available
<1> QED
  BY <1>1, <1>3, <1>4

\* The header after a packet that was filled, when rest bytes of the section are missing.
LEMMA HeaderAfterFullKeeps ==
  ASSUME Types, ~needPad, NEW rest \in Nat,
         sizes' = sizes, cur' = cur, needPad' = needPad,
         at' \in Nat \ {0}, size' = at' + rest + OneByteMore(rest),
         pkt' = HeaderAfterFull(rest)
  PROVE  /\ pkt' \in Packets /\ size' \in Nat /\ at' \in 0..size' /\ (Room(pkt) > 0)'
         /\ Begun' /\ GoesOn' /\ ToPad' /\ Over'
<1> DEFINE more == rest < Payload - 1 /\ Available(cur + 1)
<1>1. /\ pkt' \in Packets /\ pkt'.bytes = <<>>
      /\ IF more THEN pkt'.pusi /\ pkt'.pointer = rest ELSE ~pkt'.pusi
  BY HeaderTypes DEF HeaderAfterFull
<1>2. StartsAt(pkt') = {} /\ Room(pkt') > 0 /\ Len(pkt'.bytes) = 0
  BY <1>1, NewHeader
<1>3. /\ StartsAt(pkt)' = StartsAt(pkt') /\ Room(pkt)' = Room(pkt')
      /\ Available(cur + 1)' = Available(cur + 1) /\ Available(1)' = Available(1)
  BY DEF StartsAt, Room, Available
<1> DEFINE a == at'
           s == size'
           m == OneByteMore(rest)
<1>4. /\ a \in Nat /\ a > 0 /\ m \in Nat /\ s = a + rest + m
      /\ m = IF rest = Payload - 1 THEN 1 ELSE 0
  BY DEF OneByteMore
<1> HIDE DEF a, s, m
<1>8. /\ s \in Nat /\ a \in 0..s /\ (a = s <=> rest + m = 0) /\ s - a = rest + m
      /\ Payload \in Nat /\ Payload > 1 /\ ~(a = 0)
  BY <1>4, Constants
<1>5. Begun' /\ ToPad'
  BY <1>8 DEF Begun, ToPad, a
<1>6. ASSUME rest > 0 PROVE GoesOn' /\ Over'
  <2>1. s - a = (IF rest = Payload - 1 THEN Payload ELSE rest) /\ ~(a = s)
    BY <1>4, <1>6, <1>8
  <2>2. Over'
    BY <2>1 DEF Over, a, s
  <2>3. GoesOn' <=> (a > 0 /\ a < s =>
          /\ pkt'.bytes = <<>> /\ ~needPad
          /\ IF pkt'.pusi THEN /\ pkt'.pointer = s - a /\ s - a < Payload - 1
                               /\ Available(cur + 1)
             ELSE s - a # Payload - 1 /\ (s - a >= Payload \/ ~Available(cur + 1)))
    BY <1>3 DEF GoesOn, a, s
  <2>4. CASE more
    <3>1. s - a = rest
      BY <1>8, <2>1, <2>4
    <3> QED
      BY <1>1, <2>2, <2>3, <2>4, <3>1
  <2>5. CASE ~more
    <3>1. s - a # Payload - 1 /\ (s - a >= Payload \/ ~Available(cur + 1))
      BY <1>8, <2>1, <2>5
    <3>2. ~pkt'.pusi
      BY <1>1, <2>5
    <3> QED
      BY <1>1, <2>2, <2>3, <3>1, <3>2
  <2> QED
    BY <2>4, <2>5
<1>7. ASSUME rest = 0 PROVE GoesOn' /\ Over'
  <2>1. a = s /\ ~(a < s) /\ (more <=> Available(cur + 1))
    BY <1>4, <1>7, <1>8
  <2>2. GoesOn'
    BY <2>1 DEF GoesOn, a, s
  <2>3. /\ Available(cur + 1) => pkt'.pusi /\ pkt'.pointer = Len(pkt'.bytes)
        /\ ~Available(cur + 1) => ~pkt'.pusi
    BY <1>1, <1>2, <1>7, <2>1
  <2>4. Awaits(pkt)' <=> pkt'.pusi /\ pkt'.pointer = Len(pkt'.bytes) /\ StartsAt(pkt)' = {}
    BY DEF Awaits
  <2>5. NothingStarts(pkt)' <=> ~pkt'.pusi /\ StartsAt(pkt)' = {}
    BY DEF NothingStarts
  <2> QED
    BY <1>2, <1>3, <2>2, <2>3, <2>4, <2>5 DEF Over
<1> QED
  BY <1>1, <1>2, <1>3, <1>5, <1>6, <1>7, <1>8 DEF a, s

LEMMA PackKeepsInv ==
  ASSUME SInv, PackBytes, last' = IF Len(ts') > Len(ts) THEN <<ts'[Len(ts')]>> ELSE last
  PROVE  SInv'
<1> DEFINE n == IF Room(pkt) < size - at THEN Room(pkt) ELSE size - at
           rest == size - at - n
           full == [pkt EXCEPT !.bytes = pkt.bytes \o [j \in 1..n |-> Byte(cur, at + j - 1)]]
<1>1. /\ at < size /\ at' = at + n
      /\ IF Room(full) = 0
         THEN /\ ts' = Append(ts, full)
              /\ pkt' = HeaderAfterFull(rest)
              /\ size' = size + OneByteMore(rest)
         ELSE pkt' = full /\ UNCHANGED <<ts, size>>
      /\ UNCHANGED <<stuffing, sizes, cur, needPad>>
  BY DEF PackBytes
<1>2. Types /\ Room(pkt) > 0 /\ Begun /\ GoesOn /\ Available(1) /\ cur \in DOMAIN sizes
  BY <1>1 DEF SInv, Types
<1>3. /\ Room(pkt) = Payload - (IF pkt.pusi THEN 1 ELSE 0) - Len(pkt.bytes)
      /\ Room(pkt) \in Nat /\ Len(pkt.bytes) \in Nat
      /\ pkt \in Packets /\ at \in Nat /\ size \in Nat /\ cur \in Nat
  BY <1>2, Constants DEF Room, Types, Packets
<1>4. /\ n \in Nat \ {0} /\ rest \in Nat /\ n <= Room(pkt) /\ n <= size - at
      /\ (n = Room(pkt) \/ n = size - at) /\ rest = size - at - n
  BY <1>1, <1>2, <1>3
<1> HIDE DEF n, rest, full
<1>5. /\ full \in Packets /\ full.pusi = pkt.pusi /\ full.pointer = pkt.pointer
      /\ Len(full.bytes) = Len(pkt.bytes) + n
      /\ StartsAt(full) = StartsAt(pkt) \cup IF at = 0 /\ n > 0 THEN {Len(pkt.bytes) + 1} ELSE {}
  <2>1. cur \in DOMAIN sizes /\ n \in Nat /\ at \in Nat /\ pkt \in Packets
    BY <1>2, <1>3, <1>4
  <2>2. full = Filled(pkt, cur, at, n)
    BY DEF full, Filled
  <2> QED
    BY <1>2, <2>1, <2>2, AddedBytes
<1>6. Room(full) = Room(pkt) - n
  BY <1>3, <1>4, <1>5, Constants DEF Room
<1>7. at = 0 => Right(full)
  BY <1>1, <1>2, <1>4, <1>5 DEF Begun, Awaits, Right
<1>8. at > 0 => /\ pkt.bytes = <<>> /\ ~needPad /\ StartsAt(pkt) = {} /\ StartsAt(full) = {}
                /\ Room(pkt) = Payload - (IF pkt.pusi THEN 1 ELSE 0)
  <2> SUFFICES ASSUME at > 0
               PROVE  /\ pkt.bytes = <<>> /\ ~needPad /\ StartsAt(pkt) = {} /\ StartsAt(full) = {}
                      /\ Room(pkt) = Payload - (IF pkt.pusi THEN 1 ELSE 0)
    OBVIOUS
  <2>1. pkt.bytes = <<>> /\ ~needPad
    BY <1>1, <1>2 DEF GoesOn
  <2>2. StartsAt(pkt) = {} /\ Len(pkt.bytes) = 0
    BY <1>3, <2>1, NewHeader
  <2>3. StartsAt(full) = {}
    BY <1>3, <1>5, <2>2
  <2>4. Room(pkt) = Payload - (IF pkt.pusi THEN 1 ELSE 0)
    BY <1>3, <2>2, Constants
  <2> QED
    BY <2>1, <2>2, <2>3, <2>4
<1>9. Available(1)' /\ cur' \in DOMAIN sizes' /\ cur' # 0
  BY <1>1, <1>2, <1>3 DEF Available, Types
<1>10. CASE Room(full) = 0
  <2>1. /\ ts' = Append(ts, full) /\ pkt' = HeaderAfterFull(rest)
        /\ size' = size + OneByteMore(rest) /\ n = Room(pkt)
    BY <1>1, <1>3, <1>4, <1>6, <1>10
  <2>2. Right(full)
    <3>1. CASE at = 0
      BY <1>7, <3>1
    <3>2. CASE at > 0
      <4>1. ~pkt.pusi
        <5> SUFFICES ASSUME pkt.pusi PROVE FALSE
          OBVIOUS
        <5>1. size - at < Payload - 1 /\ Room(pkt) = Payload - 1
          BY <1>1, <1>2, <1>8, <3>2 DEF GoesOn
        <5> QED
          <6> DEFINE p == Payload
                     r == Room(pkt)
          <6>1. p \in Nat /\ r = p - 1 /\ n = r /\ n <= size - at /\ size - at < p - 1
                /\ size \in Nat /\ at \in Nat
            BY <1>3, <1>4, <2>1, <5>1, Constants
          <6> HIDE DEF p, r
          <6> QED
            BY <6>1
      <4> QED
        BY <1>5, <1>8, <3>2, <4>1 DEF Right
    <3> QED
      BY <1>3, <3>1, <3>2
  <2>3. ~needPad
    <3>1. CASE at = 0
      BY <1>1, <1>2, <1>3, <1>4, <2>1, <3>1 DEF Begun
    <3> QED
      BY <1>3, <1>8, <3>1
  <2>4. /\ at' \in Nat \ {0} /\ size' = at' + rest + OneByteMore(rest)
    <3> DEFINE m == OneByteMore(rest)
    <3>1. m \in Nat /\ size' = size + m /\ at' = at + n
      BY <1>1, <2>1 DEF OneByteMore
    <3> HIDE DEF m
    <3>2. at' \in Nat \ {0} /\ size' = at' + rest + m
      BY <1>3, <1>4, <3>1
    <3> QED
      BY <3>2 DEF m
  <2>5. /\ pkt' \in Packets /\ size' \in Nat /\ at' \in 0..size' /\ (Room(pkt) > 0)'
        /\ Begun' /\ GoesOn' /\ ToPad' /\ Over'
    BY <1>1, <1>2, <1>4, <2>1, <2>3, <2>4, HeaderAfterFullKeeps
  <2>6. last' = <<ts'[Len(ts')]>>
    <3>1. Len(ts') > Len(ts)
      BY <1>2, <1>5, <2>1 DEF Types
    <3> QED
      BY <3>1
  <2>7. /\ ts' \in Seq(Packets)
        /\ Available(1)' => \A k \in DOMAIN last' : Right(last'[k])
    BY <1>1, <1>2, <1>5, <2>1, <2>2, <2>6, OutputKeepsRight
  <2>8. Types'
    BY <1>1, <1>2, <2>5, <2>7 DEF Types
  <2> QED
    BY <1>9, <2>5, <2>7, <2>8 DEF SInv, Right, StartsAt
<1>11. CASE Room(full) # 0
  <2>1. /\ pkt' = full /\ UNCHANGED <<ts, size>> /\ n = size - at /\ at' = size'
        /\ Room(full) > 0 /\ n < Room(pkt)
    BY <1>1, <1>3, <1>4, <1>6, <1>11
  <2>2. last' = last
    <3>1. ~(Len(ts') > Len(ts))
      BY <1>2, <2>1 DEF Types
    <3> QED
      BY <3>1
  <2>3. /\ StartsAt(pkt)' = StartsAt(full) /\ Room(pkt)' = Room(full)
        /\ Available(cur + 1)' = Available(cur + 1)
    BY <1>1, <2>1 DEF StartsAt, Room, Available
  <2>4. Types'
    BY <1>1, <1>2, <1>3, <1>5, <2>1 DEF Types
  <2>5. Begun' /\ GoesOn'
    BY <1>3, <2>1 DEF Begun, GoesOn
  <2>6. CASE at = 0
    <3>1. needPad'
      BY <1>1, <1>2, <1>3, <2>1, <2>6 DEF Begun
    <3>2. ToPad' /\ Over'
      BY <1>7, <2>1, <2>3, <2>6, <3>1 DEF ToPad, Over, Right
    <3> QED
      BY <1>2, <1>9, <2>1, <2>2, <2>3, <2>4, <2>5, <3>2 DEF SInv, Right, StartsAt
  <2>7. CASE at > 0
    <3>1. ~needPad' /\ Len(pkt.bytes) = 0
      BY <1>1, <1>8, <2>7
    <3>2. IF Available(cur + 1) THEN Awaits(full) ELSE NothingStarts(full)
      BY <1>1, <1>2, <1>3, <1>5, <1>8, <2>1, <2>7, <3>1, Constants
        DEF GoesOn, Awaits, NothingStarts
    <3>3. ToPad' /\ Over'
      BY <2>1, <2>3, <3>1, <3>2 DEF ToPad, Over, Awaits, NothingStarts
    <3> QED
      BY <1>2, <1>9, <2>1, <2>2, <2>3, <2>4, <2>5, <3>3 DEF SInv, Right, StartsAt
  <2> QED
    BY <1>3, <2>6, <2>7
<1> QED
  BY <1>10, <1>11


LEMMA PadKeepsInv ==
  ASSUME SInv, Pad, last' = IF Len(ts') > Len(ts) THEN <<ts'[Len(ts')]>> ELSE last
  PROVE  SInv'
<1> DEFINE q == PaddedPacket
<1>1. /\ at = size /\ needPad /\ needPad' = FALSE
      /\ ts' = Append(ts, q)
      /\ pkt' = IF Available(cur + 1) THEN StartHeader(NextCc, 0) ELSE PlainHeader(NextCc)
      /\ UNCHANGED <<sizes, cur, size, at>>
  BY DEF Pad
<1>2. Types /\ q \in Packets /\ Right(q)
  <2>1. Types /\ Right(pkt)
    BY <1>1 DEF SInv, ToPad
  <2> QED
    BY <2>1, PaddingStartsNothing DEF Right
<1>3. /\ pkt' \in Packets /\ pkt'.bytes = <<>>
      /\ IF Available(cur + 1) THEN pkt'.pusi /\ pkt'.pointer = 0 ELSE ~pkt'.pusi
  BY <1>1, <1>2, HeaderTypes
<1>4. StartsAt(pkt') = {} /\ Room(pkt') > 0 /\ Len(pkt'.bytes) = 0
  BY <1>3, NewHeader
<1>5. IF Available(cur + 1) THEN Awaits(pkt)' ELSE NothingStarts(pkt)'
  BY <1>3, <1>4 DEF Awaits, NothingStarts, StartsAt
<1>6. /\ Available(cur + 1)' = Available(cur + 1) /\ Available(1)' = Available(1)
      /\ Room(pkt)' = Room(pkt')
  BY <1>1 DEF Available, Room
<1>7. at' = size' /\ ~needPad' /\ ~(at < size) /\ ~(at' < size')
  BY <1>1 DEF SInv, Types
<1>8. Begun' /\ GoesOn' /\ ToPad' /\ Over'
  BY <1>5, <1>6, <1>7 DEF Begun, GoesOn, ToPad, Over
<1>9. last' = <<ts'[Len(ts')]>>
  <2>1. Len(ts') > Len(ts)
    BY <1>1, <1>2 DEF Types
  <2> QED
    BY <2>1
<1>10. /\ ts' \in Seq(Packets)
       /\ Available(1)' => \A k \in DOMAIN last' : Right(last'[k])
  <2> HIDE DEF q
  <2> QED
    BY <1>1, <1>2, <1>9, OutputKeepsRight
<1>11. Types'
  BY <1>1, <1>3, <1>10 DEF SInv, Types
<1>12. IF cur' = 0 THEN size' = 0 ELSE Available(1)' /\ cur' \in DOMAIN sizes'
  BY <1>1, <1>6 DEF SInv
<1>13. (Room(pkt) > 0)'
  BY <1>4, <1>6
<1> QED
  BY <1>8, <1>10, <1>11, <1>12, <1>13 DEF SInv, Right, StartsAt

LEMMA FinishKeepsInv ==
  ASSUME SInv, Finish, last' = IF Len(ts') > Len(ts) THEN <<ts'[Len(ts')]>> ELSE last
  PROVE  SInv'
<1> DEFINE q == PaddedPacket
<1>1. /\ at = size /\ ~needPad /\ ~Available(cur + 1)
      /\ ts' = IF padded THEN ts ELSE Append(ts, q)
      /\ UNCHANGED <<sizes, cur, size, at, needPad, pkt>>
  BY DEF Finish
<1>2. Types /\ q \in Packets /\ (Available(1) => Right(q))
  <2>1. Types /\ (Available(1) => NothingStarts(pkt))
    BY <1>1 DEF SInv, Over
  <2> QED
    BY <2>1, PaddingStartsNothing DEF Right, NothingStarts
<1>3. /\ ts' \in Seq(Packets)
      /\ Available(1)' => (\A k \in DOMAIN last : Right(last[k]))'
  <2>1. CASE padded
    <3>1. ts' = ts /\ last' = last
      BY <1>1, <1>2, <2>1 DEF Types
    <3> QED
      BY <1>1, <1>2, <3>1 DEF SInv, Types, Available, Right, StartsAt
  <2>2. CASE ~padded
    <3>1. ts' = Append(ts, q)
      BY <1>1, <2>2
    <3>2. Len(ts') > Len(ts)
      BY <1>2, <3>1 DEF Types
    <3>3. last' = <<ts'[Len(ts')]>>
      BY <3>2
    <3>4. /\ ts' \in Seq(Packets)
          /\ Available(1)' => \A k \in DOMAIN last' : Right(last'[k])
      <4> HIDE DEF q
      <4> QED
        BY <1>1, <1>2, <3>1, <3>3, OutputKeepsRight
    <3> QED
      BY <3>4 DEF Right, StartsAt
  <2> QED
    BY <2>1, <2>2
<1>4. Types'
  BY <1>1, <1>3 DEF SInv, Types
<1>5. (Begun /\ GoesOn /\ ToPad /\ Over)' /\ (Room(pkt) > 0)'
  BY <1>1 DEF SInv, Begun, GoesOn, ToPad, Over, Awaits, NothingStarts, Right, StartsAt,
              Available, Room
<1>6. IF cur' = 0 THEN size' = 0 ELSE Available(1)' /\ cur' \in DOMAIN sizes'
  BY <1>1 DEF SInv, Available
<1> QED
  BY <1>3, <1>4, <1>5, <1>6 DEF SInv

\* The packets that are read or lost are taken from the pipe, nothing else changes for
\* sec2ts.
LEMMA OthersKeepInv ==
  ASSUME SInv, UNCHANGED <<sizes, cur, size, at, needPad, pkt, last>>,
         ts' = ts \/ (ts # <<>> /\ ts' = Tail(ts))
  PROVE  SInv'
<1>1. ts' \in Seq(Packets)
  <2>1. ts \in Seq(Packets)
    BY DEF SInv, Types
  <2>2. CASE ts' = ts
    BY <2>1, <2>2
  <2>3. CASE ts # <<>> /\ ts' = Tail(ts)
    BY <2>1, <2>3
  <2> QED
    BY <2>2, <2>3
<1>2. Types'
  BY <1>1 DEF SInv, Types
<1>3. (Begun /\ GoesOn /\ ToPad /\ Over)' /\ (Room(pkt) > 0)'
  BY DEF SInv, Begun, GoesOn, ToPad, Over, Awaits, NothingStarts, Right, StartsAt,
         Available, Room
<1>4. /\ IF cur' = 0 THEN size' = 0 ELSE Available(1)' /\ cur' \in DOMAIN sizes'
      /\ Available(1)' => (\A k \in DOMAIN last : Right(last[k]))'
  BY DEF SInv, Available, Right, StartsAt
<1> QED
  BY <1>2, <1>3, <1>4 DEF SInv

LEMMA NextKeepsInv ==
  ASSUME SInv, [Next]_vars
  PROVE  SInv'
<1>1. CASE Write
  <2>1. SenderNext /\ last' = IF Len(ts') > Len(ts) THEN <<ts'[Len(ts')]>> ELSE last
    BY <1>1 DEF Write
  <2>2. CASE TakeSection
    <3>1. last' = last
      <4>1. ts' = ts
        BY <2>2 DEF TakeSection
      <4>2. ~(Len(ts') > Len(ts))
        BY <4>1 DEF SInv, Types
      <4> QED
        BY <2>1, <4>2
    <3> QED
      BY <2>2, <3>1, TakeKeepsInv
  <2>3. CASE PackBytes
    BY <2>1, <2>3, PackKeepsInv
  <2>4. CASE Pad
    BY <2>1, <2>4, PadKeepsInv
  <2>5. CASE Finish
    BY <2>1, <2>5, FinishKeepsInv
  <2> QED
    BY <2>1, <2>2, <2>3, <2>4, <2>5 DEF SenderNext
<1>2. CASE Read
  <2>1. /\ UNCHANGED <<sizes, cur, size, at, needPad, pkt, last>>
        /\ ts' = ts \/ (ts # <<>> /\ ts' = Tail(ts))
    BY <1>2 DEF Read
  <2> QED
    BY <2>1, OthersKeepInv
<1>3. CASE Lose
  <2>1. /\ UNCHANGED <<sizes, cur, size, at, needPad, pkt, last>>
        /\ ts' = ts \/ (ts # <<>> /\ ts' = Tail(ts))
    BY <1>3 DEF Lose
  <2> QED
    BY <2>1, OthersKeepInv
<1>4. CASE UNCHANGED vars
  <2>1. /\ UNCHANGED <<sizes, cur, size, at, needPad, pkt, last>>
        /\ ts' = ts \/ (ts # <<>> /\ ts' = Tail(ts))
    BY <1>4 DEF vars, senderVars
  <2> QED
    BY <2>1, OthersKeepInv
<1> QED
  BY <1>1, <1>2, <1>3, <1>4 DEF Next

\* The invariant holds in every state.
THEOREM Inductive == Spec => []SInv
<1>1. Init => SInv
  BY InitHolds
<1>2. SInv /\ [Next]_vars => SInv'
  BY NextKeepsInv
<1> QED
  BY <1>1, <1>2, PTL DEF Spec

\* The pointer field is right: a packet has payload_unit_start_indicator exactly when a
\* section starts in it, and the pointer field leads to the first one that does, whatever
\* the sizes of the sections, with and without -s.
THEOREM PointersAreRight == Spec => []PointerFieldIsRight
<1>1. ASSUME SInv PROVE PointerFieldIsRight
  <2> SUFFICES ASSUME SentSections # <<>>, NEW k \in DOMAIN last
               PROVE  IF last[k].pusi
                      THEN /\ last[k].pointer + 1 \in StartsAt(last[k])
                           /\ \A j \in StartsAt(last[k]) : last[k].pointer + 1 <= j
                      ELSE StartsAt(last[k]) = {}
    BY DEF PointerFieldIsRight
  <2>1. Available(1)
    BY <1>1, SomethingSent DEF SInv, Types
  <2>2. Right(last[k])
    BY <1>1, <2>1 DEF SInv
  <2>3. last[k].pointer + 1 \in Nat
    BY <2>2 DEF Right, Packets
  <2> QED
    BY <2>2, <2>3 DEF Right
<1> QED
  BY <1>1, Inductive, PTL

-----------------------------------------------------------------------------
(* Sections on packet boundaries.                                            *)

Multiples == {m * Payload : m \in Nat}

\* With -s every packet is filled: a section takes one octet less than a number of packets,
\* and what remains of it after its first packet is a number of packets.
Aligned ==
  /\ ~needPad /\ pkt.bytes = <<>>
  /\ at = 0 /\ at < size => \E m \in Multiples : size = m + (Payload - 1)
  /\ at > 0 /\ at < size => size - at \in Multiples
  /\ \A k \in DOMAIN last : StartsAt(last[k]) \subseteq {1}

AInv == stuffing => Aligned

LEMMA MultiplesAre ==
  ASSUME NEW x \in Multiples
  PROVE  /\ x \in Nat /\ x # Payload - 1
         /\ x > 0 => x >= Payload /\ x - Payload \in Multiples
<1>1. PICK m \in Nat : x = m * Payload
  BY DEF Multiples
<1> DEFINE p == Payload
<1>2. p \in Nat /\ p > 1 /\ x = m * p
  BY <1>1, Constants
<1> HIDE DEF p
<1>3. x \in Nat
  BY <1>2
<1>4. ASSUME m > 0 PROVE x >= p /\ x # p - 1 /\ x - p = (m - 1) * p
  BY <1>2, <1>4
<1>5. ASSUME m = 0 PROVE x = 0 /\ x # p - 1
  BY <1>2, <1>5
<1>6. m > 0 => x - Payload \in Multiples
  <2> SUFFICES ASSUME m > 0 PROVE x - Payload \in Multiples
    OBVIOUS
  <2>1. m - 1 \in Nat /\ x - Payload = (m - 1) * Payload
    BY <1>4 DEF p
  <2> QED
    BY <2>1 DEF Multiples
<1> QED
  BY <1>3, <1>4, <1>5, <1>6 DEF p

\* get_section: the stuffing makes a section as long.
LEMMA StuffedSizes ==
  ASSUME Types, stuffing, NEW i \in DOMAIN sizes
  PROVE  \E m \in Multiples : StuffedSize(i) = m + (Payload - 1)
<1> DEFINE s == sizes[i]
           r == s % Payload
           q == s \div Payload
           m == q * Payload
<1>1. s \in Nat
  BY DEF Types
<1>2. q \in Nat /\ r \in 0..(Payload - 1) /\ s = q * Payload + r
  <2> HIDE DEF s
  <2>1. s \in Nat /\ Payload \in Nat \ {0}
    BY <1>1, Constants
  <2> QED
    BY <2>1, Quotient
<1>3. StuffedSize(i) = IF r < Payload - 1 THEN s + (Payload - 1 - r) ELSE s
  BY <1>2, Constants DEF StuffedSize
<1> HIDE DEF s, r, q
<1>4. m \in Multiples /\ s = m + r
  BY <1>2 DEF Multiples
<1> HIDE DEF m
<1>5. m \in Nat
  BY <1>4, MultiplesAre
<1>6. StuffedSize(i) = m + (Payload - 1)
  BY <1>1, <1>2, <1>3, <1>4, <1>5, Constants
<1> QED
  BY <1>4, <1>6

LEMMA PackKeepsAligned ==
  ASSUME SInv, stuffing, Aligned, PackBytes,
         last' = IF Len(ts') > Len(ts) THEN <<ts'[Len(ts')]>> ELSE last
  PROVE  Aligned'
<1> DEFINE n == IF Room(pkt) < size - at THEN Room(pkt) ELSE size - at
           rest == size - at - n
           full == [pkt EXCEPT !.bytes = pkt.bytes \o [j \in 1..n |-> Byte(cur, at + j - 1)]]
<1>1. /\ at < size /\ at' = at + n
      /\ Room(full) = 0 => /\ ts' = Append(ts, full)
                           /\ pkt' = HeaderAfterFull(rest)
                           /\ size' = size + OneByteMore(rest)
      /\ UNCHANGED <<stuffing, sizes, cur, needPad>>
  BY DEF PackBytes
<1>2. /\ Types /\ Begun /\ GoesOn /\ cur \in DOMAIN sizes
      /\ pkt \in Packets /\ at \in Nat /\ size \in Nat
  BY <1>1 DEF SInv, Types
<1>3. pkt.bytes = <<>> /\ Len(pkt.bytes) = 0 /\ StartsAt(pkt) = {}
  BY <1>2, NewHeader DEF Aligned
<1>4. Room(pkt) = IF pkt.pusi THEN Payload - 1 ELSE Payload
  BY <1>3, Constants DEF Room
<1> HIDE DEF n, full, rest
<1>5. n = Room(pkt) /\ rest \in Multiples
  <2> DEFINE p == Payload
             room == Room(pkt)
  <2>1. /\ p \in Nat /\ p > 1
        /\ n = IF room < size - at THEN room ELSE size - at
        /\ rest = size - at - n
    BY Constants DEF n, rest
  <2>2. CASE at = 0
    <3>1. room = p - 1
      BY <1>1, <1>2, <1>4, <2>2 DEF Begun, Awaits
    <3>2. PICK m \in Multiples : size = m + (p - 1)
      BY <1>1, <2>2 DEF Aligned
    <3>3. m \in Nat
      BY <3>2, MultiplesAre
    <3> HIDE DEF p, room
    <3>4. n = room /\ rest = m
      BY <2>1, <2>2, <3>1, <3>2, <3>3
    <3> QED
      BY <3>2, <3>4 DEF room
  <2>3. CASE at > 0
    <3>1. size - at \in Multiples /\ size - at > 0
      BY <1>1, <1>2, <2>3 DEF Aligned
    <3>2. size - at >= p /\ size - at - p \in Multiples
      BY <3>1, MultiplesAre
    <3>3. ~pkt.pusi
      <4> SUFFICES ASSUME pkt.pusi PROVE FALSE
        OBVIOUS
      <4>1. size - at < Payload - 1
        BY <1>1, <1>2, <2>3 DEF GoesOn
      <4> QED
        BY <1>2, <3>2, <4>1, Constants
    <3>4. room = p
      BY <1>4, <3>3
    <3> HIDE DEF p, room
    <3>5. n = room /\ rest = size - at - p
      BY <1>2, <2>1, <3>2, <3>4
    <3> QED
      BY <3>2, <3>5 DEF room
  <2> QED
    BY <1>2, <2>2, <2>3
<1>6. n \in Nat \ {0} /\ rest \in Nat /\ rest # Payload - 1
  BY <1>4, <1>5, Constants, MultiplesAre
<1>7. /\ full \in Packets /\ full.pusi = pkt.pusi
      /\ Len(full.bytes) = n /\ StartsAt(full) \subseteq {1}
  <2>1. cur \in DOMAIN sizes /\ n \in Nat /\ at \in Nat /\ pkt \in Packets
    BY <1>2, <1>6
  <2>2. full = Filled(pkt, cur, at, n)
    BY DEF full, Filled
  <2>3. /\ full \in Packets /\ full.pusi = pkt.pusi
        /\ Len(full.bytes) = Len(pkt.bytes) + n
        /\ StartsAt(full) = StartsAt(pkt) \cup IF at = 0 /\ n > 0 THEN {Len(pkt.bytes) + 1} ELSE {}
    BY <1>2, <2>1, <2>2, AddedBytes
  <2> QED
    BY <1>3, <1>6, <2>3
<1>8. Room(full) = 0
  BY <1>4, <1>5, <1>7, Constants DEF Room
<1>9. /\ ts' = Append(ts, full) /\ pkt' = HeaderAfterFull(rest) /\ size' = size
      /\ ~needPad'
  <2>1. OneByteMore(rest) = 0
    BY <1>6 DEF OneByteMore
  <2> QED
    BY <1>1, <1>2, <1>8, <2>1 DEF Aligned
<1>10. pkt'.bytes = <<>>
  BY <1>2, <1>6, <1>9, HeaderTypes DEF HeaderAfterFull
<1>11. at' > 0 /\ size' - at' \in Multiples
  <2>1. at' = at + n /\ size' - at' = rest
    BY <1>1, <1>2, <1>6, <1>9 DEF rest
  <2> QED
    BY <1>2, <1>5, <1>6, <2>1
<1>12. last' = <<full>>
  BY <1>2, <1>7, <1>9 DEF Types
<1>13. (\A k \in DOMAIN last : StartsAt(last[k]) \subseteq {1})'
  BY <1>7, <1>12 DEF StartsAt
<1>14. ~(at' = 0)
  BY <1>1, <1>2, <1>6
<1>15. size' - at' \in Multiples'
  BY <1>11 DEF Multiples
<1> QED
  BY <1>9, <1>10, <1>13, <1>14, <1>15 DEF Aligned

LEMMA WriteKeepsAligned ==
  ASSUME SInv, stuffing, Aligned, Write
  PROVE  Aligned'
<1>1. SenderNext /\ last' = IF Len(ts') > Len(ts) THEN <<ts'[Len(ts')]>> ELSE last
  BY DEF Write
<1>2. Types /\ pkt \in Packets /\ pkt.bytes = <<>> /\ StartsAt(pkt) = {} /\ Len(pkt.bytes) = 0
  <2>1. Types /\ pkt \in Packets /\ pkt.bytes = <<>>
    BY DEF SInv, Types, Aligned
  <2> QED
    BY <2>1, NewHeader
<1>3. CASE TakeSection
  <2>1. /\ at = size /\ ~needPad /\ Available(cur + 1)
        /\ size' = StuffedSize(cur + 1) /\ at' = 0
        /\ needPad' = (Room(pkt) > StuffedSize(cur + 1))
        /\ UNCHANGED <<sizes, pkt, ts>>
    BY <1>3 DEF TakeSection
  <2>2. last' = last
    BY <1>1, <1>2, <2>1 DEF Types
  <2>3. cur + 1 \in DOMAIN sizes
    BY <2>1 DEF Available
  <2>4. PICK m \in Multiples : StuffedSize(cur + 1) = m + (Payload - 1)
    BY <1>2, <2>3, StuffedSizes
  <2>5. Available(1)
    <3>1. CASE cur = 0
      BY <2>1, <3>1
    <3>2. CASE cur # 0
      BY <3>2 DEF SInv
    <3> QED
      BY <3>1, <3>2
  <2>6. pkt.pusi
    BY <2>1, <2>5 DEF SInv, Over, Awaits
  <2>7. Room(pkt) = Payload - 1 /\ m \in Nat
    BY <1>2, <2>4, <2>6, Constants, MultiplesAre DEF Room
  <2>8. ~needPad'
    <3> DEFINE p == Payload
               room == Room(pkt)
               z == StuffedSize(cur + 1)
    <3>1. p \in Nat /\ room = p - 1 /\ z = m + (p - 1) /\ m \in Nat /\ (needPad' <=> room > z)
      BY <2>1, <2>4, <2>7, Constants
    <3> HIDE DEF p, room, z
    <3>2. ~(room > z)
      BY <3>1
    <3> QED
      BY <3>1, <3>2
  <2>9. (\A k \in DOMAIN last : StartsAt(last[k]) \subseteq {1})'
    BY <2>2 DEF Aligned, StartsAt
  <2>10. pkt'.bytes = <<>> /\ ~(at' > 0)
    BY <1>2, <2>1
  <2>11. \E k \in Multiples : size' = k + (Payload - 1)
    BY <2>1, <2>4
  <2> QED
    BY <2>8, <2>9, <2>10, <2>11 DEF Aligned, Multiples
<1>4. CASE PackBytes
  BY <1>1, <1>4, PackKeepsAligned
<1>5. CASE Pad
  BY <1>5 DEF Pad, Aligned
<1>6. CASE Finish
  <2> DEFINE q == PaddedPacket
  <2>1. /\ ts' = IF padded THEN ts ELSE Append(ts, q)
        /\ UNCHANGED <<at, size, needPad, pkt>>
    BY <1>6 DEF Finish
  <2>2. StartsAt(q) = {} /\ q \in Packets
    BY <1>2, PaddingStartsNothing
  <2>3. last' = last \/ last' = <<q>>
    <3> HIDE DEF q
    <3>1. CASE padded
      BY <1>1, <1>2, <2>1, <3>1 DEF Types
    <3>2. CASE ~padded
      <4>1. ts' = Append(ts, q)
        BY <2>1, <3>2
      <4>2. Len(ts') = Len(ts) + 1 /\ ts'[Len(ts')] = q /\ Len(ts) \in Nat
        BY <1>2, <2>2, <4>1 DEF Types
      <4> QED
        BY <1>1, <4>2
    <3> QED
      BY <3>1, <3>2
  <2>4. \A k \in DOMAIN last' : StartsAt(last'[k]) \subseteq {1}
    BY <2>2, <2>3 DEF Aligned
  <2>5. (\A k \in DOMAIN last : StartsAt(last[k]) \subseteq {1})'
    BY <2>4 DEF StartsAt
  <2> QED
    BY <2>1, <2>5 DEF Aligned, Multiples
<1> QED
  BY <1>1, <1>3, <1>4, <1>5, <1>6 DEF SenderNext

\* With -s a section starts at the beginning of a packet, after its pointer field, whatever
\* the sizes of the sections (the usage of sec2ts promises it).
THEOREM SectionsOnBoundaries == Spec => []SectionsStartOnBoundaries
<1>1. Init => AInv
  <2> SUFFICES ASSUME Init PROVE Aligned
    BY DEF AInv
  <2> QED
    BY DEF Init, SenderInit, Aligned, StartHeader
<1>2. SInv /\ AInv /\ [Next]_vars => AInv'
  <2> SUFFICES ASSUME SInv, AInv, [Next]_vars, stuffing' PROVE Aligned'
    BY DEF AInv
  <2>1. stuffing' = stuffing
    BY DEF Next, Write, SenderNext, TakeSection, PackBytes, Pad, Finish, Read, Lose, vars,
           senderVars
  <2>2. stuffing /\ Aligned
    BY <2>1 DEF AInv
  <2>3. CASE Write
    BY <2>2, <2>3, WriteKeepsAligned
  <2>4. CASE Read \/ Lose \/ UNCHANGED vars
    <3>1. UNCHANGED <<size, at, needPad, pkt, last>>
      BY <2>4 DEF Read, Lose, vars, senderVars
    <3> QED
      BY <2>2, <3>1 DEF Aligned, StartsAt, Multiples
  <2> QED
    BY <2>3, <2>4 DEF Next
<1>3. AInv => SectionsStartOnBoundaries
  BY DEF AInv, Aligned, SectionsStartOnBoundaries
<1> QED
  BY <1>1, <1>2, <1>3, Inductive, PTL DEF Spec

-----------------------------------------------------------------------------
(* The pipe: what ts2sec is to expect next.                                  *)

\* A place in the stream of bytes: the next byte of a section.  At the beginning of a
\* section stuffing may come before it.
Places   == [sec : Nat \ {0}, off : Nat]
First(i) == [sec |-> i, off |-> 0]

After(a) ==
  IF a.off + 1 < sizes[a.sec] THEN [sec |-> a.sec, off |-> a.off + 1] ELSE First(a.sec + 1)

AllAvailable(i) == \A j \in 1..i : Available(j)

\* The byte x leads from place a to place b.
Step(a, x, b) ==
  \/ x = Stuff /\ a.off = 0 /\ b = a
  \/ x = a /\ AllAvailable(a.sec) /\ b = After(a)

ByteSteps == {t \in Places \X Bytes \X Places : Step(t[1], t[2], t[3])}

\* A sequence leads from place a to place b, by steps of T.
Path(T, a, s, b) ==
  \E g \in [0..Len(s) -> Places] :
    /\ g[0] = a /\ g[Len(s)] = b
    /\ \A j \in 1..Len(s) : <<g[j - 1], s[j], g[j]>> \in T

\* A packet leads from a place to another by its bytes.
PacketSteps ==
  {t \in Places \X Packets \X Places : Path(ByteSteps, t[1], t[2].bytes, t[3])}

LEMMA EmptyPath ==
  ASSUME NEW T, NEW a \in Places
  PROVE  /\ Path(T, a, <<>>, a)
         /\ \A b : Path(T, a, <<>>, b) => a = b
<1>1. Len(<<>>) = 0
  OBVIOUS
<1>2. Path(T, a, <<>>, a)
  <2> DEFINE g == [j \in 0..0 |-> a]
  <2>1. g \in [0..0 -> Places] /\ g[0] = a
    OBVIOUS
  <2> HIDE DEF g
  <2> QED
    BY <1>1, <2>1 DEF Path
<1>3. ASSUME NEW b, Path(T, a, <<>>, b) PROVE a = b
  BY <1>1, <1>3 DEF Path
<1> QED
  BY <1>2, <1>3

LEMMA PathEnds ==
  ASSUME NEW T, NEW X, NEW s \in Seq(X), NEW a, NEW b, Path(T, a, s, b)
  PROVE  a \in Places /\ b \in Places
<1>1. Len(s) \in Nat
  OBVIOUS
<1> QED
  BY <1>1 DEF Path

LEMMA JoinedPaths ==
  ASSUME NEW T, NEW X, NEW s \in Seq(X), NEW t \in Seq(X), NEW a, NEW b, NEW c,
         Path(T, a, s, b), Path(T, b, t, c)
  PROVE  Path(T, a, s \o t, c)
<1> DEFINE m == Len(s)
           n == Len(t)
           st == s \o t
<1>1. /\ m \in Nat /\ n \in Nat /\ Len(st) = m + n
      /\ \A k \in 1..m : st[k] = s[k]
      /\ \A k \in 1..n : st[m + k] = t[k]
  BY Concatenation
<1>2. PICK g \in [0..m -> Places] :
        /\ g[0] = a /\ g[m] = b
        /\ \A j \in 1..m : <<g[j - 1], s[j], g[j]>> \in T
  BY DEF Path
<1>3. PICK h \in [0..n -> Places] :
        /\ h[0] = b /\ h[n] = c
        /\ \A j \in 1..n : <<h[j - 1], t[j], h[j]>> \in T
  BY DEF Path
<1> HIDE DEF m, n, st
<1> DEFINE f == [j \in 0..(m + n) |-> IF j <= m THEN g[j] ELSE h[j - m]]
<1>4. f \in [0..(m + n) -> Places]
  <2> SUFFICES ASSUME NEW j \in 0..(m + n) PROVE f[j] \in Places
    OBVIOUS
  <2>1. CASE j <= m
    <3>1. j \in 0..m /\ f[j] = g[j]
      BY <1>1, <2>1
    <3> QED
      BY <1>2, <3>1
  <2>2. CASE ~(j <= m)
    <3>1. j - m \in 0..n /\ f[j] = h[j - m]
      BY <1>1, <2>2
    <3> QED
      BY <1>3, <3>1
  <2> QED
    BY <2>1, <2>2
<1>5. f[0] = a /\ f[m + n] = c
  <2>1. f[0] = g[0]
    BY <1>1
  <2>2. CASE n = 0
    BY <1>1, <1>2, <1>3, <2>1, <2>2
  <2>3. CASE n > 0
    <3>1. f[m + n] = h[n]
      BY <1>1, <2>3
    <3> QED
      BY <1>2, <1>3, <2>1, <3>1
  <2> QED
    BY <1>1, <2>2, <2>3
<1>6. ASSUME NEW j \in 1..(m + n) PROVE <<f[j - 1], st[j], f[j]>> \in T
  <2>1. CASE j <= m
    <3>1. f[j - 1] = g[j - 1] /\ f[j] = g[j] /\ st[j] = s[j] /\ j \in 1..m
      BY <1>1, <2>1
    <3> HIDE DEF f
    <3> QED
      BY <1>2, <3>1
  <2>2. CASE j = m + 1
    <3>1. f[j - 1] = g[m] /\ f[j] = h[1] /\ st[j] = t[1] /\ 1 \in 1..n /\ 1 - 1 = 0
      BY <1>1, <2>2
    <3>2. <<h[0], t[1], h[1]>> \in T
      BY <1>3, <3>1
    <3> HIDE DEF f
    <3> QED
      BY <1>2, <1>3, <3>1, <3>2
  <2>3. CASE j > m + 1
    <3> DEFINE k == j - m
    <3>1. k \in 1..n /\ m + k = j
      BY <1>1, <2>3
    <3>2. f[j - 1] = h[k - 1] /\ f[j] = h[k] /\ st[j] = t[k]
      <4>1. j - 1 \in 0..(m + n) /\ ~(j - 1 <= m) /\ (j - 1) - m = k - 1 /\ ~(j <= m)
        BY <1>1, <2>3
      <4>2. st[j] = t[k]
        BY <1>1, <3>1
      <4> QED
        BY <4>1, <4>2
    <3> HIDE DEF f, k
    <3> QED
      BY <1>3, <3>1, <3>2
  <2> QED
    BY <1>1, <2>1, <2>2, <2>3
<1> HIDE DEF f
<1>7. Path(T, a, st, c)
  BY <1>1, <1>4, <1>5, <1>6 DEF Path
<1> QED
  BY <1>7 DEF st

LEMMA SplitPath ==
  ASSUME NEW T, NEW X, NEW s \in Seq(X), NEW a, NEW b, Path(T, a, s, b), NEW n \in 0..Len(s)
  PROVE  \E m \in Places : /\ Path(T, a, SubSeq(s, 1, n), m)
                           /\ Path(T, m, SubSeq(s, n + 1, Len(s)), b)
<1> DEFINE l == Len(s)
           u == SubSeq(s, 1, n)
           v == SubSeq(s, n + 1, l)
<1>1. PICK g \in [0..l -> Places] :
        /\ g[0] = a /\ g[l] = b
        /\ \A j \in 1..l : <<g[j - 1], s[j], g[j]>> \in T
  BY DEF Path
<1>2. l \in Nat /\ n \in Nat /\ n <= l
  OBVIOUS
<1>3. /\ Len(u) = n /\ \A k \in 1..n : u[k] = s[k]
      /\ Len(v) = l - n /\ \A k \in 1..(l - n) : v[k] = s[n + k]
  <2>1. Len(u) = n /\ \A k \in 1..n : u[k] = s[k]
    BY <1>2
  <2>2. Len(v) = l - n
    BY <1>2
  <2>3. ASSUME NEW k \in 1..(l - n) PROVE v[k] = s[n + k]
    BY <1>2, <2>2
  <2> QED
    BY <2>1, <2>2, <2>3
<1> HIDE DEF u, v, l
<1>4. Path(T, a, u, g[n])
  <2> DEFINE f == [j \in 0..n |-> g[j]]
  <2>1. f \in [0..n -> Places] /\ f[0] = a /\ f[n] = g[n]
    BY <1>1, <1>2
  <2>2. ASSUME NEW j \in 1..n PROVE <<f[j - 1], u[j], f[j]>> \in T
    <3>1. j - 1 \in 0..n /\ j \in 0..n /\ j \in 1..l
      BY <1>2
    <3>2. f[j - 1] = g[j - 1] /\ f[j] = g[j] /\ u[j] = s[j]
      BY <1>3, <3>1
    <3> HIDE DEF f
    <3> QED
      BY <1>1, <3>1, <3>2
  <2> HIDE DEF f
  <2> QED
    BY <1>3, <2>1, <2>2 DEF Path
<1>5. Path(T, g[n], v, b)
  <2> DEFINE f == [j \in 0..(l - n) |-> g[n + j]]
  <2>1. f \in [0..(l - n) -> Places] /\ f[0] = g[n] /\ f[l - n] = b
    BY <1>1, <1>2
  <2>2. ASSUME NEW j \in 1..(l - n) PROVE <<f[j - 1], v[j], f[j]>> \in T
    <3>1. n + j \in 1..l /\ (n + j) - 1 = n + (j - 1) /\ j - 1 \in 0..(l - n) /\ j \in 0..(l - n)
      BY <1>2
    <3>2. f[j - 1] = g[(n + j) - 1] /\ f[j] = g[n + j] /\ v[j] = s[n + j]
      BY <1>3, <3>1
    <3> HIDE DEF f
    <3> QED
      BY <1>1, <3>1, <3>2
  <2> HIDE DEF f
  <2> QED
    BY <1>3, <2>1, <2>2 DEF Path
<1>6. g[n] \in Places
  BY <1>1, <1>2
<1> QED
  BY <1>4, <1>5, <1>6 DEF u, v, l

\* A sequence of one.
LEMMA OneStep ==
  ASSUME NEW T, NEW X, NEW x \in X, NEW a, NEW b
  PROVE  /\ a \in Places /\ b \in Places /\ <<a, x, b>> \in T => Path(T, a, <<x>>, b)
         /\ Path(T, a, <<x>>, b) => a \in Places /\ b \in Places /\ <<a, x, b>> \in T
<1>1. Len(<<x>>) = 1 /\ <<x>>[1] = x
  OBVIOUS
<1>2. ASSUME a \in Places, b \in Places, <<a, x, b>> \in T PROVE Path(T, a, <<x>>, b)
  <2> DEFINE g == [j \in 0..1 |-> IF j = 0 THEN a ELSE b]
  <2>1. g \in [0..1 -> Places] /\ g[0] = a /\ g[1] = b
    BY <1>2
  <2> HIDE DEF g
  <2>2. \A j \in 1..1 : <<g[j - 1], <<x>>[j], g[j]>> \in T
    <3> SUFFICES ASSUME NEW j \in 1..1 PROVE <<g[j - 1], <<x>>[j], g[j]>> \in T
      OBVIOUS
    <3>1. j = 1 /\ j - 1 = 0
      OBVIOUS
    <3> QED
      BY <1>1, <1>2, <2>1, <3>1
  <2> QED
    BY <1>1, <2>1, <2>2 DEF Path
<1>3. ASSUME Path(T, a, <<x>>, b) PROVE a \in Places /\ b \in Places /\ <<a, x, b>> \in T
  <2>1. PICK g \in [0..1 -> Places] :
          /\ g[0] = a /\ g[1] = b
          /\ \A j \in 1..1 : <<g[j - 1], <<x>>[j], g[j]>> \in T
    BY <1>1, <1>3 DEF Path
  <2>2. 1 \in 1..1 /\ 1 - 1 = 0
    OBVIOUS
  <2>3. <<g[0], <<x>>[1], g[1]>> \in T
    BY <2>1, <2>2
  <2> QED
    BY <1>1, <2>1, <2>3
<1> QED
  BY <1>2, <1>3

LEMMA LongerPath ==
  ASSUME NEW T, NEW X, NEW s \in Seq(X), NEW x \in X, NEW a, NEW b, NEW c \in Places,
         Path(T, a, s, b), <<b, x, c>> \in T
  PROVE  Path(T, a, Append(s, x), c)
<1>1. b \in Places
  BY PathEnds
<1>2. Path(T, b, <<x>>, c)
  BY <1>1, OneStep
<1>3. <<x>> \in Seq(X) /\ Append(s, x) = s \o <<x>>
  OBVIOUS
<1>4. Path(T, a, s \o <<x>>, c)
  BY <1>2, <1>3, JoinedPaths
<1> QED
  BY <1>3, <1>4

LEMMA FirstOfPath ==
  ASSUME NEW T, NEW X, NEW s \in Seq(X), s # <<>>, NEW a, NEW b, Path(T, a, s, b)
  PROVE  \E m \in Places : <<a, Head(s), m>> \in T /\ Path(T, m, Tail(s), b)
<1>1. 1 \in 0..Len(s)
  OBVIOUS
<1>2. PICK m \in Places : Path(T, a, SubSeq(s, 1, 1), m) /\ Path(T, m, SubSeq(s, 1 + 1, Len(s)), b)
  BY <1>1, SplitPath
<1>3. SubSeq(s, 1, 1) = <<Head(s)>> /\ SubSeq(s, 1 + 1, Len(s)) = Tail(s) /\ Head(s) \in X
  <2>1. SubSeq(s, 2, Len(s)) = Tail(s)
    BY TailIsSubSeq
  <2>2. /\ SubSeq(s, 1, 1) \in Seq(X) /\ Len(SubSeq(s, 1, 1)) = 1
        /\ SubSeq(s, 1, 1)[1] = Head(s) /\ Head(s) \in X
    OBVIOUS
  <2>3. SubSeq(s, 1, 1) = <<Head(s)>>
    <3> DEFINE u == SubSeq(s, 1, 1)
               h == Head(s)
    <3>1. /\ u \in Seq(X) /\ <<h>> \in Seq(X) /\ Len(u) = Len(<<h>>) /\ Len(u) = 1
          /\ u[1] = <<h>>[1]
      BY <2>2
    <3> HIDE DEF u, h
    <3>2. \A i \in 1..Len(u) : u[i] = <<h>>[i]
      BY <3>1
    <3>3. u = <<h>>
      BY <3>1, <3>2, SeqEqual
    <3> QED
      BY <3>3 DEF u, h
  <2> QED
    BY <2>1, <2>2, <2>3
<1>4. <<a, Head(s), m>> \in T
  BY <1>2, <1>3, OneStep
<1> QED
  BY <1>2, <1>3, <1>4

-----------------------------------------------------------------------------
(* What sec2ts writes leads on.                                              *)

\* The place after k bytes of section cur and its stuffing.
PlaceAt(k) == IF k < sizes[cur] THEN [sec |-> cur, off |-> k] ELSE First(cur + 1)

\* Where sec2ts is.
Place == IF cur = 0 THEN First(1) ELSE PlaceAt(at)

Packing ==
  /\ \A i \in DOMAIN sizes : sizes[i] > 2
  /\ AllAvailable(cur)
  /\ cur # 0 => size >= sizes[cur]
  /\ done => at = size /\ ~needPad

LEMMA FirstIsPlace ==
  ASSUME NEW i \in Nat \ {0}
  PROVE  First(i) \in Places /\ First(i).sec = i /\ First(i).off = 0
BY DEF First, Places

LEMMA ConstantSteps ==
  ASSUME sizes' = sizes
  PROVE  ByteSteps' = ByteSteps /\ PacketSteps' = PacketSteps
<1>1. ByteSteps' = ByteSteps
  BY DEF ByteSteps, Step, After, AllAvailable, Available
<1> QED
  BY <1>1 DEF PacketSteps

\* The bytes of a section and of its stuffing.
LEMMA SectionLeads ==
  ASSUME Types, Packing, cur \in DOMAIN sizes, NEW from \in Nat, NEW n \in Nat
  PROVE  /\ PlaceAt(from) \in Places
         /\ Path(ByteSteps, PlaceAt(from), [j \in 1..n |-> Byte(cur, from + j - 1)],
                 PlaceAt(from + n))
<1> DEFINE f == [j \in 1..n |-> Byte(cur, from + j - 1)]
           g == [j \in 0..n |-> PlaceAt(from + j)]
<1>1. cur \in Nat \ {0} /\ sizes[cur] \in Nat
  BY DEF Types
<1>2. \A k \in Nat : PlaceAt(k) \in Places
  BY <1>1 DEF PlaceAt, Places, First
<1>3. ASSUME NEW k \in Nat
      PROVE  <<PlaceAt(k), Byte(cur, k), PlaceAt(k + 1)>> \in ByteSteps
  <2>1. PlaceAt(k) \in Places /\ PlaceAt(k + 1) \in Places
    BY <1>2
  <2>2. Byte(cur, k) \in Bytes
    BY <1>1 DEF Byte, Bytes, Stuff
  <2>3. CASE k < sizes[cur]
    <3>1. PlaceAt(k) = [sec |-> cur, off |-> k] /\ Byte(cur, k) = [sec |-> cur, off |-> k]
      BY <2>3 DEF PlaceAt, Byte
    <3>2. After([sec |-> cur, off |-> k]) = PlaceAt(k + 1)
      BY DEF After, PlaceAt
    <3>3. AllAvailable(cur)
      BY DEF Packing
    <3>4. Step(PlaceAt(k), Byte(cur, k), PlaceAt(k + 1))
      BY <3>1, <3>2, <3>3 DEF Step
    <3> QED
      BY <2>1, <2>2, <3>4 DEF ByteSteps
  <2>4. CASE ~(k < sizes[cur])
    <3>1. PlaceAt(k) = First(cur + 1) /\ PlaceAt(k + 1) = First(cur + 1) /\ Byte(cur, k) = Stuff
      BY <1>1, <2>4 DEF PlaceAt, Byte
    <3>2. Step(PlaceAt(k), Byte(cur, k), PlaceAt(k + 1))
      BY <3>1 DEF Step, First
    <3> QED
      BY <2>1, <2>2, <3>2 DEF ByteSteps
  <2> QED
    BY <2>3, <2>4
<1>4. g \in [0..n -> Places] /\ g[0] = PlaceAt(from) /\ g[n] = PlaceAt(from + n)
  BY <1>2
<1>5. ASSUME NEW j \in 1..n PROVE <<g[j - 1], f[j], g[j]>> \in ByteSteps
  <2> DEFINE k == from + j - 1
  <2>1. k \in Nat /\ from + j = k + 1 /\ from + (j - 1) = k /\ j - 1 \in 0..n /\ j \in 0..n
    OBVIOUS
  <2>2. g[j - 1] = PlaceAt(k) /\ g[j] = PlaceAt(k + 1) /\ f[j] = Byte(cur, k)
    BY <2>1
  <2> HIDE DEF f, g, k
  <2> QED
    BY <1>3, <2>1, <2>2
<1>6. Len(f) = n
  <2>1. f \in [1..n -> Bytes]
    <3> SUFFICES ASSUME NEW j \in 1..n PROVE f[j] \in Bytes
      OBVIOUS
    <3>1. from + j - 1 \in Nat /\ f[j] = Byte(cur, from + j - 1)
      OBVIOUS
    <3> QED
      BY <1>1, <3>1 DEF Byte, Bytes, Stuff
  <2> QED
    BY <2>1
<1> HIDE DEF f, g
<1>7. Path(ByteSteps, PlaceAt(from), f, PlaceAt(from + n))
  BY <1>4, <1>5, <1>6 DEF Path
<1> QED
  BY <1>2, <1>7 DEF f

\* Stuffing stays at the beginning of a section.
LEMMA StuffingLeads ==
  ASSUME NEW a \in Places, a.off = 0, NEW n \in Int
  PROVE  /\ [j \in 1..n |-> Stuff] \in Seq(Bytes)
         /\ Path(ByteSteps, a, [j \in 1..n |-> Stuff], a)
<1> DEFINE r == IF n > 0 THEN n ELSE 0
           f == [j \in 1..r |-> Stuff]
           g == [j \in 0..r |-> a]
<1>1. r \in Nat /\ 1..n = 1..r
  OBVIOUS
<1>2. [j \in 1..n |-> Stuff] = f
  BY <1>1
<1>3. <<a, Stuff, a>> \in ByteSteps
  BY DEF ByteSteps, Step, Stuff, Bytes
<1>4. Stuff \in Bytes
  BY DEF Stuff, Bytes
<1> HIDE DEF r
<1>5. f \in Seq(Bytes) /\ Len(f) = r /\ \A j \in 1..r : f[j] = Stuff
  <2>1. f \in [1..r -> Bytes]
    BY <1>4
  <2> QED
    BY <1>1, <2>1
<1>6. g \in [0..r -> Places] /\ g[0] = a /\ g[r] = a /\ \A j \in 1..r : g[j - 1] = a /\ g[j] = a
  <2>1. \A j \in 1..r : j - 1 \in 0..r /\ j \in 0..r
    BY <1>1
  <2> QED
    BY <1>1, <2>1
<1> HIDE DEF f, g
<1>7. Path(ByteSteps, a, f, a)
  <2>1. ASSUME NEW j \in 1..r PROVE <<g[j - 1], f[j], g[j]>> \in ByteSteps
    BY <1>3, <1>5, <1>6
  <2> QED
    BY <1>5, <1>6, <2>1 DEF Path
<1> QED
  BY <1>2, <1>5, <1>7

\* A packet that is finished, and the next one begun, or not.
LEMMA PacketLeads ==
  ASSUME Types, NEW p \in Packets, NEW a, NEW b, NEW c, Path(PacketSteps, a, ts, b),
         Path(ByteSteps, b, p.bytes, c)
  PROVE  Path(PacketSteps, a, Append(ts, p), c)
<1>1. p.bytes \in Seq(Bytes) /\ ts \in Seq(Packets)
  BY DEF Types, Packets
<1>2. b \in Places /\ c \in Places
  BY <1>1, PathEnds
<1>3. <<b, p, c>> \in PacketSteps
  BY <1>2 DEF PacketSteps
<1> QED
  BY <1>1, <1>2, <1>3, LongerPath

\* At the end of a section stuffing may follow.
LEMMA PaddedLeads ==
  ASSUME SInv, Packing, at = size, NEW b, Path(ByteSteps, b, pkt.bytes, Place)
  PROVE  PaddedPacket \in Packets /\ Path(ByteSteps, b, PaddedPacket.bytes, Place)
<1> DEFINE f == [j \in 1..Room(pkt) |-> Stuff]
<1>1. Types /\ pkt \in Packets /\ pkt.bytes \in Seq(Bytes) /\ cur \in Nat
  BY DEF SInv, Types, Packets
<1>2. Place \in Places /\ Place.off = 0
  <2>1. CASE cur = 0
    BY <2>1, FirstIsPlace DEF Place
  <2>2. CASE cur # 0
    <3>1. ~(at < sizes[cur])
      BY <1>1, <2>2 DEF SInv, Packing, Types
    <3>2. Place = First(cur + 1) /\ cur + 1 \in Nat \ {0}
      BY <1>1, <2>2, <3>1 DEF Place, PlaceAt
    <3> QED
      BY <3>2, FirstIsPlace
  <2> QED
    BY <2>1, <2>2
<1>3. Room(pkt) \in Int
  BY <1>1, Constants DEF Room
<1>4. f \in Seq(Bytes) /\ Path(ByteSteps, Place, f, Place)
  BY <1>2, <1>3, StuffingLeads
<1>5. PaddedPacket \in Packets
  BY <1>1, PaddingStartsNothing
<1>6. PaddedPacket.bytes = pkt.bytes \o f
  BY <1>1 DEF PaddedPacket, Packets
<1> HIDE DEF f
<1> QED
  BY <1>1, <1>4, <1>5, <1>6, JoinedPaths

LEMMA WriteKeepsPacking ==
  ASSUME SInv, Packing, SenderNext
  PROVE  Packing'
<1>1. Types /\ at \in 0..size /\ ~done
  <2>1. ~done
    BY DEF SenderNext, TakeSection, PackBytes, Pad, Finish, Packing, SInv, Types
  <2> QED
    BY <2>1 DEF SInv, Types
<1>2. CASE TakeSection
  <2>1. /\ at = size /\ Available(cur + 1)
        /\ cur' = cur + 1 /\ size' = StuffedSize(cur + 1) /\ at' = 0
        /\ UNCHANGED <<sizes, done>>
    BY <1>2 DEF TakeSection
  <2>2. cur + 1 \in DOMAIN sizes /\ sizes[cur + 1] \in Nat \ {0}
    BY <1>1, <2>1 DEF Available, Types
  <2>3. StuffedSize(cur + 1) >= sizes[cur + 1]
    <3> DEFINE s == sizes[cur + 1]
               r == s % Payload
    <3> HIDE DEF s
    <3>1. r \in 0..(Payload - 1)
      <4>1. s \in Nat /\ Payload \in Nat \ {0}
        BY <2>2, Constants DEF s
      <4> QED
        BY <4>1, Quotient
    <3> HIDE DEF r
    <3>3. s \in Nat
      BY <2>2 DEF s
    <3>2. r < Payload - 1 => s + (Payload - 1 - r) >= s
      BY <3>1, <3>3, Constants
    <3> QED
      BY <3>2, <3>3 DEF StuffedSize, r, s
  <2>4. AllAvailable(cur + 1)
    BY <1>1, <2>1 DEF Packing, AllAvailable, Types
  <2> QED
    BY <1>1, <2>1, <2>3, <2>4 DEF Packing, AllAvailable, Available
<1>3. CASE PackBytes
  <2>1. \E rest \in Int : size' = size \/ size' = size + OneByteMore(rest)
    <3>1. Room(pkt) \in Int
      BY <1>1, Constants DEF Types, Packets, Room
    <3>2. size - at - (IF Room(pkt) < size - at THEN Room(pkt) ELSE size - at) \in Int
      BY <1>1, <3>1 DEF Types
    <3> QED
      BY <1>3, <3>2 DEF PackBytes
  <2>2. at < size /\ UNCHANGED <<sizes, cur, done>>
    BY <1>3 DEF PackBytes
  <2>3. cur # 0 /\ cur \in DOMAIN sizes /\ sizes[cur] \in Nat /\ size \in Nat
    BY <1>1, <2>2 DEF SInv, Types
  <2>4. size' >= size
    BY <2>1, <2>3 DEF OneByteMore
  <2>5. size' \in Nat /\ size >= sizes[cur]
    BY <2>1, <2>3 DEF OneByteMore, Packing
  <2>6. size' >= sizes[cur]
    BY <2>3, <2>4, <2>5
  <2> QED
    BY <1>1, <2>2, <2>6 DEF Packing, AllAvailable, Available
<1>4. CASE Pad
  <2>1. UNCHANGED <<sizes, cur, size, done>>
    BY <1>4 DEF Pad
  <2> QED
    BY <1>1, <2>1 DEF Packing, AllAvailable, Available
<1>5. CASE Finish
  <2>1. at = size /\ ~needPad /\ UNCHANGED <<sizes, cur, size, at, needPad>>
    BY <1>5 DEF Finish
  <2> QED
    BY <2>1 DEF Packing, AllAvailable, Available
<1> QED
  BY <1>2, <1>3, <1>4, <1>5 DEF SenderNext

LEMMA WriteLeads ==
  ASSUME SInv, Packing, SenderNext, NEW a, NEW b, Path(PacketSteps, a, ts, b),
         ~done => Path(ByteSteps, b, pkt.bytes, Place)
  PROVE  \E c : /\ Path(PacketSteps, a, ts', c)
                /\ ~done' => Path(ByteSteps, c, pkt'.bytes, Place')
<1>1. Types /\ pkt \in Packets /\ pkt.bytes \in Seq(Bytes) /\ cur \in Nat /\ at \in 0..size
  BY DEF SInv, Types, Packets
<1>2. ~done
  BY DEF SenderNext, TakeSection, PackBytes, Pad, Finish, Packing, SInv, Types
<1>3. Path(ByteSteps, b, pkt.bytes, Place)
  BY <1>2
<1>4. b \in Places /\ Place \in Places
  BY <1>1, <1>3, PathEnds
<1>5. CASE TakeSection
  <2>1. /\ at = size /\ Available(cur + 1)
        /\ cur' = cur + 1 /\ size' = StuffedSize(cur + 1) /\ at' = 0
        /\ UNCHANGED <<sizes, pkt, ts, done>>
    BY <1>5 DEF TakeSection
  <2>2. cur + 1 \in DOMAIN sizes /\ sizes[cur + 1] \in Nat \ {0}
    BY <1>1, <2>1 DEF Available, Types
  <2>6. Place' = First(cur + 1)
    <3>1. 0 < sizes[cur + 1] /\ ~(cur + 1 = 0)
      BY <1>1, <2>2
    <3> QED
      BY <2>1, <3>1 DEF Place, PlaceAt, First
  <2>7. Place = First(cur + 1)
    <3>1. CASE cur = 0
      BY <3>1 DEF Place
    <3>2. CASE cur # 0
      <4>1. ~(at < sizes[cur])
        BY <1>1, <2>1, <3>2 DEF SInv, Packing, Types
      <4> QED
        BY <3>2, <4>1 DEF Place, PlaceAt
    <3> QED
      BY <3>1, <3>2
  <2> QED
    BY <1>3, <2>1, <2>6, <2>7
<1>6. CASE PackBytes
  <2> DEFINE n == IF Room(pkt) < size - at THEN Room(pkt) ELSE size - at
             rest == size - at - n
             full == [pkt EXCEPT !.bytes = pkt.bytes \o [j \in 1..n |-> Byte(cur, at + j - 1)]]
             f == [j \in 1..n |-> Byte(cur, at + j - 1)]
  <2>1. /\ at < size /\ at' = at + n
        /\ IF Room(full) = 0
           THEN ts' = Append(ts, full) /\ pkt' = HeaderAfterFull(rest)
           ELSE pkt' = full /\ UNCHANGED ts
        /\ size' = size \/ size' = size + OneByteMore(rest)
        /\ UNCHANGED <<sizes, cur, needPad, done>>
    BY <1>6 DEF PackBytes
  <2>2. Room(pkt) \in Nat /\ at \in Nat /\ size \in Nat
    <3>1. Room(pkt) \in Int
      BY <1>1, Constants DEF Room
    <3>2. Room(pkt) > 0
      BY DEF SInv
    <3>3. at \in Nat /\ size \in Nat
      BY <1>1 DEF Types
    <3> QED
      BY <3>1, <3>2, <3>3
  <2>3. n \in Nat /\ rest \in Nat
    BY <2>1, <2>2
  <2>4. cur # 0 /\ cur \in DOMAIN sizes
    BY <2>1, <2>2 DEF SInv
  <2> HIDE DEF n, rest, full
  <2>5. /\ Path(ByteSteps, PlaceAt(at), f, PlaceAt(at + n)) /\ PlaceAt(at + n) \in Places
    <3>1. Path(ByteSteps, PlaceAt(at), f, PlaceAt(at + n))
      BY <1>1, <2>2, <2>3, <2>4, SectionLeads
    <3>2. at + n \in Nat
      BY <2>2, <2>3
    <3>3. PlaceAt(at + n) \in Places
      BY <1>1, <2>4, <3>2, SectionLeads
    <3> QED
      BY <3>1, <3>3
  <2>6. f \in Seq(Bytes)
    <3>1. \A j \in 1..n : Byte(cur, at + j - 1) \in Bytes
      BY <1>1, <2>2, <2>3 DEF Byte, Bytes, Stuff
    <3> QED
      BY <2>3, <3>1
  <2>7. full \in Packets /\ full.bytes = pkt.bytes \o f
    <3>1. pkt.bytes \o f \in Seq(Bytes)
      BY <1>1, <2>6, Concatenation
    <3> QED
      BY <1>1, <3>1 DEF full, Packets
  <2>8. Place = PlaceAt(at) /\ Place' = PlaceAt(at + n)
    BY <2>1, <2>4 DEF Place, PlaceAt, First
  <2> HIDE DEF f
  <2>9. Path(ByteSteps, b, full.bytes, Place')
    BY <1>1, <1>3, <2>5, <2>6, <2>7, <2>8, JoinedPaths
  <2>11. CASE Room(full) = 0
    <3>1. Path(PacketSteps, a, ts', Place')
      BY <1>1, <2>1, <2>7, <2>9, <2>11, PacketLeads
    <3>2. pkt'.bytes = <<>>
      BY <1>1, <2>1, <2>3, <2>11, HeaderTypes DEF HeaderAfterFull
    <3>3. Path(ByteSteps, Place', pkt'.bytes, Place')
      BY <2>5, <2>8, <3>2, EmptyPath
    <3> QED
      BY <3>1, <3>3
  <2>12. CASE Room(full) # 0
    <3>1. ts' = ts /\ pkt' = full
      BY <2>1, <2>12
    <3> QED
      BY <2>9, <3>1
  <2> QED
    BY <2>11, <2>12
<1>7. CASE Pad
  <2>1. /\ at = size /\ ts' = Append(ts, PaddedPacket) /\ needPad' = FALSE
        /\ pkt' = IF Available(cur + 1) THEN StartHeader(NextCc, 0) ELSE PlainHeader(NextCc)
        /\ UNCHANGED <<sizes, cur, size, at, done>>
    BY <1>7 DEF Pad
  <2>2. PaddedPacket \in Packets /\ Path(ByteSteps, b, PaddedPacket.bytes, Place)
    BY <1>3, <2>1, PaddedLeads
  <2>3. Path(PacketSteps, a, ts', Place)
    BY <1>1, <2>1, <2>2, PacketLeads
  <2>4. pkt'.bytes = <<>>
    BY <1>1, <2>1, HeaderTypes
  <2>5. Place' = Place
    BY <2>1 DEF Place, PlaceAt
  <2>6. Path(ByteSteps, Place, pkt'.bytes, Place')
    BY <1>4, <2>4, <2>5, EmptyPath
  <2> QED
    BY <2>3, <2>6
<1>8. CASE Finish
  <2>1. /\ at = size /\ ~needPad /\ done' = TRUE
        /\ ts' = IF padded THEN ts ELSE Append(ts, PaddedPacket)
        /\ UNCHANGED <<sizes, cur, size, at, needPad>>
    BY <1>8 DEF Finish
  <2>2. PaddedPacket \in Packets /\ Path(ByteSteps, b, PaddedPacket.bytes, Place)
    BY <1>3, <2>1, PaddedLeads
  <2>3. Path(PacketSteps, a, Append(ts, PaddedPacket), Place)
    BY <1>1, <2>2, PacketLeads
  <2>4. \E c : Path(PacketSteps, a, ts', c)
    BY <2>1, <2>3
  <2> QED
    BY <2>1, <2>4
<1> QED
  BY <1>5, <1>6, <1>7, <1>8 DEF SenderNext

-----------------------------------------------------------------------------
(* What ts2sec takes from it.                                                *)

\* The sections sent, one by one.
LEMMA SentFacts ==
  ASSUME Types
  PROVE  /\ SentSections \in Seq(Seq(Bytes))
         /\ \A i \in Nat \ {0} :
              AllAvailable(i) =>
                /\ i <= Len(SentSections) /\ i \in DOMAIN sizes
                /\ SentSections[i] = [k \in 1..sizes[i] |-> [sec |-> i, off |-> k - 1]]
<1>1. PICK n \in 0..Len(sizes) :
        /\ \A i \in 1..n : Available(i)
        /\ ~Available(n + 1)
        /\ SentSections = [i \in 1..n |-> [k \in 1..sizes[i] |-> [sec |-> i, off |-> k - 1]]]
  BY SectionsToSend DEF Types
<1>2. n \in Nat
  BY DEF Types
<1>3. SentSections \in [1..n -> Seq(Bytes)]
  <2>1. ASSUME NEW i \in 1..n
        PROVE  [k \in 1..sizes[i] |-> [sec |-> i, off |-> k - 1]] \in Seq(Bytes)
    <3>1. i \in Nat /\ sizes[i] \in Nat
      BY <1>1, <1>2 DEF Available, Types
    <3>2. [k \in 1..sizes[i] |-> [sec |-> i, off |-> k - 1]] \in [1..sizes[i] -> Bytes]
      BY <3>1 DEF Bytes
    <3>3. \A m \in Nat : \A f \in [1..m -> Bytes] : f \in Seq(Bytes)
      OBVIOUS
    <3> QED
      BY <3>1, <3>2, <3>3
  <2> QED
    BY <1>1, <2>1
<1>4. SentSections \in Seq(Seq(Bytes)) /\ Len(SentSections) = n
  BY <1>2, <1>3
<1>5. ASSUME NEW i \in Nat \ {0}, AllAvailable(i)
      PROVE  /\ i <= n /\ i \in DOMAIN sizes
             /\ SentSections[i] = [k \in 1..sizes[i] |-> [sec |-> i, off |-> k - 1]]
  <2>1. i <= n
    <3> SUFFICES ASSUME ~(i <= n) PROVE FALSE
      OBVIOUS
    <3>1. n + 1 \in 1..i
      BY <1>2
    <3> QED
      BY <1>1, <1>5, <3>1 DEF AllAvailable
  <2>2. i \in 1..n
    BY <1>2, <2>1
  <2> QED
    BY <1>1, <2>1, <2>2 DEF Available
<1> QED
  BY <1>4, <1>5

\* A byte that is not stuffing begins the section.
LEMMA FirstByte ==
  ASSUME NEW i \in Nat \ {0}, NEW x, NEW b, <<First(i), x, b>> \in ByteSteps
  PROVE  /\ x.sec = 0 => x = Stuff /\ b = First(i)
         /\ x.sec # 0 => x = First(i) /\ AllAvailable(i)
<1>1. Step(First(i), x, b)
  BY DEF ByteSteps
<1> QED
  BY <1>1, FirstIsPlace DEF Step, Stuff

\* Bytes that were gathered, and begin with one of a section, are that section, as far as
\* they go.
LEMMA Gathered ==
  ASSUME Types, NEW i \in Nat \ {0}, NEW s \in Seq(Bytes), s # <<>>, s[1].sec # 0, NEW b,
         Path(ByteSteps, First(i), s, b), Len(s) <= sizes[i]
  PROVE  /\ AllAvailable(i) /\ i \in DOMAIN sizes
         /\ \A j \in 1..Len(s) : s[j] = [sec |-> i, off |-> j - 1]
         /\ b = IF Len(s) < sizes[i] THEN [sec |-> i, off |-> Len(s)] ELSE First(i + 1)
<1> DEFINE l == Len(s)
           E(j) == IF j < sizes[i] THEN [sec |-> i, off |-> j] ELSE First(i + 1)
<1>1. PICK g \in [0..l -> Places] :
        /\ g[0] = First(i) /\ g[l] = b
        /\ \A j \in 1..l : <<g[j - 1], s[j], g[j]>> \in ByteSteps
  BY DEF Path
<1>2. l \in Nat \ {0} /\ 1 \in 1..l /\ 1 - 1 = 0
  OBVIOUS
<1>3. AllAvailable(i)
  <2>1. <<First(i), s[1], g[1]>> \in ByteSteps
    BY <1>1, <1>2
  <2> QED
    BY <2>1, FirstByte
<1>4. i \in DOMAIN sizes /\ sizes[i] \in Nat \ {0}
  BY <1>3 DEF AllAvailable, Available, Types
<1> HIDE DEF l
<1>5. ASSUME NEW j \in 1..l, g[j - 1] = E(j - 1)
      PROVE  s[j] = [sec |-> i, off |-> j - 1] /\ g[j] = E(j)
  <2> DEFINE a == [sec |-> i, off |-> j - 1]
  <2>1. E(j - 1) = a /\ j - 1 \in Nat
    BY <1>2, <1>4 DEF l
  <2>2. Step(a, s[j], g[j])
    <3>1. <<g[j - 1], s[j], g[j]>> \in ByteSteps
      BY <1>1
    <3> QED
      BY <1>5, <2>1, <3>1 DEF ByteSteps
  <2>3. ~(s[j] = Stuff /\ a.off = 0)
    <3> SUFFICES ASSUME s[j] = Stuff, j - 1 = 0 PROVE FALSE
      OBVIOUS
    <3>1. j = 1
      OBVIOUS
    <3> QED
      BY <3>1 DEF Stuff
  <2>4. s[j] = a /\ g[j] = After(a)
    BY <2>2, <2>3 DEF Step
  <2>5. After(a) = E(j)
    <3>1. (j - 1) + 1 = j /\ a.sec = i /\ a.off = j - 1
      OBVIOUS
    <3> QED
      BY <3>1 DEF After
  <2> QED
    BY <2>4, <2>5
<1>6. \A j \in 0..l : g[j] = E(j)
  <2> DEFINE S == {j \in 0..l : g[j] # E(j)}
  <2> HIDE DEF E
  <2> SUFFICES ASSUME S # {} PROVE FALSE
    OBVIOUS
  <2>1. S \subseteq Nat
    OBVIOUS
  <2>2. PICK m \in S : \A k \in S : m <= k
    BY <2>1, LeastNumber
  <2>3. m \in 0..l /\ g[m] # E(m)
    BY <2>2
  <2>4. m # 0
    BY <1>1, <1>4, <2>3 DEF E, First
  <2>5. m \in 1..l /\ m - 1 \in 0..l /\ ~(m <= m - 1)
    BY <1>2, <2>3, <2>4
  <2>6. g[m - 1] = E(m - 1)
    BY <2>2, <2>5
  <2> QED
    BY <1>5, <2>3, <2>5, <2>6
<1>7. \A j \in 1..l : s[j] = [sec |-> i, off |-> j - 1]
  <2> SUFFICES ASSUME NEW j \in 1..l PROVE s[j] = [sec |-> i, off |-> j - 1]
    OBVIOUS
  <2>1. j - 1 \in 0..l
    BY <1>2
  <2> QED
    BY <1>5, <1>6, <2>1
<1>8. b = E(l)
  BY <1>1, <1>2, <1>6
<1> QED
  BY <1>3, <1>4, <1>7, <1>8 DEF l

\* What came out is what was sent, what is being gathered is a part of one section, and from
\* there the bytes that are on the way lead to where sec2ts is.
Delivered ==
  /\ out \in Seq(Seq(Bytes)) /\ Len(out) <= Len(SentSections)
  /\ \A i \in 1..Len(out) : out[i] = SentSections[i]

Gathers ==
  /\ section \in Seq(Bytes) /\ buffer \in Seq(Bytes)
  /\ Len(section) >= 3 => section[1].sec # 0 /\ Len(section) <= sizes[Len(out) + 1]

Arrived(a, b) ==
  /\ Path(ByteSteps, First(Len(out) + 1), section, a)
  /\ Path(ByteSteps, a, buffer, b)

OnTheWay(a) ==
  \E b : /\ Path(PacketSteps, a, ts, b)
         /\ ~done => Path(ByteSteps, b, pkt.bytes, Place)

Connected == \E a, b : Arrived(a, b) /\ OnTheWay(b)

PInv ==
  /\ Packing
  /\ lost \in Nat
  /\ \E X : out \in Seq(X)
  /\ lost = 0 => Delivered /\ Gathers /\ Connected

LEMMA ReadPacketLeads ==
  ASSUME Types, Gathers, NEW a, NEW b, Arrived(a, b), OnTheWay(b), ts # <<>>,
         ReadPacket(Head(ts)), ts' = Tail(ts), UNCHANGED <<sizes, cur, at, pkt, done>>
  PROVE  Gathers' /\ Connected'
<1>1. /\ buffer = <<>> /\ buffer' = Head(ts).bytes /\ UNCHANGED <<section, out>>
  BY DEF ReadPacket
<1>2. ts \in Seq(Packets)
  BY DEF Types
<1>3. PICK c : Path(PacketSteps, b, ts, c) /\ (~done => Path(ByteSteps, c, pkt.bytes, Place))
  BY DEF OnTheWay
<1>4. PICK m \in Places : <<b, Head(ts), m>> \in PacketSteps /\ Path(PacketSteps, m, Tail(ts), c)
  BY <1>2, <1>3, FirstOfPath
<1>5. Head(ts) \in Packets /\ Path(ByteSteps, b, Head(ts).bytes, m)
  BY <1>4 DEF PacketSteps
<1>6. a = b
  <2>1. a \in Places
    BY PathEnds DEF Arrived, Gathers
  <2> QED
    BY <1>1, <2>1, EmptyPath DEF Arrived
<1>7. ByteSteps' = ByteSteps /\ PacketSteps' = PacketSteps /\ Place' = Place
  BY ConstantSteps DEF Place, PlaceAt
<1>8. Arrived(a, m)'
  BY <1>1, <1>5, <1>6, <1>7 DEF Arrived
<1>9. OnTheWay(m)'
  BY <1>3, <1>4, <1>7 DEF OnTheWay
<1>10. Gathers'
  BY <1>1, <1>5 DEF Gathers, Packets
<1> QED
  BY <1>8, <1>9, <1>10 DEF Connected

LEMMA HeaderByteLeads ==
  ASSUME Types, Packing, Delivered, Gathers, NEW a, NEW b, Arrived(a, b), HeaderByte,
         sizes' = sizes
  PROVE  Gathers' /\ \E m : Arrived(m, b)'
<1> DEFINE F == First(Len(out) + 1)
           s == Append(section, Head(buffer))
<1>1. /\ buffer # <<>> /\ Len(section) < 3 /\ section' = DropPadding(s) /\ buffer' = Tail(buffer)
      /\ out' = out
  BY DEF HeaderByte
<1>2. section \in Seq(Bytes) /\ buffer \in Seq(Bytes) /\ Len(out) + 1 \in Nat \ {0}
  BY DEF Gathers, Delivered
<1>3. PICK m \in Places : <<a, Head(buffer), m>> \in ByteSteps /\ Path(ByteSteps, m, Tail(buffer), b)
  BY <1>1, <1>2, FirstOfPath DEF Arrived
<1>4. Head(buffer) \in Bytes /\ Tail(buffer) \in Seq(Bytes)
  BY <1>1, <1>2
<1>5. Path(ByteSteps, F, s, m)
  BY <1>2, <1>3, <1>4, LongerPath DEF Arrived
<1>6. s \in Seq(Bytes) /\ s # <<>> /\ Len(s) = Len(section) + 1 /\ Len(section) \in Nat
      /\ s[1] = Head(s)
  BY <1>2, <1>4
<1> HIDE DEF s
<1>7. PICK x \in Places : <<F, s[1], x>> \in ByteSteps /\ Path(ByteSteps, x, Tail(s), m)
  BY <1>5, <1>6, FirstOfPath
<1>8. section' \in Seq(Bytes) /\ Path(ByteSteps, F, section', m)
  <2>1. CASE Len(s) = 3 /\ s[1].sec = 0
    <3>1. section' = Tail(s) /\ x = F
      BY <1>1, <1>2, <1>7, <2>1, FirstByte DEF DropPadding
    <3> QED
      BY <1>6, <1>7, <3>1
  <2>2. CASE ~(Len(s) = 3 /\ s[1].sec = 0)
    BY <1>1, <1>5, <1>6, <2>2 DEF DropPadding
  <2> QED
    BY <2>1, <2>2
<1>9. Len(section') >= 3 => section'[1].sec # 0 /\ Len(section') <= sizes[Len(out) + 1]
  <2> SUFFICES ASSUME Len(section') >= 3
               PROVE  section'[1].sec # 0 /\ Len(section') <= sizes[Len(out) + 1]
    OBVIOUS
  <2>1. ~(Len(s) = 3 /\ s[1].sec = 0)
    <3> SUFFICES ASSUME Len(s) = 3, s[1].sec = 0 PROVE FALSE
      OBVIOUS
    <3>1. section' = Tail(s)
      BY <1>1 DEF DropPadding
    <3>2. Len(Tail(s)) = 2
      BY <1>6
    <3>3. Len(section') = 2
      BY <3>1, <3>2
    <3> QED
      BY <3>3
  <2>2. section' = s
    BY <1>1, <2>1 DEF DropPadding
  <2>3. Len(s) = 3 /\ s[1].sec # 0
    BY <1>1, <1>6, <2>1, <2>2
  <2>4. AllAvailable(Len(out) + 1)
    BY <1>2, <1>7, <2>3, FirstByte
  <2>5. Len(out) + 1 \in DOMAIN sizes
    BY <1>2, <2>4 DEF AllAvailable, Available
  <2>6. sizes[Len(out) + 1] \in Nat /\ sizes[Len(out) + 1] > 2
    BY <2>5 DEF Types, Packing
  <2> QED
    BY <2>2, <2>3, <2>6
<1>10. ByteSteps' = ByteSteps
  BY ConstantSteps
<1>11. Arrived(m, b)'
  BY <1>1, <1>3, <1>8, <1>10 DEF Arrived
<1>12. Gathers'
  BY <1>1, <1>4, <1>8, <1>9 DEF Gathers
<1> QED
  BY <1>11, <1>12

LEMMA PayloadBytesLead ==
  ASSUME Types, Packing, Delivered, Gathers, NEW a, NEW b, Arrived(a, b), PayloadBytes(sizes),
         sizes' = sizes
  PROVE  Delivered' /\ Gathers' /\ \E m : Arrived(m, b)'
<1> DEFINE d == Len(out) + 1
           missing == HeaderSize(section, sizes) - Len(section)
           n == IF missing >= Len(buffer) THEN Len(buffer) ELSE missing
           s == section \o SubSeq(buffer, 1, n)
<1>1. /\ buffer # <<>> /\ Len(section) >= 3
      /\ buffer' = SubSeq(buffer, n + 1, Len(buffer))
      /\ IF n = missing THEN section' = <<>> /\ out' = Append(out, s)
         ELSE section' = s /\ out' = out
  BY DEF PayloadBytes
<1>2. /\ section \in Seq(Bytes) /\ buffer \in Seq(Bytes) /\ out \in Seq(Seq(Bytes))
      /\ d \in Nat \ {0} /\ Len(section) \in Nat /\ Len(buffer) \in Nat
      /\ section[1].sec # 0 /\ Len(section) <= sizes[d]
  <2>1. section \in Seq(Bytes) /\ buffer \in Seq(Bytes) /\ out \in Seq(Seq(Bytes))
    BY DEF Gathers, Delivered
  <2>2. section[1].sec # 0 /\ Len(section) <= sizes[d]
    BY <1>1 DEF Gathers
  <2>3. d \in Nat \ {0} /\ Len(section) \in Nat /\ Len(buffer) \in Nat
    BY <2>1
  <2> QED
    BY <2>1, <2>2, <2>3
<1>3. /\ AllAvailable(d) /\ d \in DOMAIN sizes
      /\ \A j \in 1..Len(section) : section[j] = [sec |-> d, off |-> j - 1]
  <2>1. section # <<>>
    BY <1>1, <1>2
  <2>2. Path(ByteSteps, First(d), section, a)
    BY DEF Arrived
  <2> HIDE DEF d
  <2> QED
    BY <1>2, <2>1, <2>2, Gathered
<1>4. missing = sizes[d] - Len(section) /\ sizes[d] \in Nat
  <2>1. \A j \in 1..3 : section[j] = [sec |-> d, off |-> j - 1]
    BY <1>1, <1>2, <1>3
  <2>2. section[1].sec = d
    BY <2>1
  <2>3. HeaderSize(section, sizes) = sizes[d]
    BY <1>2, <2>1, <2>2 DEF HeaderSize
  <2> QED
    BY <1>3, <2>3 DEF Types
<1> HIDE DEF missing, d
<1>5. /\ n \in 0..Len(buffer) /\ n <= missing /\ (n # missing => n = Len(buffer))
  BY <1>2, <1>4
<1> HIDE DEF n
<1>6. PICK m \in Places : /\ Path(ByteSteps, a, SubSeq(buffer, 1, n), m)
                          /\ Path(ByteSteps, m, SubSeq(buffer, n + 1, Len(buffer)), b)
  BY <1>2, <1>5, SplitPath DEF Arrived
<1>7. /\ SubSeq(buffer, 1, n) \in Seq(Bytes) /\ Len(SubSeq(buffer, 1, n)) = n
      /\ buffer' \in Seq(Bytes)
  <2>1. \A k \in 1..Len(buffer) : buffer[k] \in Bytes
    BY <1>2
  <2>2. /\ SubSeq(buffer, 1, n) \in Seq(Bytes)
        /\ Len(SubSeq(buffer, 1, n)) = IF 1 <= n THEN n - 1 + 1 ELSE 0
    BY <1>5, <2>1, SubSeqProperties
  <2>3. SubSeq(buffer, n + 1, Len(buffer)) \in Seq(Bytes)
    BY <1>2, <1>5, <2>1, SubSeqProperties
  <2> QED
    BY <1>1, <1>5, <2>2, <2>3
<1>8. /\ s \in Seq(Bytes) /\ Len(s) = Len(section) + n /\ Path(ByteSteps, First(d), s, m)
      /\ s[1] = section[1]
  <2>1. Path(ByteSteps, First(d), section, a)
    BY DEF Arrived, d
  <2>2. /\ s \in Seq(Bytes) /\ Len(s) = Len(section) + Len(SubSeq(buffer, 1, n))
        /\ \A k \in 1..Len(section) : s[k] = section[k]
    BY <1>2, <1>7, Concatenation
  <2>3. 1 \in 1..Len(section)
    BY <1>1, <1>2
  <2> QED
    BY <1>2, <1>6, <1>7, <2>1, <2>2, <2>3, JoinedPaths
<1> HIDE DEF s
<1>9. s # <<>> /\ s[1].sec # 0 /\ Len(s) <= sizes[d]
  BY <1>1, <1>2, <1>4, <1>5, <1>8
<1>10. /\ \A j \in 1..Len(s) : s[j] = [sec |-> d, off |-> j - 1]
       /\ Len(s) = sizes[d] => m = First(d + 1)
  <2>1. m = IF Len(s) < sizes[d] THEN [sec |-> d, off |-> Len(s)] ELSE First(d + 1)
    BY <1>2, <1>8, <1>9, Gathered
  <2>2. \A j \in 1..Len(s) : s[j] = [sec |-> d, off |-> j - 1]
    BY <1>2, <1>8, <1>9, Gathered
  <2>3. Len(s) = sizes[d] => ~(Len(s) < sizes[d])
    BY <1>4
  <2> QED
    BY <2>1, <2>2, <2>3
<1>11. ByteSteps' = ByteSteps /\ SentSections' = SentSections
  BY ConstantSteps DEF SentSections, Available
<1>12. CASE n = missing
  <2>1. section' = <<>> /\ out' = Append(out, s) /\ Len(s) = sizes[d]
    BY <1>1, <1>2, <1>4, <1>5, <1>8, <1>12
  <2>2. /\ out' \in Seq(Seq(Bytes)) /\ Len(out') = d /\ out'[d] = s
        /\ \A i \in 1..(d - 1) : out'[i] = out[i]
    BY <1>2, <1>8, <2>1 DEF d
  <2>3. /\ d <= Len(SentSections)
        /\ SentSections[d] = [k \in 1..sizes[d] |-> [sec |-> d, off |-> k - 1]]
        /\ SentSections \in Seq(Seq(Bytes))
    BY <1>2, <1>3, SentFacts
  <2>4. s = SentSections[d]
    <3> DEFINE u == SentSections[d]
    <3>1. u \in Seq(Bytes)
      BY <1>2, <2>3
    <3>2. Len(u) = sizes[d]
      BY <1>4, <2>3
    <3>3. \A j \in 1..Len(s) : s[j] = u[j]
      BY <1>10, <2>1, <2>3
    <3> HIDE DEF u
    <3> QED
      BY <1>8, <2>1, <3>1, <3>2, <3>3, SeqEqual DEF u
  <2>5. Delivered'
    <3>1. \A i \in 1..d : out'[i] = SentSections[i]
      <4> SUFFICES ASSUME NEW i \in 1..d PROVE out'[i] = SentSections[i]
        OBVIOUS
      <4>1. CASE i = d
        BY <2>2, <2>4, <4>1
      <4>2. CASE i # d
        <5>1. i \in 1..(d - 1) /\ i \in 1..Len(out)
          BY <1>2, <4>2 DEF d
        <5> QED
          BY <2>2, <5>1 DEF Delivered
      <4> QED
        BY <4>1, <4>2
    <3> QED
      BY <1>11, <2>2, <2>3, <3>1 DEF Delivered
  <2>6. Gathers'
    BY <1>7, <2>1 DEF Gathers
  <2>7. m = First(Len(out') + 1)
    BY <1>10, <2>1, <2>2
  <2>8. Path(ByteSteps, m, section', m)
    BY <2>1, EmptyPath
  <2>9. Arrived(m, b)'
    BY <1>1, <1>6, <1>11, <2>7, <2>8 DEF Arrived
  <2> QED
    BY <2>5, <2>6, <2>9
<1>13. CASE n # missing
  <2>1. section' = s /\ out' = out
    BY <1>1, <1>13
  <2>2. Delivered'
    BY <1>11, <2>1 DEF Delivered
  <2>3. Gathers'
    BY <1>7, <1>8, <1>9, <2>1 DEF Gathers, d
  <2>4. Arrived(m, b)'
    BY <1>1, <1>6, <1>8, <1>11, <2>1 DEF Arrived, d
  <2> QED
    BY <2>2, <2>3, <2>4
<1> QED
  BY <1>12, <1>13

-----------------------------------------------------------------------------
(* What ts2sec puts out is what sec2ts was given.                            *)

LEMMA PipeStarts ==
  ASSUME Init
  PROVE  PInv
<1>1. /\ cur = 0 /\ at = 0 /\ size = 0 /\ done = FALSE /\ pkt = StartHeader(0, 0)
      /\ ts = <<>> /\ out = <<>> /\ section = <<>> /\ buffer = <<>> /\ lost = 0
  BY DEF Init, SenderInit, ReceiverInit
<1>2. Types
  BY InitHolds DEF SInv
<1>3. Packing
  <2>1. PICK n \in 1..MaxSections : sizes \in [1..n -> SizeChoices]
    BY DEF Init
  <2>2. \A x \in SizeChoices : x \in Nat /\ x > 2
    BY SectionLinkAssumption
  <2>3. \A i \in DOMAIN sizes : sizes[i] > 2
    BY <2>1, <2>2
  <2> QED
    BY <1>1, <2>3 DEF Packing, AllAvailable
<1>4. out \in Seq(Seq(Bytes)) /\ Len(out) = 0 /\ section \in Seq(Bytes) /\ Len(section) = 0
      /\ buffer \in Seq(Bytes)
  BY <1>1
<1>5. Delivered
  <2>1. SentSections \in Seq(Seq(Bytes))
    BY <1>2, SentFacts
  <2> QED
    BY <1>4, <2>1 DEF Delivered
<1>6. Gathers
  BY <1>4 DEF Gathers
<1>7. First(1) \in Places /\ Place = First(1) /\ First(Len(out) + 1) = First(1)
  <2>1. First(1) \in Places
    BY FirstIsPlace
  <2> QED
    BY <1>1, <1>4, <2>1 DEF Place
<1>8. pkt.bytes = <<>>
  BY <1>1 DEF StartHeader
<1>9. Connected
  <2>1. Arrived(First(1), First(1))
    BY <1>1, <1>7, EmptyPath DEF Arrived
  <2>2. OnTheWay(First(1))
    <3>1. Path(PacketSteps, First(1), ts, First(1))
      BY <1>1, <1>7, EmptyPath
    <3>2. Path(ByteSteps, First(1), pkt.bytes, Place)
      BY <1>7, <1>8, EmptyPath
    <3> QED
      BY <3>1, <3>2 DEF OnTheWay
  <2> QED
    BY <2>1, <2>2 DEF Connected
<1> QED
  BY <1>1, <1>3, <1>4, <1>5, <1>6, <1>9 DEF PInv

LEMMA WriteKeepsPInv ==
  ASSUME SInv, PInv, Write
  PROVE  PInv' /\ out' = out /\ lost' = lost
<1>1. SenderNext /\ UNCHANGED <<buffer, section, out, lost>>
  BY DEF Write, receiverVars
<1>2. sizes' = sizes
  BY <1>1 DEF SenderNext, TakeSection, PackBytes, Pad, Finish
<1>3. Packing'
  BY <1>1, WriteKeepsPacking DEF PInv
<1>4. ASSUME lost = 0 PROVE (Delivered /\ Gathers /\ Connected)'
  <2>1. ByteSteps' = ByteSteps /\ PacketSteps' = PacketSteps /\ SentSections' = SentSections
    BY <1>2, ConstantSteps DEF SentSections, Available
  <2>2. PICK a, b : Arrived(a, b) /\ OnTheWay(b)
    BY <1>4 DEF PInv, Connected
  <2>3. PICK c : Path(PacketSteps, b, ts, c) /\ (~done => Path(ByteSteps, c, pkt.bytes, Place))
    BY <2>2 DEF OnTheWay
  <2>4. PICK d : /\ Path(PacketSteps, b, ts', d)
                 /\ ~done' => Path(ByteSteps, d, pkt'.bytes, Place')
    BY <1>1, <2>3, WriteLeads DEF PInv
  <2>5. Arrived(a, b)'
    BY <1>1, <2>1, <2>2 DEF Arrived
  <2>6. OnTheWay(b)'
    BY <2>1, <2>4 DEF OnTheWay
  <2>7. (Delivered /\ Gathers)'
    BY <1>1, <1>2, <1>4, <2>1 DEF PInv, Delivered, Gathers
  <2> QED
    BY <2>5, <2>6, <2>7 DEF Connected
<1> QED
  BY <1>1, <1>3, <1>4 DEF PInv

\* What came out stays.
LEMMA ReadOnlyAppends ==
  ASSUME NEW X, out \in Seq(X), Read
  PROVE  \/ out' = out
         \/ PayloadBytes(sizes) /\ \E s : out' = Append(out, s)
BY DEF Read, ReadPacket, HeaderByte, PayloadBytes

LEMMA ReadKeepsPInv ==
  ASSUME SInv, PInv, Read
  PROVE  PInv'
<1>1. UNCHANGED <<sizes, cur, size, at, needPad, pkt, done, lost>>
  BY DEF Read
<1>2. Packing'
  BY <1>1 DEF PInv, Packing, AllAvailable, Available
<1>3. \E Y : out' \in Seq(Y)
  <2>1. PICK X : out \in Seq(X)
    BY DEF PInv
  <2>2. CASE out' = out
    BY <2>1, <2>2
  <2>3. ASSUME NEW s, out' = Append(out, s) PROVE out' \in Seq(X \cup {s})
    <3>1. out \in Seq(X \cup {s})
      BY <2>1, SeqMonotonic
    <3> QED
      BY <2>3, <3>1
  <2> QED
    BY <2>1, <2>2, <2>3, ReadOnlyAppends
<1>4. ASSUME lost = 0 PROVE (Delivered /\ Gathers /\ Connected)'
  <2>1. /\ ByteSteps' = ByteSteps /\ PacketSteps' = PacketSteps
        /\ SentSections' = SentSections /\ Place' = Place
    BY <1>1, ConstantSteps DEF SentSections, Available, Place, PlaceAt
  <2>2. PICK a, b : Arrived(a, b) /\ OnTheWay(b)
    BY <1>4 DEF PInv, Connected
  <2>3. Types /\ Packing /\ Delivered /\ Gathers
    BY <1>4 DEF SInv, PInv
  <2>4. CASE ts # <<>> /\ ReadPacket(Head(ts)) /\ ts' = Tail(ts)
    <3>1. Gathers' /\ Connected'
      BY <1>1, <2>2, <2>3, <2>4, ReadPacketLeads
    <3>2. Delivered'
      BY <2>1, <2>3, <2>4 DEF Delivered, ReadPacket
    <3> QED
      BY <3>1, <3>2
  <2>5. ASSUME ts' = ts PROVE OnTheWay(b)'
    BY <1>1, <2>1, <2>2, <2>5 DEF OnTheWay
  <2>6. CASE HeaderByte /\ ts' = ts
    <3>1. Gathers' /\ \E m : Arrived(m, b)'
      BY <1>1, <2>2, <2>3, <2>6, HeaderByteLeads
    <3>2. Delivered'
      BY <2>1, <2>3, <2>6 DEF Delivered, HeaderByte
    <3> QED
      BY <2>5, <2>6, <3>1, <3>2 DEF Connected
  <2>7. CASE PayloadBytes(sizes) /\ ts' = ts
    <3>1. Delivered' /\ Gathers' /\ \E m : Arrived(m, b)'
      BY <1>1, <2>2, <2>3, <2>7, PayloadBytesLead
    <3> QED
      BY <2>5, <2>7, <3>1 DEF Connected
  <2> QED
    BY <2>4, <2>6, <2>7 DEF Read
<1> QED
  BY <1>1, <1>2, <1>3, <1>4 DEF PInv

LEMMA PipeNextKeepsPInv ==
  ASSUME SInv, PInv, [Next]_vars
  PROVE  PInv'
<1>1. CASE Write
  BY <1>1, WriteKeepsPInv
<1>2. CASE Read
  BY <1>2, ReadKeepsPInv
<1>3. CASE Lose
  <2>1. lost' = lost + 1 /\ UNCHANGED <<sizes, cur, size, at, needPad, done, out>>
    BY <1>3 DEF Lose, receiverVars
  <2>2. Packing'
    BY <2>1 DEF PInv, Packing, AllAvailable, Available
  <2>3. lost' \in Nat /\ lost' # 0
    BY <2>1 DEF PInv
  <2> QED
    BY <2>1, <2>2, <2>3 DEF PInv
<1>4. CASE UNCHANGED vars
  <2>1. UNCHANGED <<sizes, cur, size, at, needPad, pkt, ts, done, buffer, section, out, lost>>
    BY <1>4 DEF vars, senderVars, receiverVars
  <2>2. Packing'
    BY <2>1 DEF PInv, Packing, AllAvailable, Available
  <2>3. ASSUME lost = 0 PROVE (Delivered /\ Gathers /\ Connected)'
    <3>1. /\ ByteSteps' = ByteSteps /\ PacketSteps' = PacketSteps
          /\ SentSections' = SentSections /\ Place' = Place
      BY <2>1, ConstantSteps DEF SentSections, Available, Place, PlaceAt
    <3>2. PICK a, b : Arrived(a, b) /\ OnTheWay(b)
      BY <2>3 DEF PInv, Connected
    <3>3. Arrived(a, b)' /\ OnTheWay(b)'
      BY <2>1, <3>1, <3>2 DEF Arrived, OnTheWay
    <3>4. (Delivered /\ Gathers)'
      BY <2>1, <2>3, <3>1 DEF PInv, Delivered, Gathers
    <3> QED
      BY <3>3, <3>4 DEF Connected
  <2> QED
    BY <2>1, <2>2, <2>3 DEF PInv
<1> QED
  BY <1>1, <1>2, <1>3, <1>4 DEF Next

\* A sequence that agrees with another as far as it goes is the beginning of that one.
LEMMA Beginning ==
  ASSUME NEW T, NEW o \in Seq(T), NEW s \in Seq(T), Len(o) <= Len(s),
         \A i \in 1..Len(o) : o[i] = s[i]
  PROVE  o = SubSeq(s, 1, Len(o))
<1> DEFINE u == SubSeq(s, 1, Len(o))
<1>1. Len(o) \in Nat /\ Len(s) \in Nat
  OBVIOUS
<1>2. u \in Seq(T) /\ Len(u) = Len(o) /\ \A i \in 1..Len(o) : u[i] = o[i]
  <2>1. \A i \in 1..Len(o) : s[i] \in T
    OBVIOUS
  <2>2. /\ u \in Seq(T)
        /\ Len(u) = IF 1 <= Len(o) THEN Len(o) - 1 + 1 ELSE 0
        /\ \A i \in 1..Len(u) : u[i] = s[1 + i - 1]
    BY <1>1, <2>1, SubSeqProperties
  <2>3. Len(u) = Len(o)
    BY <1>1, <2>2
  <2>4. \A i \in 1..Len(o) : 1 + i - 1 = i
    BY <1>1
  <2> QED
    BY <2>2, <2>3, <2>4
<1> HIDE DEF u
<1>3. o = u
  BY <1>1, <1>2, SeqEqual
<1> QED
  BY <1>3 DEF u

LEMMA StepImplements ==
  ASSUME SInv, PInv, SInv', PInv', [Next]_vars
  PROVE  [Pipe!PipeNext]_<<SentSections, out, (lost = 0)>>
<1>1. sizes' = sizes
  BY DEF Next, Write, Read, Lose, vars, senderVars, SenderNext, TakeSection, PackBytes, Pad, Finish
<1>2. SentSections' = SentSections
  BY <1>1 DEF SentSections, Available
<1>3. CASE Write
  <2>1. out' = out /\ lost' = lost
    BY <1>3, WriteKeepsPInv
  <2> QED
    BY <1>2, <2>1
<1>4. CASE Read
  <2>1. lost' = lost
    BY <1>4 DEF Read
  <2>2. PICK X : out \in Seq(X)
    BY DEF PInv
  <2>3. out' = out \/ \E s : out' = Append(out, s)
    BY <1>4, <2>2, ReadOnlyAppends
  <2>4. Len(out') >= Len(out) /\ SubSeq(out', 1, Len(out)) = out
    <3>1. CASE out' = out
      BY <2>2, <3>1
    <3>2. ASSUME NEW s, out' = Append(out, s)
          PROVE  Len(out') >= Len(out) /\ SubSeq(out', 1, Len(out)) = out
      BY <2>2, <3>2
    <3> QED
      BY <2>3, <3>1, <3>2
  <2>5. CASE lost = 0
    <3>1. Delivered'
      BY <2>1, <2>5 DEF PInv
    <3>2. SentSections \in Seq(Seq(Bytes))
      BY SentFacts DEF SInv
    <3>3. /\ Len(out') \in Nat /\ Len(out') <= Len(SentSections)
          /\ out' = SubSeq(SentSections, 1, Len(out'))
      BY <1>2, <3>1, <3>2, Beginning DEF Delivered
    <3>4. Len(out') \in Len(out)..Len(SentSections)
      BY <2>2, <2>4, <3>2, <3>3
    <3> QED
      BY <1>2, <2>1, <2>5, <3>3, <3>4 DEF Pipe!PipeNext, Pipe!Deliver
  <2>6. CASE lost # 0
    BY <1>2, <2>1, <2>4, <2>6 DEF Pipe!PipeNext, Pipe!DeliverAnything
  <2> QED
    BY <2>5, <2>6
<1>5. CASE Lose
  <2>1. lost' = lost + 1 /\ out' = out /\ lost \in Nat
    BY <1>5 DEF Lose, receiverVars, PInv
  <2>2. ~(lost' = 0)
    BY <2>1
  <2> QED
    BY <1>2, <2>1, <2>2 DEF Pipe!PipeNext, Pipe!Break
<1>6. CASE UNCHANGED vars
  BY <1>2, <1>6 DEF vars, receiverVars
<1> QED
  BY <1>3, <1>4, <1>5, <1>6 DEF Next

\* ts2sec puts out the sections sec2ts was given, whole, once each and in their order, for
\* every number of sections and all their sizes, every size of a packet, and every way the
\* two take turns; when packets are lost, what had come out stays.
THEOREM Refinement == Spec => ImplementsPipe
<1>1. Init => SInv /\ PInv
  BY InitHolds, PipeStarts
<1>2. SInv /\ PInv /\ [Next]_vars => SInv' /\ PInv'
  BY NextKeepsInv, PipeNextKeepsPInv
<1>3. Init => Pipe!PipeInit
  BY DEF Init, ReceiverInit, Pipe!PipeInit
<1>4. SInv /\ PInv /\ SInv' /\ PInv' /\ [Next]_vars
        => [Pipe!PipeNext]_<<SentSections, out, (lost = 0)>>
  BY StepImplements
<1> QED
  BY <1>1, <1>2, <1>3, <1>4, PTL DEF Spec, ImplementsPipe, Pipe!PipeSpec

=============================================================================
