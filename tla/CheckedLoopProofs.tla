--------------------------- MODULE CheckedLoopProofs ---------------------------
(***************************************************************************)
(* What holds of the stream that tsloop writes, for any PIDs, any modulus  *)
(* of the counters and any well-formed files: a decoder loses nothing and  *)
(* tsccc is silent.                                                        *)
(***************************************************************************)
EXTENDS CheckedLoop, Integers, TLAPS

\* Packet k is the last one of PID p among the first n of file f; there is none.
IsLast(f, n, p, k) == /\ k \in 1..n /\ f[k].pid = p
                      /\ \A i \in 1..n : f[i].pid = p => i <= k
NoneYet(f, n, p)   == \A i \in 1..n : f[i].pid # p

\* The packet at k of file f is the first of its payload.
IsOriginal(f, k) == HasPayload(f[k]) /\ f[k].data = k

\* What the tables t and the decoder, with the last packets l, know of PID p when n
\* packets of file f were read: the decoder has the last counter that was written, and
\* previous_cc_table has the counter read last if a copy of that packet may follow.
Known(f, n, t, l, p) ==
  /\ l[p] # None => t.pidCc[p] # NoCc /\ l[p].cc = t.pidCc[p]
  /\ \/ NoneYet(f, n, p) /\ t.previousCc[p] = NoCc
     \/ /\ t.pidCc[p] # NoCc
        /\ \E k \in 1..n :
             /\ IsLast(f, n, p, k)
             /\ t.previousCc[p] \in {NoCc, f[k].cc}
             /\ IsOriginal(f, k) => /\ t.previousCc[p] = f[k].cc
                                    /\ l[p] # None => l[p].data = k

-----------------------------------------------------------------------------
(* Counters and places.                                                     *)

LEMMA NextCounter ==
  ASSUME NEW c \in 0..(CcMod - 1)
  PROVE  (c + 1) % CcMod \in 0..(CcMod - 1) /\ (c + 1) % CcMod # c
<1>1. CASE c = CcMod - 1
  <2>1. (c + 1) % CcMod = 0
    BY <1>1, ContinuityAssumption
  <2> QED
    BY <1>1, <2>1, ContinuityAssumption
<1>2. CASE c < CcMod - 1
  <2>1. (c + 1) % CcMod = c + 1
    BY <1>2, ContinuityAssumption
  <2> QED
    BY <1>2, <2>1, ContinuityAssumption
<1> QED
  BY <1>1, <1>2, ContinuityAssumption

\* Before finds the last packet of the PID.
LEMMA BeforeIsLast ==
  ASSUME NEW f, NEW n \in Nat, NEW k, IsLast(f, n, f[n + 1].pid, k)
  PROVE  Before(f, n + 1) = k
<1> DEFINE earlier == {j \in 1..((n + 1) - 1) : f[j].pid = f[n + 1].pid}
<1>1. k \in earlier /\ \A i \in earlier : i <= k
  BY DEF IsLast
<1>2. \A j \in earlier : (\A i \in earlier : i <= j) => j = k
  BY <1>1
<1>3. (CHOOSE j \in earlier : \A i \in earlier : i <= j) = k
  BY <1>1, <1>2, Zenon
<1>4. earlier # {}
  BY <1>1
<1> HIDE DEF earlier
<1> QED
  BY <1>3, <1>4 DEF Before, earlier

LEMMA BeforeIsNone ==
  ASSUME NEW f, NEW n \in Nat, NoneYet(f, n, f[n + 1].pid)
  PROVE  Before(f, n + 1) = 0
<1>1. {j \in 1..((n + 1) - 1) : f[j].pid = f[n + 1].pid} = {}
  BY DEF NoneYet
<1> QED
  BY <1>1, Zenon DEF Before

\* The counter a packet is written with is a counter, and the tables stay tables.
LEMMA StampTypes ==
  ASSUME NEW t \in Tables, NEW p \in Packet
  PROVE  StampedCc(t, p) \in 0..(CcMod - 1) /\ Stamp(t, p) \in Tables
<1>1. t.pidCc[p.pid] \in 0..NoCc
  BY DEF Tables, Packet
<1>2. StampedCc(t, p) \in 0..(CcMod - 1)
  <2>1. CASE t.pidCc[p.pid] = NoCc
    BY <2>1 DEF StampedCc, Packet
  <2>2. CASE t.pidCc[p.pid] # NoCc
    <3>1. t.pidCc[p.pid] \in 0..(CcMod - 1)
      BY <1>1, <2>2, ContinuityAssumption DEF NoCc
    <3>2. (t.pidCc[p.pid] + 1) % CcMod \in 0..(CcMod - 1)
      BY <3>1, NextCounter
    <3> QED
      BY <2>2, <3>1, <3>2 DEF StampedCc
  <2> QED
    BY <2>1, <2>2
<1>3. StampedCc(t, p) \in 0..NoCc /\ p.cc \in 0..NoCc /\ NoCc \in 0..NoCc /\ p.pid \in Pids
  BY <1>2, ContinuityAssumption DEF Packet, NoCc
<1> QED
  BY <1>2, <1>3 DEF Stamp, Tables

-----------------------------------------------------------------------------
(* The next packet of a file.                                               *)

\* It is a payload of its own, which is never taken for a double packet, ...
NextIsOriginal(f, n, t) == IsOriginal(f, n + 1) /\ ~IsDouble(t, f[n + 1])

\* ... a copy of what the decoder has, which always is, ...
NextIsCopy(f, n, t, l) ==
  LET r == f[n + 1]
  IN  /\ IsDouble(t, r) /\ t.pidCc[r.pid] # NoCc
      /\ n # 0 /\ ~IsOriginal(f, n + 1) /\ HasDouble(f)
      /\ l[r.pid] # None => l[r.pid].data = r.data

\* ... or a packet without payload, with the counter of the one before.
NextIsEmpty(f, n) ==
  /\ ~HasPayload(f[n + 1])
  /\ \A k : IsLast(f, n, f[n + 1].pid, k) => f[n + 1].cc = f[k].cc

LEMMA WhatIsNext ==
  ASSUME NEW f \in Seq(Packet), WellFormed(f), NEW n \in Nat, n < Len(f),
         NEW t \in Tables, NEW l, Known(f, n, t, l, f[n + 1].pid)
  PROVE  NextIsOriginal(f, n, t) \/ NextIsCopy(f, n, t, l) \/ NextIsEmpty(f, n)
<1> DEFINE r == f[n + 1]
           j == Before(f, n + 1)
<1>1. /\ n + 1 \in DOMAIN f /\ r \in Packet
      /\ r.pid \in Pids /\ r.cc \in 0..(CcMod - 1) /\ r.cc # NoCc
  <2>1. n + 1 \in DOMAIN f /\ r \in Packet
    OBVIOUS
  <2>2. r.pid \in Pids /\ r.cc \in 0..(CcMod - 1)
    BY <2>1 DEF Packet
  <2> QED
    BY <2>1, <2>2, ContinuityAssumption DEF NoCc
<1>2. \/ /\ HasPayload(r) /\ r.data = n + 1
         /\ j # 0 => r.cc = (f[j].cc + 1) % CcMod
      \/ j # 0 /\ Copies(f[j], r) /\ f[j].data = j
      \/ ~HasPayload(r) /\ (j # 0 => r.cc = f[j].cc)
  BY <1>1 DEF WellFormed
<1> HIDE DEF j
<1>3. CASE NoneYet(f, n, r.pid) /\ t.previousCc[r.pid] = NoCc
  <2>1. j = 0
    BY <1>3, BeforeIsNone DEF j
  <2>2. ~IsDouble(t, r)
    BY <1>1, <1>3 DEF IsDouble
  <2>3. \A k : ~IsLast(f, n, r.pid, k)
    BY <1>3 DEF NoneYet, IsLast
  <2> QED
    BY <1>2, <2>1, <2>2, <2>3 DEF NextIsOriginal, NextIsEmpty, IsOriginal
<1>4. ASSUME NEW k \in 1..n, IsLast(f, n, r.pid, k), t.pidCc[r.pid] # NoCc,
             t.previousCc[r.pid] \in {NoCc, f[k].cc},
             IsOriginal(f, k) => /\ t.previousCc[r.pid] = f[k].cc
                                 /\ l[r.pid] # None => l[r.pid].data = k
      PROVE  NextIsOriginal(f, n, t) \/ NextIsCopy(f, n, t, l) \/ NextIsEmpty(f, n)
  <2> HIDE DEF r
  <2>0. j = k
    BY <1>4, BeforeIsLast DEF j, r
  <2>1. j = k /\ j # 0 /\ k <= n /\ n # 0 /\ j \in DOMAIN f /\ f[k] \in Packet
    BY <1>4, <2>0
  <2>2. CASE HasPayload(r) /\ r.data = n + 1 /\ r.cc = (f[j].cc + 1) % CcMod
    <3>1. f[k].cc \in 0..(CcMod - 1)
      BY <2>1 DEF Packet
    <3>2. r.cc # f[k].cc
      BY <2>1, <2>2, <3>1, NextCounter
    <3>3. ~IsDouble(t, r)
      BY <1>1, <1>4, <3>2 DEF IsDouble
    <3> QED
      BY <2>2, <3>3 DEF NextIsOriginal, IsOriginal, r
  <2>3. CASE Copies(f[j], r) /\ f[j].data = j
    <3>1. HasPayload(r) /\ f[k] = r /\ r.data = k /\ IsOriginal(f, k)
      BY <2>1, <2>3 DEF Copies, IsOriginal
    <3>2. IsDouble(t, r)
      BY <1>4, <3>1 DEF IsDouble
    <3>3. ~IsOriginal(f, n + 1)
      BY <2>1, <3>1 DEF IsOriginal, r
    <3>4. HasDouble(f)
      BY <1>1, <2>1, <2>3 DEF HasDouble, j, r
    <3> QED
      BY <1>4, <2>1, <3>1, <3>2, <3>3, <3>4 DEF NextIsCopy, r
  <2>4. CASE ~HasPayload(r) /\ r.cc = f[j].cc
    <3>1. ASSUME NEW i, IsLast(f, n, r.pid, i)
          PROVE  i = k
      BY <3>1, <1>4 DEF IsLast
    <3> QED
      BY <2>1, <2>4, <3>1 DEF NextIsEmpty, r
  <2> QED
    BY <1>2, <2>1, <2>2, <2>3, <2>4
<1> QED
  BY <1>3, <1>4 DEF Known

-----------------------------------------------------------------------------
(* What is known after it.                                                  *)

\* The packet that is written for packet r, and what the decoder has then.
Out(t, r)       == [r EXCEPT !.cc = StampedCc(t, r)]
Received(l, w)  == IF HasPayload(w) THEN [l EXCEPT ![w.pid] = w] ELSE l
Decoders        == [Pids -> {None} \cup Packet]

LEMMA OutIsPacket ==
  ASSUME NEW t \in Tables, NEW r \in Packet
  PROVE  /\ Out(t, r) \in Packet /\ Out(t, r).pid = r.pid /\ Out(t, r).data = r.data
         /\ Out(t, r).cc = StampedCc(t, r) /\ (HasPayload(Out(t, r)) <=> HasPayload(r))
BY StampTypes DEF Out, Packet, HasPayload

\* The entries of the PID of the packet, and of the others.
LEMMA StampEntries ==
  ASSUME NEW t \in Tables, NEW r \in Packet
  PROVE  /\ Stamp(t, r).pidCc[r.pid] = StampedCc(t, r) /\ StampedCc(t, r) # NoCc
         /\ Stamp(t, r).previousCc[r.pid] = IF t.pidCc[r.pid] = NoCc THEN r.cc
                                            ELSE IF ~HasPayload(r) THEN t.previousCc[r.pid]
                                            ELSE IF IsDouble(t, r) THEN NoCc
                                            ELSE r.cc
         /\ \A p \in Pids : p # r.pid => /\ Stamp(t, r).pidCc[p] = t.pidCc[p]
                                         /\ Stamp(t, r).previousCc[p] = t.previousCc[p]
<1>1. r.pid \in Pids
  BY DEF Packet
<1>2. StampedCc(t, r) # NoCc
  BY StampTypes, ContinuityAssumption DEF NoCc
<1> QED
  BY <1>1, <1>2 DEF Stamp, Tables

\* A PID that the packet is not of.
LEMMA OthersStayKnown ==
  ASSUME NEW f, NEW n \in Nat, NEW t \in Tables, NEW l \in Decoders, f[n + 1] \in Packet,
         NEW p \in Pids, p # f[n + 1].pid, Known(f, n, t, l, p)
  PROVE  Known(f, n + 1, Stamp(t, f[n + 1]), Received(l, Out(t, f[n + 1])), p)
<1> DEFINE r == f[n + 1]
           t2 == Stamp(t, r)
           l2 == Received(l, Out(t, r))
<1>1. t2.pidCc[p] = t.pidCc[p] /\ t2.previousCc[p] = t.previousCc[p]
  BY StampEntries
<1>2. l2[p] = l[p]
  BY OutIsPacket DEF Received, Decoders
<1>3. NoneYet(f, n, p) => NoneYet(f, n + 1, p)
  BY DEF NoneYet
<1>4. ASSUME NEW k \in 1..n, IsLast(f, n, p, k)
      PROVE  k \in 1..(n + 1) /\ IsLast(f, n + 1, p, k)
  BY <1>4 DEF IsLast
<1> HIDE DEF r, t2, l2
<1>5. Known(f, n + 1, t2, l2, p)
  BY <1>1, <1>2, <1>3, <1>4 DEF Known
<1> QED
  BY <1>5 DEF r, t2, l2

\* The PID of the packet.
LEMMA ItsPidIsKnown ==
  ASSUME NEW f \in Seq(Packet), WellFormed(f), NEW n \in Nat, n < Len(f),
         NEW t \in Tables, NEW l \in Decoders, Known(f, n, t, l, f[n + 1].pid)
  PROVE  Known(f, n + 1, Stamp(t, f[n + 1]), Received(l, Out(t, f[n + 1])), f[n + 1].pid)
<1> DEFINE r == f[n + 1]
           t2 == Stamp(t, r)
           l2 == Received(l, Out(t, r))
           p  == r.pid
<1>1. r \in Packet
  OBVIOUS
<1>2. p \in Pids /\ r.cc \in 0..(CcMod - 1) /\ r.cc # NoCc
  BY <1>1, ContinuityAssumption DEF Packet, NoCc
<1>3. IsLast(f, n + 1, p, n + 1)
  BY DEF IsLast
<1>4. t2.pidCc[p] = StampedCc(t, r) /\ t2.pidCc[p] # NoCc
  BY <1>1, StampEntries
<1>5. l2[p] # None => l2[p].cc = t2.pidCc[p]
  <2>1. CASE HasPayload(r)
    <3>1. l2[p] = Out(t, r)
      BY <1>1, <1>2, <2>1, OutIsPacket DEF Received, Decoders
    <3> QED
      BY <1>1, <1>4, <3>1, OutIsPacket
  <2>2. CASE ~HasPayload(r)
    <3>1. l2[p] = l[p]
      BY <1>1, <2>2, OutIsPacket DEF Received
    <3>2. l[p] # None => t.pidCc[p] # NoCc /\ l[p].cc = t.pidCc[p]
      BY DEF Known
    <3>3. t.pidCc[p] # NoCc => StampedCc(t, r) = t.pidCc[p]
      BY <2>2 DEF StampedCc
    <3> QED
      BY <1>4, <3>1, <3>2, <3>3
  <2> QED
    BY <2>1, <2>2
<1>6. /\ t2.previousCc[p] \in {NoCc, r.cc}
      /\ IsOriginal(f, n + 1) => /\ t2.previousCc[p] = r.cc
                                 /\ l2[p] # None => l2[p].data = n + 1
  <2>1. t2.previousCc[p] = IF t.pidCc[p] = NoCc THEN r.cc
                           ELSE IF ~HasPayload(r) THEN t.previousCc[p]
                           ELSE IF IsDouble(t, r) THEN NoCc
                           ELSE r.cc
    BY <1>1, StampEntries
  <2>2. CASE NextIsOriginal(f, n, t)
    <3>1. HasPayload(r) /\ r.data = n + 1 /\ ~IsDouble(t, r)
      BY <2>2 DEF NextIsOriginal, IsOriginal
    <3>2. l2[p] = Out(t, r)
      BY <1>1, <1>2, <3>1, OutIsPacket DEF Received, Decoders
    <3>3. l2[p].data = n + 1
      BY <1>1, <3>1, <3>2, OutIsPacket
    <3> HIDE DEF r, t2, l2, p
    <3> QED
      BY <2>1, <3>1, <3>3
  <2>3. CASE NextIsCopy(f, n, t, l)
    <3>1. IsDouble(t, r) /\ t.pidCc[p] # NoCc /\ ~IsOriginal(f, n + 1)
      BY <2>3 DEF NextIsCopy
    <3>2. HasPayload(r)
      BY <3>1 DEF IsDouble
    <3> HIDE DEF r, t2, l2, p
    <3> QED
      BY <2>1, <3>1, <3>2
  <2>4. CASE NextIsEmpty(f, n)
    <3>1. ~HasPayload(r) /\ ~IsOriginal(f, n + 1)
      BY <2>4 DEF NextIsEmpty, IsOriginal
    <3>2. t.previousCc[p] \in {NoCc, r.cc}
      BY <2>4 DEF Known, NextIsEmpty
    <3> HIDE DEF r, t2, l2, p
    <3> QED
      BY <2>1, <3>1, <3>2
  <2>5. NextIsOriginal(f, n, t) \/ NextIsCopy(f, n, t, l) \/ NextIsEmpty(f, n)
    BY WhatIsNext
  <2> HIDE DEF r, t2, l2, p
  <2> QED
    BY <2>2, <2>3, <2>4, <2>5
<1> HIDE DEF t2, l2
<1>7. n + 1 \in 1..(n + 1)
  OBVIOUS
<1>8. Known(f, n + 1, t2, l2, p)
  BY <1>3, <1>4, <1>5, <1>6, <1>7 DEF Known
<1> QED
  BY <1>8 DEF t2, l2

LEMMA ReadKeepsKnown ==
  ASSUME NEW f \in Seq(Packet), WellFormed(f), NEW n \in Nat, n < Len(f),
         NEW t \in Tables, NEW l \in Decoders, \A p \in Pids : Known(f, n, t, l, p)
  PROVE  \A p \in Pids : Known(f, n + 1, Stamp(t, f[n + 1]), Received(l, Out(t, f[n + 1])), p)
<1>1. f[n + 1] \in Packet
  OBVIOUS
<1>2. f[n + 1].pid \in Pids
  BY <1>1 DEF Packet
<1> QED
  BY <1>1, <1>2, ItsPidIsKnown, OthersStayKnown

\* What the decoder finds of a packet, and tsccc.
LEMMA WhatIsWritten ==
  ASSUME NEW f \in Seq(Packet), WellFormed(f), NEW n \in Nat, n < Len(f),
         NEW t \in Tables, NEW l \in Decoders, Known(f, n, t, l, f[n + 1].pid),
         HasPayload(f[n + 1])
  PROVE  LET w == Out(t, f[n + 1])
             q == l[f[n + 1].pid]
         IN  /\ q # None => Follows(q, w) /\ (n = 0 => w.cc # q.cc)
             /\ HasDouble(f) \/ t.pidCc[w.pid] = NoCc \/ w.cc = (t.pidCc[w.pid] + 1) % CcMod
<1> DEFINE r == f[n + 1]
           w == Out(t, r)
           q == l[r.pid]
<1>1. r \in Packet
  OBVIOUS
<1>2. w.pid = r.pid /\ w.data = r.data /\ w.cc = StampedCc(t, r)
  BY <1>1, OutIsPacket
<1>3. q # None => t.pidCc[r.pid] # NoCc /\ q.cc = t.pidCc[r.pid]
  BY DEF Known
<1>4. CASE NextIsOriginal(f, n, t)
  <2>1. t.pidCc[r.pid] # NoCc => w.cc = (t.pidCc[r.pid] + 1) % CcMod /\ w.cc # t.pidCc[r.pid]
    <3> SUFFICES ASSUME t.pidCc[r.pid] # NoCc
                 PROVE  w.cc = (t.pidCc[r.pid] + 1) % CcMod /\ w.cc # t.pidCc[r.pid]
      OBVIOUS
    <3>1. w.cc = (t.pidCc[r.pid] + 1) % CcMod
      BY <1>2, <1>4 DEF NextIsOriginal, StampedCc
    <3>2. r.pid \in Pids
      BY <1>1 DEF Packet
    <3>3. t.pidCc[r.pid] \in 0..NoCc
      BY <3>2 DEF Tables
    <3>4. t.pidCc[r.pid] \in 0..(CcMod - 1)
      BY <3>3, ContinuityAssumption DEF NoCc
    <3> QED
      BY <3>1, <3>4, NextCounter
  <2> HIDE DEF r, w, q
  <2>2. q # None => Follows(q, w) /\ w.cc # q.cc
    BY <1>3, <2>1 DEF Follows
  <2> QED
    BY <1>2, <2>1, <2>2 DEF r, w, q
<1>5. CASE NextIsCopy(f, n, t, l)
  <2>1. t.pidCc[r.pid] # NoCc /\ IsDouble(t, r) /\ (q # None => q.data = r.data)
        /\ n # 0 /\ HasDouble(f)
    BY <1>5 DEF NextIsCopy
  <2>2. w.cc = t.pidCc[r.pid]
    BY <1>2, <2>1 DEF StampedCc
  <2> HIDE DEF r, w, q
  <2>3. q # None => Follows(q, w)
    BY <1>2, <1>3, <2>1, <2>2 DEF Follows
  <2> QED
    BY <2>1, <2>3 DEF r, w, q
<1>6. ~NextIsEmpty(f, n)
  BY DEF NextIsEmpty
<1> QED
  BY <1>4, <1>5, <1>6, WhatIsNext

-----------------------------------------------------------------------------
(* The inductive invariant.                                                 *)

Types ==
  /\ files \in FileLists /\ open \in DOMAIN files /\ at \in 0..Len(files[open])
  /\ tables \in Tables /\ latest \in Decoders
  /\ check \in CheckTables

NoDoubles == \A i \in DOMAIN files : ~HasDouble(files[i])

LInv ==
  /\ Types
  /\ \A p \in Pids : Known(files[open], at, tables, latest, p)
  /\ check.pidCc = tables.pidCc
  /\ NoDoubles => ~warned

\* A file is a sequence of packets that is not empty.
LEMMA FileIsSeq ==
  ASSUME files \in FileLists, NEW i \in DOMAIN files
  PROVE  files[i] \in Seq(Packet) /\ WellFormed(files[i]) /\ Len(files[i]) \in Nat \ {0}
<1>1. files \in Seq(Seq(Packet)) /\ files[i] # <<>> /\ WellFormed(files[i])
  BY FileListsAssumption
<1>2. files[i] \in Seq(Packet)
  BY <1>1
<1> QED
  BY <1>1, <1>2

\* At the beginning of a file nothing was read of it.
LEMMA NothingReadYet ==
  ASSUME NEW f, NEW t \in Tables, NEW l, NEW p \in Pids, t.previousCc[p] = NoCc,
         l[p] # None => t.pidCc[p] # NoCc /\ l[p].cc = t.pidCc[p]
  PROVE  Known(f, 0, t, l, p)
BY DEF Known, NoneYet

LEMMA InitHolds == Init => LInv
<1> SUFFICES ASSUME Init PROVE LInv
  OBVIOUS
<1>1. /\ files \in FileLists /\ open = 1 /\ at = 0 /\ tables = NewTables
      /\ latest = [p \in Pids |-> None] /\ check = NewCheckTables /\ warned = FALSE
  BY DEF Init, LoopInit
<1>2. open \in DOMAIN files
  <2>1. files # <<>> /\ files \in Seq(Seq(Packet))
    BY <1>1, FileListsAssumption
  <2> QED
    BY <1>1, <2>1
<1>3. NoCc \in 0..NoCc
  BY ContinuityAssumption DEF NoCc
<1>4. tables \in Tables /\ check \in CheckTables /\ latest \in Decoders
  BY <1>1, <1>3 DEF Tables, NewTables, CheckTables, NewCheckTables, Decoders
<1>5. Types
  BY <1>1, <1>2, <1>4, FileIsSeq DEF Types
<1>6. ASSUME NEW p \in Pids PROVE Known(files[open], at, tables, latest, p)
  <2>1. tables.previousCc[p] = NoCc /\ latest[p] = None
    BY <1>1 DEF NewTables
  <2> QED
    BY <1>1, <1>4, <2>1, NothingReadYet
<1>7. check.pidCc = tables.pidCc
  BY <1>1 DEF NewTables, NewCheckTables
<1> QED
  BY <1>1, <1>5, <1>6, <1>7 DEF LInv

\* A packet is read of file f, n packets of which were read, with the tables t.
Reads(f, n, t) ==
  /\ tables' = Stamp(t, f[n + 1])
  /\ written' = Out(t, f[n + 1])
  /\ at' = n + 1 /\ files' = files
  /\ f = files'[open'] /\ open' \in DOMAIN files'
  /\ n \in Nat /\ n < Len(f)
  /\ t \in Tables /\ t.pidCc = tables.pidCc
  /\ \A p \in Pids : Known(f, n, t, latest, p)

\* Both steps of tsloop read one.
LEMMA StepReads ==
  ASSUME LInv, LoopNext
  PROVE  \E f, n, t : Reads(f, n, t)
<1>1. /\ files \in FileLists /\ open \in DOMAIN files /\ at \in 0..Len(files[open])
      /\ tables \in Tables
  BY DEF LInv, Types
<1>2. CASE ReadPacket
  <2>1. Reads(files[open], at, tables)
    BY <1>1, <1>2, FileIsSeq DEF LInv, ReadPacket, Write, Out, Reads
  <2> QED
    BY <2>1
<1>3. CASE ReopenAndRead
  <2> DEFINE t == TablesForNextFile(tables)
  <2>1. open' = (open % Len(files)) + 1 /\ files' = files /\ at' = 1
        /\ Write(files[open'][1], t)
    BY <1>3 DEF ReopenAndRead
  <2>2. open' \in DOMAIN files
    <3>1. files # <<>> /\ files \in Seq(Seq(Packet))
      BY <1>1, FileListsAssumption
    <3>2. Len(files) \in Nat \ {0} /\ open \in 1..Len(files)
      BY <1>1, <3>1
    <3>3. open % Len(files) \in 0..(Len(files) - 1)
      BY <3>2
    <3> QED
      BY <2>1, <3>1, <3>2, <3>3
  <2>3. 0 < Len(files[open'])
    BY <1>1, <2>2, FileIsSeq
  <2>4. NoCc \in 0..NoCc
    BY ContinuityAssumption DEF NoCc
  <2>5. t \in Tables /\ t.pidCc = tables.pidCc /\ \A p \in Pids : t.previousCc[p] = NoCc
    BY <1>1, <2>4 DEF TablesForNextFile, Tables
  <2>6. ASSUME NEW p \in Pids PROVE Known(files[open'], 0, t, latest, p)
    <3>1. latest[p] # None => t.pidCc[p] # NoCc /\ latest[p].cc = t.pidCc[p]
      BY <2>5 DEF LInv, Known
    <3> HIDE DEF t
    <3> QED
      BY <2>5, <3>1, NothingReadYet
  <2> HIDE DEF t
  <2>7. Reads(files[open'], 0, t)
    BY <2>1, <2>2, <2>3, <2>5, <2>6 DEF Reads, Write, Out
  <2> QED
    BY <2>7
<1> QED
  BY <1>2, <1>3 DEF LoopNext

LEMMA NextHolds == LInv /\ [Next]_vars => LInv'
<1> SUFFICES ASSUME LInv, [Next]_vars PROVE LInv'
  OBVIOUS
<1>1. CASE Next
  <2>1. PICK f, n, t : Reads(f, n, t)
    BY <1>1, StepReads DEF Next
  <2> DEFINE r == f[n + 1]
             w == written'
  <2>2. files' \in FileLists /\ f = files'[open'] /\ open' \in DOMAIN files'
        /\ f = files[open'] /\ open' \in DOMAIN files
    BY <2>1 DEF Reads, LInv, Types
  <2>3. f \in Seq(Packet) /\ WellFormed(f) /\ n \in Nat /\ n < Len(f) /\ t \in Tables
        /\ latest \in Decoders /\ \A p \in Pids : Known(f, n, t, latest, p)
    BY <2>1, <2>2, FileIsSeq DEF Reads, LInv, Types
  <2>4. r \in Packet /\ r.pid \in Pids
    <3>1. r \in Packet
      BY <2>3
    <3> QED
      BY <3>1 DEF Packet
  <2>5. tables' = Stamp(t, r) /\ w = Out(t, r) /\ at' = n + 1 /\ t.pidCc = tables.pidCc
    BY <2>1 DEF Reads
  <2>6. /\ w \in Packet /\ w.pid = r.pid /\ w.cc = StampedCc(t, r)
        /\ HasPayload(w) <=> HasPayload(r)
    BY <2>3, <2>4, <2>5, OutIsPacket
  <2>7. latest' = Received(latest, w)
    BY <1>1 DEF Next, Received
  <2>8. Types'
    <3>1. tables' \in Tables
      BY <2>3, <2>4, <2>5, StampTypes
    <3>2. latest' \in Decoders
      BY <2>3, <2>4, <2>6, <2>7 DEF Received, Decoders
    <3>3. w.cc \in 0..NoCc
      BY <2>6, ContinuityAssumption DEF Packet, NoCc
    <3>4. check' \in CheckTables
      <4>1. check' = Check(check, w) /\ check \in CheckTables
        BY <1>1 DEF Next, LInv, Types
      <4>2. FirstRepeat(check, w) \in BOOLEAN
        BY DEF FirstRepeat, Repeats, HasPayload
      <4> HIDE DEF w
      <4> QED
        BY <2>4, <2>6, <3>3, <4>1, <4>2 DEF Check, CheckTables
    <3>5. at' \in 0..Len(f)
      BY <2>3, <2>5
    <3> QED
      BY <2>2, <3>1, <3>2, <3>4, <3>5 DEF Types
  <2>9. \A p \in Pids : Known(files'[open'], at', tables', latest', p)
    BY <2>2, <2>3, <2>5, <2>7, ReadKeepsKnown
  <2>10. check'.pidCc = tables'.pidCc
    <3>1. check'.pidCc = [check.pidCc EXCEPT ![w.pid] = w.cc]
      BY <1>1 DEF Next, Check
    <3>2. tables'.pidCc = [t.pidCc EXCEPT ![r.pid] = StampedCc(t, r)]
      BY <2>5 DEF Stamp
    <3> QED
      BY <2>5, <2>6, <3>1, <3>2 DEF LInv
  <2>11. NoDoubles' => ~warned'
    <3> SUFFICES ASSUME NoDoubles' PROVE ~warned'
      OBVIOUS
    <3>1. ~HasDouble(f) /\ NoDoubles
      BY <2>1, <2>2 DEF NoDoubles, Reads
    <3>2. ~Warns(check, w)
      <4>1. check.pidCc[w.pid] = t.pidCc[r.pid] /\ t.pidCc[w.pid] = t.pidCc[r.pid]
        BY <2>5, <2>6 DEF LInv
      <4>2. CASE ~HasPayload(r)
        BY <2>6, <4>2 DEF Warns, Repeats
      <4>3. CASE HasPayload(r)
        <5>1. t.pidCc[w.pid] = NoCc \/ w.cc = (t.pidCc[w.pid] + 1) % CcMod
          BY <2>3, <2>4, <2>5, <3>1, <4>3, WhatIsWritten
        <5> HIDE DEF w, r
        <5> QED
          BY <4>1, <5>1 DEF Warns, Repeats
      <4> QED
        BY <4>2, <4>3
    <3>3. ~warned
      BY <3>1 DEF LInv
    <3>4. warned' = (warned \/ Warns(check, w))
      BY <1>1 DEF Next
    <3> QED
      BY <3>2, <3>3, <3>4
  <2> QED
    BY <2>8, <2>9, <2>10, <2>11 DEF LInv
<1>2. CASE UNCHANGED vars
  BY <1>2 DEF LInv, Types, NoDoubles, vars, loopVars
<1> QED
  BY <1>1, <1>2

\* At every packet the tables and the decoder know of each PID what they must.
THEOREM Inductive == Spec => []LInv
BY InitHolds, NextHolds, PTL DEF Spec

\* tsccc never reports an error on what tsloop writes of well-formed files without
\* double packets (tsloop.c, tsccc.c).
THEOREM NoWarnings == Spec => []CheckerIsSilent
<1>1. LInv => CheckerIsSilent
  BY DEF LInv, CheckerIsSilent, NoDoubles
<1> QED
  BY <1>1, Inductive, PTL

\* A packet that the decoder gets has the next counter or is a copy, and at the beginning
\* of a file it is never taken for a copy.
LEMMA StepLosesNothing ==
  ASSUME LInv, Next, HasPayload(written'), latest[written'.pid] # None
  PROVE  /\ Follows(latest[written'.pid], written')
         /\ at' = 1 => written'.cc # latest[written'.pid].cc
<1>1. PICK f, n, t : Reads(f, n, t)
  BY StepReads DEF Next
<1>2. f = files[open'] /\ open' \in DOMAIN files /\ files \in FileLists
  BY <1>1 DEF Reads, LInv, Types
<1>3. f \in Seq(Packet) /\ WellFormed(f) /\ n \in Nat /\ n < Len(f) /\ t \in Tables
      /\ latest \in Decoders /\ \A p \in Pids : Known(f, n, t, latest, p)
  BY <1>1, <1>2, FileIsSeq DEF Reads, LInv, Types
<1>4. written' = Out(t, f[n + 1]) /\ at' = n + 1
  BY <1>1 DEF Reads
<1>5. f[n + 1] \in Packet
  BY <1>3
<1>6. f[n + 1].pid \in Pids
  BY <1>5 DEF Packet
<1>7. written'.pid = f[n + 1].pid /\ HasPayload(f[n + 1])
  BY <1>3, <1>4, <1>5, OutIsPacket
<1>8. Known(f, n, t, latest, f[n + 1].pid)
  BY <1>3, <1>6
<1>9. Follows(latest[f[n + 1].pid], written')
      /\ (n = 0 => written'.cc # latest[f[n + 1].pid].cc)
  BY <1>3, <1>4, <1>7, <1>8, WhatIsWritten
<1> QED
  BY <1>3, <1>4, <1>7, <1>9

\* A decoder loses nothing of what tsloop writes and sees no gap, whatever well-formed
\* files it loops, and across the ends of files too (tsloop.c).
THEOREM NothingLost == Spec => DecoderLosesNothing
<1>1. LInv /\ [Next]_vars =>
        [LET p == written'
             q == latest[p.pid]
         IN  HasPayload(p) /\ q # None => Follows(q, p) /\ (at' = 1 => p.cc # q.cc)]_vars
  BY StepLosesNothing DEF vars
<1> QED
  BY <1>1, Inductive, PTL DEF Spec, DecoderLosesNothing

=============================================================================
