---------------------------- MODULE CbrMuxerProofs ----------------------------
(***************************************************************************)
(* What holds of CbrMuxer for any number of inputs, any bitrates and any   *)
(* files: its types, the share of the output that each input gets, and,    *)
(* when each input has one PID of its own, that it loops each of them.     *)
(***************************************************************************)
EXTENDS CbrMuxer, Integers, TLAPS

\* The files are made of packets and none is empty.
Nonempty == \A i \in Inputs : Len(files[i]) # 0

\* The counter a packet is written with is a counter.
LEMMA StampedCcIsCounter ==
  ASSUME NEW t \in Tables, NEW p \in Packet
  PROVE  StampedCc(t, p) \in 0..(CcMod - 1)
<1>1. t.pidCc[p.pid] \in 0..NoCc
  BY DEF Tables, Packet
<1>2. CASE t.pidCc[p.pid] = NoCc
  BY <1>2 DEF StampedCc, Packet
<1>3. CASE t.pidCc[p.pid] # NoCc
  <2>1. t.pidCc[p.pid] \in 0..(CcMod - 1)
    BY <1>1, <1>3, ContinuityAssumption DEF NoCc
  <2>2. (t.pidCc[p.pid] + 1) % CcMod \in 0..(CcMod - 1)
    BY <2>1, ContinuityAssumption
  <2> QED
    BY <1>3, <2>1, <2>2 DEF StampedCc
<1> QED
  BY <1>2, <1>3

\* The tables after a packet are tables.
LEMMA StampIsTables ==
  ASSUME NEW t \in Tables, NEW p \in Packet
  PROVE  Stamp(t, p) \in Tables
<1>1. StampedCc(t, p) \in 0..NoCc
  BY StampedCcIsCounter, ContinuityAssumption DEF NoCc
<1>2. p.cc \in 0..NoCc /\ NoCc \in 0..NoCc /\ p.pid \in Pids
  BY ContinuityAssumption DEF Packet, NoCc
<1> QED
  BY <1>1, <1>2 DEF Stamp, Tables

\* Writing a packet keeps the types of what it changes.
LEMMA WriteKeepsTypes ==
  ASSUME TypeOK, NEW i \in Inputs, NEW p \in Packet, NEW t \in Tables,
         Write(i, p, t)
  PROVE  /\ tables' \in Tables
         /\ written' \in [Inputs -> {None} \cup Packet]
         /\ latest' \in [Pids -> {None} \cup Packet]
<1> DEFINE q == [p EXCEPT !.cc = StampedCc(t, p)]
<1>1. q \in Packet
  BY StampedCcIsCounter DEF Packet
<1>2. q.pid \in Pids
  BY <1>1 DEF Packet
<1>3. tables' \in Tables
  BY StampIsTables DEF Write
<1>4. written' = [written EXCEPT ![i] = q]
  BY DEF Write
<1>5. latest' = IF HasPayload(q) THEN [latest EXCEPT ![q.pid] = q] ELSE latest
  BY DEF Write
<1> HIDE DEF q
<1>6. written' \in [Inputs -> {None} \cup Packet]
  BY <1>1, <1>4 DEF TypeOK
<1>7. latest' \in [Pids -> {None} \cup Packet]
  BY <1>1, <1>2, <1>5 DEF TypeOK
<1> QED
  BY <1>3, <1>6, <1>7

-----------------------------------------------------------------------------
\* Types are correct, given files that are sequences of packets.

IInv == TypeOK /\ Nonempty /\ InProportion

LEMMA InitIInv ==
  ASSUME Init
  PROVE  IInv
<1>1. TypeOK
  <2>1. tables \in Tables
    BY ContinuityAssumption DEF Init, NewTables, Tables, NoCc
  <2> QED
    BY <2>1, FilesAssumption DEF Init, TypeOK
<1>2. Nonempty
  BY FilesAssumption DEF Init, Nonempty
<1>3. InProportion
  BY DEF Init, InProportion
<1> QED
  BY <1>1, <1>2, <1>3 DEF IInv

LEMMA OutputKeepsTypes ==
  ASSUME IInv, NEW i \in Inputs, Output(i)
  PROVE  TypeOK' /\ Nonempty'
<1> USE DEF IInv
<1>1. files' = files /\ packets' = [packets EXCEPT ![i] = @ + 1]
  BY DEF Output
<1>2. packets' \in [Inputs -> Nat]
  BY <1>1 DEF TypeOK
<1>3. /\ at' \in [Inputs -> Nat] /\ \A j \in Inputs : at'[j] <= Len(files'[j])
      /\ tables' \in Tables
      /\ written' \in [Inputs -> {None} \cup Packet]
      /\ latest' \in [Pids -> {None} \cup Packet]
  <2>1. files[i] \in Seq(Packet) /\ Len(files[i]) \in Nat \ {0}
    BY DEF TypeOK, Nonempty
  <2>2. CASE ReadPacket(i)
    <3>1. at[i] \in Nat /\ at[i] < Len(files[i]) /\ at' = [at EXCEPT ![i] = @ + 1]
      BY <2>1, <2>2 DEF ReadPacket, TypeOK
    <3>2. files[i][at[i] + 1] \in Packet
      BY <2>1, <3>1
    <3>3. Write(i, files[i][at[i] + 1], tables)
      BY <2>2 DEF ReadPacket
    <3>4. at' \in [Inputs -> Nat] /\ \A j \in Inputs : at'[j] <= Len(files'[j])
      BY <1>1, <2>1, <3>1 DEF TypeOK
    <3> QED
      BY <3>2, <3>3, <3>4, WriteKeepsTypes DEF TypeOK
  <2>3. CASE ReopenAndRead(i)
    <3>1. files[i][1] \in Packet
      BY <2>1
    <3>2. TablesForReopened(tables, files[i][1]) \in Tables
      <4>1. tables \in Tables /\ NoCc \in 0..NoCc /\ files[i][1].pid \in Pids
        BY <3>1, ContinuityAssumption DEF TypeOK, NoCc, Packet
      <4>2. tables.previousCc \in [Pids -> 0..NoCc]
        BY <4>1 DEF Tables
      <4>3. [tables.previousCc EXCEPT ![files[i][1].pid] = NoCc] \in [Pids -> 0..NoCc]
        BY <4>1, <4>2
      <4>4. TablesForReopened(tables, files[i][1])
              = [tables EXCEPT !.previousCc =
                   [tables.previousCc EXCEPT ![files[i][1].pid] = NoCc]]
        BY DEF TablesForReopened
      <4> QED
        BY <4>1, <4>3, <4>4 DEF Tables
    <3>3. Write(i, files[i][1], TablesForReopened(tables, files[i][1]))
      BY <2>3 DEF ReopenAndRead
    <3>4. at' \in [Inputs -> Nat] /\ \A j \in Inputs : at'[j] <= Len(files'[j])
      BY <1>1, <2>1, <2>3 DEF ReopenAndRead, TypeOK
    <3> QED
      BY <3>1, <3>2, <3>3, <3>4, WriteKeepsTypes
  <2> QED
    BY <2>2, <2>3 DEF Output
<1> QED
  BY <1>1, <1>2, <1>3 DEF TypeOK, Nonempty

\* The chosen input has had the least output, so it gets at most one packet ahead.
LEMMA ChosenKeepsProportion ==
  ASSUME IInv, NEW i \in Inputs, Output(i)
  PROVE  InProportion'
<1> USE DEF IInv
<1>1. packets \in [Inputs -> Nat] /\ packets' = [packets EXCEPT ![i] = @ + 1]
  BY DEF TypeOK, Output
<1>2. ASSUME NEW j \in Inputs
      PROVE  packets[i] * Bps[j] <= packets[j] * Bps[i]
  <2>1. /\ packets[i] \in Nat /\ packets[j] \in Nat
        /\ Bps[i] \in Nat /\ Bps[j] \in Nat
    BY <1>1, <1>2, CbrMuxerAssumption
  <2>2. LessOutput(i, j) \/ ~LessOutput(j, i)
    BY <1>2 DEF Output, IsChosen
  <2>3. packets[i] * Bps[j] \in Int /\ packets[j] * Bps[i] \in Int
    BY <2>1
  <2> QED
    BY <2>2, <2>3 DEF LessOutput
<1>3. ASSUME NEW j \in Inputs, NEW k \in Inputs, packets'[j] > 0
      PROVE  (packets'[j] - 1) * Bps[k] <= packets'[k] * Bps[j]
  <2>1. /\ packets[j] \in Nat /\ packets[k] \in Nat
        /\ Bps[j] \in Nat /\ Bps[k] \in Nat
    BY <1>1, <1>3, CbrMuxerAssumption
  <2>2. packets[k] * Bps[j] <= packets'[k] * Bps[j]
    <3>1. CASE k = i
      <4>1. packets'[k] * Bps[j] = packets[k] * Bps[j] + Bps[j]
        BY <1>1, <1>3, <2>1, <3>1
      <4> QED
        BY <2>1, <4>1
    <3>2. CASE k # i
      BY <1>1, <1>3, <2>1, <3>2
    <3> QED
      BY <3>1, <3>2
  <2>3. (packets'[j] - 1) * Bps[k] <= packets[k] * Bps[j]
    <3>1. CASE j = i
      BY <1>1, <1>2, <1>3, <2>1, <3>1
    <3>2. CASE j # i
      BY <1>1, <1>3, <2>1, <3>2 DEF InProportion
    <3> QED
      BY <3>1, <3>2
  <2>4. /\ (packets'[j] - 1) * Bps[k] \in Int
        /\ packets[k] * Bps[j] \in Int /\ packets'[k] * Bps[j] \in Int
    BY <1>1, <1>3, <2>1
  <2> QED
    BY <2>2, <2>3, <2>4
<1> QED
  BY <1>3 DEF InProportion

-----------------------------------------------------------------------------
LEMMA NextIInv ==
  ASSUME IInv, [Next]_vars
  PROVE  IInv'
<1>1. CASE Next
  <2>1. PICK i \in Inputs : Output(i)
    BY <1>1 DEF Next
  <2> QED
    BY <2>1, OutputKeepsTypes, ChosenKeepsProportion DEF IInv
<1>2. CASE UNCHANGED vars
  BY <1>2 DEF vars, IInv, TypeOK, Nonempty, InProportion
<1> QED
  BY <1>1, <1>2

THEOREM Inductive ==
  Spec => []IInv
<1>1. Init => IInv
  BY InitIInv
<1>2. IInv /\ [Next]_vars => IInv'
  BY NextIInv
<1> QED
  BY <1>1, <1>2, PTL DEF Spec

\* Types are correct.
THEOREM TypeCorrect ==
  Spec => []TypeOK
BY Inductive, PTL DEF IInv

\* Whatever the bitrates and however many inputs, no input is ever more than one packet
\* ahead of another: the mux neither starves nor floods an input.
THEOREM Proportional ==
  Spec => []InProportion
BY Inductive, PTL DEF IInv

-----------------------------------------------------------------------------
(* Each input with a PID of its own is looped.                               *)

\* Each input has one PID, and no other input has it.
OnePidEach ==
  /\ \A i \in Inputs : \E p \in Pids : PidsOf(i) = {p}
  /\ \A i, j \in Inputs : i # j => PidsOf(i) \cap PidsOf(j) = {}

\* What the refinement rests on.
LInv == TypeOK /\ Nonempty /\ OnePidEach

\* What is left of the tables t with the PIDs of P alone.
Own(P, t) ==
  [pidCc |-> [q \in Pids |-> IF q \in P THEN t.pidCc[q] ELSE NoCc],
   previousCc |-> [q \in Pids |-> IF q \in P THEN t.previousCc[q] ELSE NoCc]]

LEMMA OwnIsOwn ==
  ASSUME NEW i \in Inputs
  PROVE  OwnTables(i) = Own(PidsOf(i), tables)
BY DEF OwnTables, Own

\* A packet of a PID is restamped with the entries of that PID, and changes them alone.
LEMMA StampOwn ==
  ASSUME NEW t \in Tables, NEW p \in Packet, NEW P \in SUBSET Pids
  PROVE  /\ StampedCc(Own({p.pid}, t), p) = StampedCc(t, p)
         /\ Own({p.pid}, Stamp(t, p)) = Stamp(Own({p.pid}, t), p)
         /\ p.pid \notin P => Own(P, Stamp(t, p)) = Own(P, t)
<1> DEFINE o == Own({p.pid}, t)
<1>1. p.pid \in Pids
  BY DEF Packet
<1>2. t.pidCc \in [Pids -> 0..NoCc] /\ t.previousCc \in [Pids -> 0..NoCc]
  BY DEF Tables
<1>3. /\ o.pidCc = [q \in Pids |-> IF q = p.pid THEN t.pidCc[p.pid] ELSE NoCc]
      /\ o.previousCc = [q \in Pids |-> IF q = p.pid THEN t.previousCc[p.pid] ELSE NoCc]
  BY DEF Own
<1> HIDE DEF o
<1>4. o.pidCc[p.pid] = t.pidCc[p.pid] /\ o.previousCc[p.pid] = t.previousCc[p.pid]
  BY <1>1, <1>3
<1>5. StampedCc(o, p) = StampedCc(t, p) /\ IsDouble(o, p) = IsDouble(t, p)
  BY <1>4 DEF StampedCc, IsDouble
<1> DEFINE c == StampedCc(t, p)
           d == IF t.pidCc[p.pid] = NoCc THEN p.cc
                ELSE IF ~HasPayload(p) THEN t.previousCc[p.pid]
                ELSE IF IsDouble(t, p) THEN NoCc
                ELSE p.cc
<1>6. Stamp(t, p) = [pidCc |-> [t.pidCc EXCEPT ![p.pid] = c],
                     previousCc |-> [t.previousCc EXCEPT ![p.pid] = d]]
  BY DEF Stamp
<1>7. Stamp(o, p) = [pidCc |-> [o.pidCc EXCEPT ![p.pid] = c],
                     previousCc |-> [o.previousCc EXCEPT ![p.pid] = d]]
  BY <1>4, <1>5 DEF Stamp
<1> HIDE DEF c, d
<1>8. Own({p.pid}, Stamp(t, p)) = Stamp(o, p)
  <2>1. [q \in Pids |-> IF q \in {p.pid} THEN [t.pidCc EXCEPT ![p.pid] = c][q] ELSE NoCc]
          = [o.pidCc EXCEPT ![p.pid] = c]
    BY <1>1, <1>2, <1>3
  <2>2. [q \in Pids |-> IF q \in {p.pid} THEN [t.previousCc EXCEPT ![p.pid] = d][q] ELSE NoCc]
          = [o.previousCc EXCEPT ![p.pid] = d]
    BY <1>1, <1>2, <1>3
  <2> QED
    BY <1>6, <1>7, <2>1, <2>2 DEF Own
<1>9. ASSUME p.pid \notin P PROVE Own(P, Stamp(t, p)) = Own(P, t)
  <2>1. \A q \in Pids : q \in P => [t.pidCc EXCEPT ![p.pid] = c][q] = t.pidCc[q]
    BY <1>2, <1>9
  <2>2. \A q \in Pids : q \in P => [t.previousCc EXCEPT ![p.pid] = d][q] = t.previousCc[q]
    BY <1>2, <1>9
  <2> QED
    BY <1>6, <2>1, <2>2 DEF Own
<1> QED
  BY <1>5, <1>8, <1>9 DEF o

\* Opening the file of the PID again forgets what was read of it, and nothing else.
LEMMA ReopenOwn ==
  ASSUME NEW t \in Tables, NEW p \in Packet, NEW P \in SUBSET Pids
  PROVE  /\ TablesForReopened(t, p) \in Tables
         /\ Own({p.pid}, TablesForReopened(t, p))
              = [Own({p.pid}, t) EXCEPT !.previousCc = [q \in Pids |-> NoCc]]
         /\ p.pid \notin P => Own(P, TablesForReopened(t, p)) = Own(P, t)
<1> DEFINE f == [t.previousCc EXCEPT ![p.pid] = NoCc]
           r == TablesForReopened(t, p)
<1>1. t.pidCc \in [Pids -> 0..NoCc] /\ t.previousCc \in [Pids -> 0..NoCc] /\ p.pid \in Pids
  BY DEF Tables, Packet
<1>2. NoCc \in 0..NoCc
  BY ContinuityAssumption DEF NoCc
<1>3. f \in [Pids -> 0..NoCc]
  BY <1>1, <1>2
<1>4. r = [t EXCEPT !.previousCc = f]
  BY DEF TablesForReopened
<1>5. r \in Tables /\ r.pidCc = t.pidCc /\ r.previousCc = f
  BY <1>3, <1>4 DEF Tables
<1>6. \A q \in Pids : /\ q = p.pid => f[q] = NoCc
                      /\ q # p.pid => f[q] = t.previousCc[q]
  BY <1>1
<1> HIDE DEF r, f
<1>7. Own({p.pid}, r) = [pidCc |-> Own({p.pid}, t).pidCc, previousCc |-> [q \in Pids |-> NoCc]]
  BY <1>5, <1>6 DEF Own
<1>8. [Own({p.pid}, t) EXCEPT !.previousCc = [q \in Pids |-> NoCc]]
        = [pidCc |-> Own({p.pid}, t).pidCc, previousCc |-> [q \in Pids |-> NoCc]]
  <2>1. \A a, b, c : [[pidCc |-> a, previousCc |-> b] EXCEPT !.previousCc = c]
                     = [pidCc |-> a, previousCc |-> c]
    OBVIOUS
  <2> DEFINE a == [q \in Pids |-> IF q \in {p.pid} THEN t.pidCc[q] ELSE NoCc]
             b == [q \in Pids |-> IF q \in {p.pid} THEN t.previousCc[q] ELSE NoCc]
             c == [q \in Pids |-> NoCc]
  <2>2. Own({p.pid}, t) = [pidCc |-> a, previousCc |-> b]
    BY DEF Own
  <2> HIDE DEF a, b, c
  <2>3. [Own({p.pid}, t) EXCEPT !.previousCc = c] = [pidCc |-> a, previousCc |-> c]
    BY <2>1, <2>2
  <2>4. Own({p.pid}, t).pidCc = a
    BY <2>2
  <2> QED
    BY <2>3, <2>4 DEF c
<1>9. p.pid \notin P => Own(P, r) = Own(P, t)
  BY <1>5, <1>6 DEF Own
<1> QED
  BY <1>5, <1>7, <1>8, <1>9 DEF r

\* The PIDs of the packets of the files, which stay what they are.
LEMMA PidOfPacket ==
  ASSUME LInv, NEW i \in Inputs, NEW k \in 1..Len(files[i])
  PROVE  /\ files[i][k] \in Packet /\ PidsOf(i) = {files[i][k].pid}
         /\ \A j \in Inputs \ {i} : PidsOf(j) \in SUBSET Pids /\ files[i][k].pid \notin PidsOf(j)
<1>1. \A j \in Inputs : files[j] \in Seq(Packet)
  BY DEF LInv, TypeOK
<1>2. \A j \in Inputs : PidsOf(j) \in SUBSET Pids
  <2> SUFFICES ASSUME NEW j \in Inputs, NEW k0 \in DOMAIN files[j]
               PROVE  files[j][k0].pid \in Pids
    BY DEF PidsOf
  <2>1. files[j][k0] \in Packet
    BY <1>1
  <2> QED
    BY <2>1 DEF Packet
<1>3. files[i][k] \in Packet /\ files[i][k].pid \in PidsOf(i)
  BY <1>1 DEF PidsOf
<1>4. PidsOf(i) = {files[i][k].pid}
  BY <1>3 DEF LInv, OnePidEach
<1> QED
  BY <1>2, <1>3, <1>4 DEF LInv, OnePidEach

\* What a packet of input i changes of that input.
LEMMA Written ==
  ASSUME LInv, NEW i \in Inputs, NEW p \in Packet, NEW t, Write(i, p, t),
         NEW n, at' = [at EXCEPT ![i] = n]
  PROVE  /\ at'[i] = n /\ tables' = Stamp(t, p)
         /\ written'[i] = [p EXCEPT !.cc = StampedCc(t, p)]
<1> DEFINE q == [p EXCEPT !.cc = StampedCc(t, p)]
<1>1. tables' = Stamp(t, p) /\ written' = [written EXCEPT ![i] = q]
  BY DEF Write
<1> HIDE DEF q
<1>2. written'[i] = q
  BY <1>1 DEF LInv, TypeOK
<1>3. at'[i] = n
  BY DEF LInv, TypeOK
<1> QED
  BY <1>1, <1>2, <1>3 DEF q

\* The loops of the other inputs do not notice it.
LEMMA OtherLoopsStutter ==
  ASSUME LInv, NEW i \in Inputs, NEW p \in Packet, NEW t \in Tables, Write(i, p, t),
         files' = files, NEW n, at' = [at EXCEPT ![i] = n],
         NEW j \in Inputs \ {i}, PidsOf(j) \in SUBSET Pids, p.pid \notin PidsOf(j),
         Own(PidsOf(j), t) = Own(PidsOf(j), tables)
  PROVE  UNCHANGED Loop(j)!loopVars
<1>1. tables' = Stamp(t, p) /\ written'[j] = written[j] /\ at'[j] = at[j]
  BY DEF Write, LInv, TypeOK
<1>2. PidsOf(j)' = PidsOf(j) /\ OwnTables(j)' = Own(PidsOf(j)', tables')
  BY DEF PidsOf, OwnTables, Own
<1>3. OwnTables(j)' = OwnTables(j)
  BY <1>1, <1>2, StampOwn, OwnIsOwn
<1> QED
  BY <1>1, <1>3 DEF Loop!loopVars

\* A packet that input i writes is a step of the loop of i alone.
LEMMA OutputLoops ==
  ASSUME LInv, NEW i \in Inputs, Output(i)
  PROVE  \A j \in Inputs : [Loop(j)!LoopNext]_(Loop(j)!loopVars)
<1>1. files' = files /\ (ReadPacket(i) \/ ReopenAndRead(i))
  BY DEF Output
<1>2. tables \in Tables /\ files[i] \in Seq(Packet) /\ at[i] \in 0..Len(files[i])
      /\ Len(files[i]) \in Nat \ {0}
  BY DEF LInv, TypeOK, Nonempty
<1>3. /\ Len(<<files[i]>>) = 1 /\ <<files[i]>>[1] = files[i] /\ (1 % 1) + 1 = 1
      /\ <<files'[i]>> = <<files[i]>>
  BY <1>1
<1>4. CASE ReadPacket(i)
  <2> DEFINE p == files[i][at[i] + 1]
  <2>1. at[i] + 1 \in 1..Len(files[i]) /\ at' = [at EXCEPT ![i] = at[i] + 1] /\ Write(i, p, tables)
    BY <1>2, <1>4 DEF ReadPacket
  <2>2. /\ p \in Packet /\ PidsOf(i) = {p.pid}
        /\ \A j \in Inputs \ {i} : PidsOf(j) \in SUBSET Pids /\ p.pid \notin PidsOf(j)
    BY <2>1, PidOfPacket
  <2> HIDE DEF p
  <2>3. \A j \in Inputs \ {i} : UNCHANGED Loop(j)!loopVars
    BY <1>1, <1>2, <2>1, <2>2, OtherLoopsStutter
  <2>4. /\ at'[i] = at[i] + 1 /\ tables' = Stamp(tables, p)
        /\ written'[i] = [p EXCEPT !.cc = StampedCc(tables, p)]
    BY <2>1, <2>2, Written
  <2>5. /\ OwnTables(i)' = Stamp(OwnTables(i), p)
        /\ written'[i] = [p EXCEPT !.cc = StampedCc(OwnTables(i), p)]
    <3>1. PidsOf(i)' = PidsOf(i) /\ OwnTables(i)' = Own(PidsOf(i)', tables')
      BY <1>1 DEF PidsOf, OwnTables, Own
    <3>2. OwnTables(i) = Own({p.pid}, tables)
      BY <2>2, OwnIsOwn
    <3>3. /\ StampedCc(Own({p.pid}, tables), p) = StampedCc(tables, p)
          /\ Own({p.pid}, Stamp(tables, p)) = Stamp(Own({p.pid}, tables), p)
      BY <1>2, <2>2, StampOwn
    <3> QED
      BY <2>2, <2>4, <3>1, <3>2, <3>3
  <2>6. Loop(i)!Write(p, OwnTables(i))
    BY <2>5 DEF Loop!Write, Loop!Stamp, Stamp, Loop!StampedCc, StampedCc, Loop!IsDouble,
                IsDouble, Loop!HasPayload, HasPayload, Loop!NoCc, NoCc
  <2>7. Loop(i)!ReadPacket
    BY <1>2, <1>3, <2>1, <2>4, <2>6 DEF Loop!ReadPacket, p
  <2> QED
    BY <2>3, <2>7 DEF Loop!LoopNext
<1>5. CASE ReopenAndRead(i)
  <2> DEFINE p == files[i][1]
             t == TablesForReopened(tables, p)
  <2>1. at[i] = Len(files[i]) /\ at' = [at EXCEPT ![i] = 1] /\ Write(i, p, t)
    BY <1>5 DEF ReopenAndRead
  <2>2. /\ p \in Packet /\ PidsOf(i) = {p.pid}
        /\ \A j \in Inputs \ {i} : PidsOf(j) \in SUBSET Pids /\ p.pid \notin PidsOf(j)
    <3>1. 1 \in 1..Len(files[i])
      BY <1>2
    <3> QED
      BY <3>1, PidOfPacket
  <2>3. /\ t \in Tables
        /\ Own({p.pid}, t) = [Own({p.pid}, tables) EXCEPT !.previousCc = [q \in Pids |-> NoCc]]
        /\ \A j \in Inputs \ {i} : Own(PidsOf(j), t) = Own(PidsOf(j), tables)
    BY <1>2, <2>2, ReopenOwn
  <2> HIDE DEF p, t
  <2>4. \A j \in Inputs \ {i} : UNCHANGED Loop(j)!loopVars
    BY <1>1, <2>1, <2>2, <2>3, OtherLoopsStutter
  <2>5. /\ at'[i] = 1 /\ tables' = Stamp(t, p)
        /\ written'[i] = [p EXCEPT !.cc = StampedCc(t, p)]
    BY <2>1, <2>2, Written
  <2> DEFINE o == Loop(i)!TablesForNextFile(OwnTables(i))
  <2>6. o = Own({p.pid}, t)
    BY <2>2, <2>3, OwnIsOwn DEF Loop!TablesForNextFile, Loop!NoCc, NoCc
  <2> HIDE DEF o
  <2>7. /\ OwnTables(i)' = Stamp(o, p)
        /\ written'[i] = [p EXCEPT !.cc = StampedCc(o, p)]
    <3>1. PidsOf(i)' = PidsOf(i) /\ OwnTables(i)' = Own(PidsOf(i)', tables')
      BY <1>1 DEF PidsOf, OwnTables, Own
    <3> QED
      BY <2>2, <2>3, <2>5, <2>6, <3>1, StampOwn
  <2>8. Loop(i)!Write(p, o)
    BY <2>7 DEF Loop!Write, Loop!Stamp, Stamp, Loop!StampedCc, StampedCc, Loop!IsDouble,
                IsDouble, Loop!HasPayload, HasPayload, Loop!NoCc, NoCc
  <2>9. Loop(i)!ReopenAndRead
    BY <1>3, <2>1, <2>5, <2>8 DEF Loop!ReopenAndRead, p, o
  <2> QED
    BY <2>4, <2>9 DEF Loop!LoopNext
<1> QED
  BY <1>1, <1>4, <1>5

\* The files never change.
LEMMA OnePidEachStays ==
  ASSUME OnePidEach, files' = files
  PROVE  OnePidEach'
<1>1. \A i \in Inputs : PidsOf(i)' = PidsOf(i)
  BY DEF PidsOf
<1> QED
  BY <1>1 DEF OnePidEach

\* Multiplexing leaves no trace in the counters: each input that has one PID of its own is
\* looped as tsloop would loop it alone, for any number of inputs, bitrates and files.
THEOREM Refinement ==
  ASSUME \A fs \in FileChoices :
           /\ \A i \in Inputs : \E p \in Pids : {fs[i][k].pid : k \in DOMAIN fs[i]} = {p}
           /\ \A i, j \in Inputs :
                i # j => {fs[i][k].pid : k \in DOMAIN fs[i]}
                           \cap {fs[j][k].pid : k \in DOMAIN fs[j]} = {}
  PROVE  Spec => ImplementsLoops
<1>1. Init => OnePidEach
  BY DEF Init, OnePidEach, PidsOf
<1>2. OnePidEach /\ [Next]_vars => OnePidEach'
  <2>1. [Next]_vars => files' = files
    BY DEF Next, Output, vars
  <2> QED
    BY <2>1, OnePidEachStays
<1>3. Init => \A i \in Inputs : Loop(i)!LoopInit
  BY DEF Loop!LoopInit, Init, OwnTables, Loop!NewTables, NewTables, Loop!None, None, Loop!NoCc,
         NoCc
<1>4. IInv /\ OnePidEach /\ [Next]_vars
        => [\A i \in Inputs : [Loop(i)!LoopNext]_(Loop(i)!loopVars)]_vars
  <2> SUFFICES ASSUME IInv, OnePidEach, Next
               PROVE  \A i \in Inputs : [Loop(i)!LoopNext]_(Loop(i)!loopVars)
    OBVIOUS
  <2>1. LInv
    BY DEF IInv, LInv
  <2>2. PICK i \in Inputs : Output(i)
    BY DEF Next
  <2> QED
    BY <2>1, <2>2, OutputLoops
<1> QED
  BY <1>1, <1>2, <1>3, <1>4, Inductive, PTL DEF Spec, ImplementsLoops

=============================================================================
