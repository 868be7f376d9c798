--------------------------- MODULE ShapingProofs ---------------------------
(***************************************************************************)
(* Proofs about the tools of Shaping, each for any rates, any sizes of its *)
(* buffers and any input:                                                  *)
(*                                                                         *)
(*   tsnullfiller   as long as the products of its counters do not wrap    *)
(*                  (for 30 hours, at 13 Mbit/s), the output has the rate  *)
(*                  that was asked for, and what one input buffer gives    *)
(*                  fits the output buffer, in the pipe as it does alone   *)
(*   tsnullshaper   no timed file is read more often than it should be,    *)
(*                  and none falls behind                                  *)
(*   tspcrstamp     the PCRs follow the positions of their packets, and    *)
(*                  tspcrmeasure reports what was stamped                  *)
(*   tsvbr2cbr      the output keeps in step with the PCRs of an input of  *)
(*                  a steady bitrate                                       *)
(***************************************************************************)
EXTENDS Shaping, WellFoundedInduction, FiniteSetTheorems, TLAPS

-----------------------------------------------------------------------------
(* Numbers.                                                                  *)

LEMMA MaxOfTwo ==
  ASSUME NEW a \in Nat, NEW b \in Nat
  PROVE  Max({a, b}) \in Nat /\ a <= Max({a, b}) /\ b <= Max({a, b})
<1>1. \E x \in {a, b} : \A y \in {a, b} : x >= y
  OBVIOUS
<1> QED
  BY <1>1 DEF Max

LEMMA LeastNumber ==
  ASSUME NEW S, S \subseteq Nat, S # {}
  PROVE  \E m \in S : \A n \in S : m <= n
<1> DEFINE R == OpToRel(<, Nat)
<1>1. IsWellFoundedOn(R, Nat)
  BY NatLessThanWellFounded
<1>2. \A x, y \in Nat : <<x, y>> \in R <=> x < y
  BY DEF OpToRel
<1> HIDE DEF R
<1>3. PICK m \in S : \A n \in S : ~(<<n, m>> \in R)
  BY <1>1, WFMin
<1>4. ASSUME NEW n \in S PROVE m <= n
  <2>1. m \in Nat /\ n \in Nat /\ ~(<<n, m>> \in R)
    BY <1>3
  <2>2. ~(n < m)
    BY <1>2, <2>1, Zenon
  <2> QED
    BY <2>1, <2>2
<1> QED
  BY <1>4

-----------------------------------------------------------------------------
(* tsnullfiller.                                                             *)

\* The products that NullDue compares are below 2^64.
NoWrap == (ocounter + 1) * ibits < Word /\ icounter * obits < Word

\* The types, for packets of a set P.
FillerTypes(P) ==
  /\ input \in Seq(P)
  /\ ibuffer \in [1..FillPackets -> P]
  /\ inext \in 1..(FillPackets + 1)
  /\ icounter \in Nat /\ ocounter \in Nat
  /\ obuffer \in Seq(P)

\* The output is never ahead of its rate.
NotAhead == ocounter * ibits <= icounter * obits /\ icounter <= ocounter

\* When the input buffer was read, less than a packet was missing from the output: since
\* then inext - 1 packets were copied, and Len(obuffer) were put out.
KeptUpAtRead ==
  IF inext > FillPackets /\ obuffer = <<>>
  THEN icounter * obits < (ocounter + 1) * ibits
  ELSE (icounter - (inext - 1)) * obits < (ocounter - Len(obuffer) + 1) * ibits

FInv(P) == FillerTypes(P) /\ NotAhead /\ KeptUpAtRead

LEMMA BelowWord ==
  ASSUME NEW x \in Nat, NEW w \in Nat, x < w
  PROVE  x % w = x
OBVIOUS

LEMMA Distributes ==
  ASSUME NEW a \in Int, NEW b \in Int, NEW c \in Int
  PROVE  (a + b) * c = a * c + b * c /\ (a - b) * c = a * c - b * c
OBVIOUS

LEMMA ProductKeepsOrder ==
  ASSUME NEW a \in Nat, NEW b \in Nat, NEW c \in Nat \ {0}
  PROVE  /\ a <= b => a * c <= b * c
         /\ a < b <=> a * c < b * c
         /\ a * c \in Nat /\ a <= a * c
OBVIOUS

\* A bound of a product is one of the quotient.
LEMMA QuotientBounds ==
  ASSUME NEW n \in Nat, NEW b \in Nat \ {0}, NEW x \in Nat, (n - 1) * b < x
  PROVE  n - 1 <= x \div b
OBVIOUS

\* While the products do not wrap, NullDue compares what it means to compare.
LEMMA NullDueMeans ==
  ASSUME Filler!FillerAssumption, icounter \in Nat, ocounter \in Nat, NoWrap
  PROVE  /\ Filler!NullDue <=> (ocounter + 1) * ibits <= icounter * obits
         /\ ocounter + 1 < Word
<1>1. /\ (ocounter + 1) * ibits \in Nat /\ ocounter + 1 <= (ocounter + 1) * ibits
      /\ icounter * obits \in Nat
  BY ProductKeepsOrder DEF Filler!FillerAssumption
<1>2. /\ ((ocounter + 1) * ibits) % Word = (ocounter + 1) * ibits
      /\ (icounter * obits) % Word = icounter * obits
  BY <1>1, BelowWord DEF Filler!FillerAssumption, NoWrap
<1>3. ocounter + 1 < Word
  BY <1>1 DEF Filler!FillerAssumption, NoWrap
<1> QED
  BY <1>2, <1>3 DEF Filler!NullDue

LEMMA FillerInitHolds ==
  ASSUME Filler!FillerAssumption, NEW P, Unset \in P, Filler!FillerInit, input \in Seq(P)
  PROVE  FInv(P)
<1>1. FillerTypes(P)
  BY DEF Filler!FillerAssumption, Filler!FillerInit, FillerTypes
<1>2. NotAhead /\ KeptUpAtRead
  BY DEF Filler!FillerAssumption, Filler!FillerInit, NotAhead, KeptUpAtRead
<1> QED
  BY <1>1, <1>2 DEF FInv

\* What is read fills the buffer, and the input is a sequence still.
LEMMA ReadKeepsTypes ==
  ASSUME Filler!FillerAssumption, NEW P, FillerTypes(P), Filler!FillerRead
  PROVE  FillerTypes(P)'
<1>1. Filler!Refilled(ibuffer, input, FillPackets) \in [1..FillPackets -> P]
  <2>1. CASE Len(input) >= FillPackets
    <3>1. /\ Filler!Refilled(ibuffer, input, FillPackets) \in Seq(P)
          /\ Len(Filler!Refilled(ibuffer, input, FillPackets)) = FillPackets
      BY <2>1 DEF Filler!FillerAssumption, FillerTypes, Filler!Refilled
    <3>2. Filler!Refilled(ibuffer, input, FillPackets)
            \in [1..Len(Filler!Refilled(ibuffer, input, FillPackets)) -> P]
      BY <3>1
    <3> QED
      BY <3>1, <3>2
  <2>2. CASE Len(input) < FillPackets
    <3>1. ibuffer \in Seq(P) /\ Len(ibuffer) = FillPackets
      BY DEF Filler!FillerAssumption, FillerTypes
    <3>2. /\ SubSeq(ibuffer, Len(input) + 1, FillPackets) \in Seq(P)
          /\ Len(SubSeq(ibuffer, Len(input) + 1, FillPackets)) = FillPackets - Len(input)
      BY <2>2, <3>1 DEF Filler!FillerAssumption, FillerTypes
    <3>3. /\ Filler!Refilled(ibuffer, input, FillPackets) \in Seq(P)
          /\ Len(Filler!Refilled(ibuffer, input, FillPackets)) = FillPackets
      BY <2>2, <3>2 DEF Filler!FillerAssumption, FillerTypes, Filler!Refilled
    <3>4. Filler!Refilled(ibuffer, input, FillPackets)
            \in [1..Len(Filler!Refilled(ibuffer, input, FillPackets)) -> P]
      BY <3>3
    <3> QED
      BY <3>3, <3>4
  <2> QED
    BY <2>1, <2>2 DEF Filler!FillerAssumption, FillerTypes
<1>2. Filler!Rest(input, FillPackets) \in Seq(P)
  BY DEF Filler!FillerAssumption, FillerTypes, Filler!Rest
<1> QED
  BY <1>1, <1>2 DEF Filler!FillerAssumption, Filler!FillerRead, FillerTypes

LEMMA ReadKeepsRate ==
  ASSUME Filler!FillerAssumption, NEW P, FInv(P), Filler!FillerRead
  PROVE  NotAhead' /\ KeptUpAtRead'
BY DEF Filler!FillerAssumption, FInv, FillerTypes, NotAhead, KeptUpAtRead, Filler!FillerRead

\* A packet is copied only when there is no time for a null packet before it: the output
\* stays behind its rate, because it is faster than the input.
LEMMA CopyKeepsInv ==
  ASSUME Filler!FillerAssumption, NEW P, FInv(P), NoWrap, Filler!CopyPacket
  PROVE  FInv(P)'
<1> USE DEF Filler!FillerAssumption
<1>1. /\ inext \in 1..FillPackets /\ inext' = inext + 1
      /\ obuffer' = Append(obuffer, ibuffer[inext]) /\ ibuffer[inext] \in P
      /\ UNCHANGED <<input, ibuffer>>
  BY DEF Filler!CopyPacket, FInv, FillerTypes
<1>2. icounter' = icounter + 1 /\ ocounter' = ocounter + 1
  <2>1. icounter + 1 < Word /\ ocounter + 1 < Word
    BY NullDueMeans DEF FInv, FillerTypes, NotAhead
  <2>2. (icounter + 1) % Word = icounter + 1 /\ (ocounter + 1) % Word = ocounter + 1
    <3>1. icounter + 1 \in Nat /\ ocounter + 1 \in Nat /\ Word \in Nat
      BY DEF FInv, FillerTypes
    <3> QED
      BY <2>1, <3>1, BelowWord, Zenon
  <2> QED
    BY <2>2 DEF Filler!CopyPacket
<1>3. FillerTypes(P)'
  BY <1>1, <1>2 DEF FInv, FillerTypes
<1>4. NotAhead'
  <2>1. /\ ocounter' * ibits = ocounter * ibits + ibits
        /\ icounter' * obits = icounter * obits + obits
        /\ ocounter * ibits \in Int /\ icounter * obits \in Int
    BY <1>2, Distributes DEF FInv, FillerTypes
  <2> QED
    BY <1>2, <2>1 DEF FInv, FillerTypes, NotAhead
<1>5. KeptUpAtRead'
  <2>1. obuffer' # <<>> /\ Len(obuffer') = Len(obuffer) + 1
    BY <1>1 DEF FInv, FillerTypes
  <2>2. (icounter - (inext - 1)) * obits < (ocounter - Len(obuffer) + 1) * ibits
    BY <1>1 DEF FInv, KeptUpAtRead
  <2>3. /\ icounter' - (inext' - 1) = icounter - (inext - 1)
        /\ ocounter' - Len(obuffer') + 1 = ocounter - Len(obuffer) + 1
    BY <1>1, <1>2, <2>1 DEF FInv, FillerTypes
  <2> QED
    BY <2>1, <2>2, <2>3 DEF KeptUpAtRead
<1> QED
  BY <1>3, <1>4, <1>5 DEF FInv

\* A null packet is added only when there is time for it, and then ocounter is not about
\* to wrap.
LEMMA NullKeepsInv ==
  ASSUME Filler!FillerAssumption, NEW P, Null \in P, FInv(P), NoWrap, Filler!AddNull
  PROVE  FInv(P)'
<1> USE DEF Filler!FillerAssumption
<1>1. /\ (ocounter + 1) * ibits <= icounter * obits
      /\ ocounter' = ocounter + 1 /\ icounter' = icounter
      /\ obuffer' = Append(obuffer, Null)
      /\ UNCHANGED <<input, ibuffer, inext>>
  BY NullDueMeans DEF Filler!AddNull, FInv, FillerTypes
<1>2. FillerTypes(P)'
  BY <1>1 DEF FInv, FillerTypes
<1>3. NotAhead'
  BY <1>1 DEF FInv, FillerTypes, NotAhead
<1>4. KeptUpAtRead'
  <2>1. obuffer' # <<>> /\ Len(obuffer') = Len(obuffer) + 1
    BY <1>1 DEF FInv, FillerTypes
  <2>2. ~(inext > FillPackets /\ obuffer = <<>>)
    <3>1. ASSUME icounter * obits < (ocounter + 1) * ibits PROVE FALSE
      BY <1>1, <3>1, ProductKeepsOrder DEF FInv, FillerTypes
    <3> QED
      BY <3>1 DEF FInv, KeptUpAtRead
  <2>3. (icounter - (inext - 1)) * obits < (ocounter - Len(obuffer) + 1) * ibits
    BY <2>2 DEF FInv, KeptUpAtRead
  <2>4. /\ icounter' - (inext' - 1) = icounter - (inext - 1)
        /\ ocounter' - Len(obuffer') + 1 = ocounter - Len(obuffer) + 1
    BY <1>1, <2>1 DEF FInv, FillerTypes
  <2> QED
    BY <2>1, <2>3, <2>4 DEF KeptUpAtRead
<1> QED
  BY <1>2, <1>3, <1>4 DEF FInv

LEMMA WriteKeepsInv ==
  ASSUME Filler!FillerAssumption, NEW P, FInv(P), NoWrap, Filler!FillerWrite
  PROVE  FInv(P)'
<1>1. FillerTypes(P)' /\ NotAhead'
  BY DEF FInv, FillerTypes, NotAhead, Filler!FillerWrite
<1>2. icounter * obits < (ocounter + 1) * ibits
  <2>1. (ocounter + 1) * ibits \in Nat /\ icounter * obits \in Nat
    BY ProductKeepsOrder DEF Filler!FillerAssumption, FInv, FillerTypes
  <2> QED
    BY <2>1, NullDueMeans DEF Filler!FillerWrite, FInv, FillerTypes
<1>3. KeptUpAtRead'
  BY <1>2 DEF Filler!FillerWrite, KeptUpAtRead
<1> QED
  BY <1>1, <1>3 DEF FInv

\* The rate, and the bound of the buffer, from the invariant.
LEMMA InvBoundsBuffer ==
  ASSUME Filler!FillerAssumption, NEW P, FInv(P), NoWrap
  PROVE  Filler!NullsFitBuffer /\ Filler!RateIsKept
<1> USE DEF Filler!FillerAssumption
<1>1. Filler!NullsFitBuffer
  <2>1. CASE inext > FillPackets /\ obuffer = <<>>
    <3>1. (FillPackets * obits) \div ibits \in Nat
      OBVIOUS
    <3> QED
      BY <2>1, <3>1 DEF Filler!NullsFitBuffer, Filler!OutputPackets
  <2>2. CASE ~(inext > FillPackets /\ obuffer = <<>>)
    <3> DEFINE n == Len(obuffer)
               k == inext - 1
    <3>1. /\ n \in Nat /\ k \in 0..FillPackets
          /\ (icounter - k) * obits < (ocounter - n + 1) * ibits
      BY <2>2 DEF FInv, FillerTypes, KeptUpAtRead
    <3>2. n * ibits < k * obits + ibits
      <4>1. (icounter - k) * obits = icounter * obits - k * obits
        BY <3>1, Distributes DEF FInv, FillerTypes
      <4>2. (ocounter - n + 1) * ibits = ocounter * ibits - n * ibits + ibits
        BY <3>1, Distributes DEF FInv, FillerTypes
      <4>3. /\ icounter * obits \in Int /\ k * obits \in Int
            /\ ocounter * ibits \in Int /\ n * ibits \in Int
        BY <3>1 DEF FInv, FillerTypes
      <4> QED
        BY <3>1, <4>1, <4>2, <4>3 DEF FInv, NotAhead
    <3>3. k * obits <= FillPackets * obits
      BY <3>1, ProductKeepsOrder
    <3>4. (n - 1) * ibits < FillPackets * obits
      <4>1. (n - 1) * ibits = n * ibits - ibits
        BY <3>1, Distributes
      <4>2. n * ibits \in Int /\ k * obits \in Int /\ FillPackets * obits \in Int
        BY <3>1
      <4> QED
        BY <3>2, <3>3, <4>1, <4>2
    <3>5. n - 1 <= (FillPackets * obits) \div ibits
      <4> HIDE DEF n
      <4>1. FillPackets * obits \in Nat
        OBVIOUS
      <4> QED
        BY <3>1, <3>4, <4>1, QuotientBounds
    <3> QED
      BY <3>1, <3>5 DEF Filler!NullsFitBuffer, Filler!OutputPackets
  <2> QED
    BY <2>1, <2>2
<1>2. Filler!RateIsKept
  <2>1. (ocounter + 1) * ibits \in Nat /\ icounter * obits \in Nat
    BY ProductKeepsOrder DEF FInv, FillerTypes
  <2> QED
    BY <2>1, NullDueMeans DEF FInv, FillerTypes, NotAhead, Filler!RateIsKept
<1> QED
  BY <1>1, <1>2

\* Every step of tsnullfiller keeps the invariant.
THEOREM FillerInductive ==
  ASSUME Filler!FillerAssumption, NEW P, Null \in P, Unset \in P
  PROVE  /\ Filler!FillerInit /\ input \in Seq(P) => FInv(P)
         /\ FInv(P) /\ NoWrap /\ [Filler!FillerNext]_Filler!fillerVars => FInv(P)'
<1>1. Filler!FillerInit /\ input \in Seq(P) => FInv(P)
  BY FillerInitHolds
<1>2. ASSUME FInv(P), NoWrap, [Filler!FillerNext]_Filler!fillerVars PROVE FInv(P)'
  <2>1. CASE Filler!FillerRead
    BY <1>2, <2>1, ReadKeepsTypes, ReadKeepsRate DEF FInv
  <2>2. CASE Filler!CopyPacket
    BY <1>2, <2>2, CopyKeepsInv
  <2>3. CASE Filler!AddNull
    BY <1>2, <2>3, NullKeepsInv
  <2>4. CASE Filler!FillerWrite
    BY <1>2, <2>4, WriteKeepsInv
  <2>5. CASE UNCHANGED Filler!fillerVars
    BY <1>2, <2>5 DEF Filler!fillerVars, FInv, FillerTypes, NotAhead, KeptUpAtRead
  <2> QED
    BY <1>2, <2>1, <2>2, <2>3, <2>4, <2>5 DEF Filler!FillerNext
<1> QED
  BY <1>1, <1>2

\* The null packets that one input buffer gives fit output_packet_buffer (tsnullfiller.c:92),
\* and the output keeps its rate, until the products of the counters wrap (line 129).
THEOREM BufferAndRate ==
  ASSUME Filler!FillerAssumption, NEW P, Null \in P, Unset \in P
  PROVE  Filler!FillerSpec /\ input \in Seq(P) /\ []NoWrap => [](Filler!NullsFitBuffer /\ Filler!RateIsKept)
<1>1. Filler!FillerInit /\ input \in Seq(P) => FInv(P)
  BY FillerInductive
<1>2. FInv(P) /\ NoWrap /\ [Filler!FillerNext]_Filler!fillerVars => FInv(P)'
  BY FillerInductive
<1>3. FInv(P) /\ NoWrap => Filler!NullsFitBuffer /\ Filler!RateIsKept
  BY InvBoundsBuffer
<1> QED
  BY <1>1, <1>2, <1>3, PTL DEF Filler!FillerSpec

\* The null packets that one input buffer gives fit output_packet_buffer
\* (tsnullfiller.c:92), whatever the tools after it do, until the products of the counters
\* wrap.
THEOREM FillerFitsBuffer ==
  ASSUME NEW P, Null \in P, Unset \in P, \A t \in DOMAIN Inputs : Inputs[t] \subseteq Seq(P)
  PROVE  Spec /\ []NoWrap => []NullsFitBuffer
<1>0. Filler!FillerAssumption
  BY ShapingAssumption
<1>1. Init => FInv(P)
  <2> SUFFICES ASSUME Init PROVE FInv(P)
    OBVIOUS
  <2>1. Filler!FillerInit /\ input \in Seq(P)
    BY DEF Init
  <2> QED
    BY <1>0, <2>1, FillerInductive
<1>2. ASSUME FInv(P), NoWrap, [Next]_vars PROVE FInv(P)'
  <2>1. CASE Fill
    <3>1. Filler!FillerNext
      BY <2>1 DEF Fill
    <3> QED
      BY <1>0, <1>2, <3>1, FillerInductive
  <2>2. CASE UNCHANGED <<input, filler>>
    BY <1>2, <2>2 DEF filler, FInv, FillerTypes, NotAhead,
      KeptUpAtRead
  <2>3. CASE ToCbr
    <3>1. UNCHANGED filler /\ (input' = input \/ (input # <<>> /\ input' = Tail(input)))
      BY <2>3 DEF ToCbr, Vbr!VbrNext, Vbr!ReadPacket, Vbr!FlushNull, Vbr!FlushPacket,
        Vbr!FlushEnd, Vbr!Fill
    <3>2. input' \in Seq(P)
      BY <1>2, <3>1 DEF FInv, FillerTypes
    <3> QED
      BY <1>2, <3>1, <3>2 DEF filler, FInv, FillerTypes, NotAhead,
        KeptUpAtRead
  <2>4. CASE SendNull \/ Shape \/ Restamp \/ Host
    BY <2>2, <2>4 DEF SendNull, Shape, Restamp, Host
  <2> QED
    BY <1>2, <2>1, <2>2, <2>3, <2>4 DEF Next, vars
<1>3. FInv(P) /\ NoWrap => NullsFitBuffer
  BY <1>0, InvBoundsBuffer DEF NullsFitBuffer
<1> QED
  BY <1>1, <1>2, <1>3, PTL DEF Spec

-----------------------------------------------------------------------------
(* tsnullshaper: how often the timed files are read.                         *)

\* The queue of the timed files, by the clock and the highest time that was looked at: an
\* entry is due after one period for each time that it was taken, and the last of these
\* periods began at the latest then.
Times ==
  /\ clock \in Nat /\ start \in Nat /\ highest \in Nat
  /\ time \in [Timed -> Nat] /\ taken \in [Timed -> Nat]
  /\ \A e \in Timed : /\ time[e] = taken[e] * TimeQueue[e].repeat_time
                      /\ time[e] <= highest + TimeQueue[e].repeat_time

\* The entry that is taken is one that is due.
LEMMA FirstDueIsDue ==
  ASSUME time \in [Timed -> Nat], NEW now, Due(now) # {}
  PROVE  /\ FirstDue(now) \in Due(now)
         /\ \A d \in Due(now) : \/ time[FirstDue(now)] < time[d]
                               \/ (time[FirstDue(now)] = time[d] /\ FirstDue(now) <= d)
<1> DEFINE D == Due(now)
           S == {time[e] : e \in D}
<1>1. D \subseteq Nat /\ D \subseteq Timed
  BY ShaperAssumption DEF Due, Timed
<1>2. S \subseteq Nat /\ S # {}
  BY <1>1
<1>3. PICK m \in S : \A n \in S : m <= n
  <2> HIDE DEF S
  <2> QED
    BY <1>2, LeastNumber
<1> DEFINE E == {e \in D : time[e] = m}
<1>4. E \subseteq Nat /\ E # {}
  BY <1>1, <1>3
<1>5. PICK k \in E : \A e \in E : k <= e
  <2> HIDE DEF E
  <2> QED
    BY <1>4, LeastNumber
<1>6. k \in D /\ time[k] = m
  BY <1>5
<1>7. ASSUME NEW d \in D PROVE time[k] < time[d] \/ (time[k] = time[d] /\ k <= d)
  <2>1. m <= time[d] /\ m \in Nat /\ time[d] \in Nat
    BY <1>1, <1>2, <1>3
  <2>2. CASE m < time[d]
    BY <1>6, <2>2
  <2>3. CASE m = time[d]
    BY <1>5, <1>6, <2>3
  <2> QED
    BY <2>1, <2>2, <2>3
<1> QED
  <2> HIDE DEF D, S, E
  <2>1. \E e \in D : \A d \in D : time[e] < time[d] \/ (time[e] = time[d] /\ e <= d)
    BY <1>6, <1>7
  <2> USE DEF D
  <2> QED
    BY <2>1 DEF FirstDue

\* The assumption, entry by entry.
LEMMA Periods ==
  \A f \in Timed : TimeQueue[f].repeat_time \in Nat \ {0}
<1> DEFINE R == [name : DOMAIN FileOf, repeat_time : Nat \ {0}]
<1>1. \A r \in R : r.repeat_time \in Nat \ {0}
  OBVIOUS
<1>2. TimeQueue \in Seq(R)
  BY ShaperAssumption
<1> HIDE DEF R
<1>3. \A f \in Timed : TimeQueue[f] \in R
  BY <1>2 DEF Timed
<1> QED
  BY <1>1, <1>3

\* An entry is taken when its time has come, so that its next time is not after a period.
LEMMA TakeKeepsTimes ==
  ASSUME Times, NEW e \in Timed, TakeTimed(e), clock' = clock
  PROVE  Times'
<1> DEFINE elapsed == clock - start
           period  == TimeQueue[e].repeat_time
<1>1. \A f \in Timed : TimeQueue[f].repeat_time \in Nat \ {0}
  BY Periods
<1>2. /\ elapsed \in Nat /\ e \in Due(clock)
      /\ time' = [time EXCEPT ![e] = @ + period]
      /\ highest' = Max({highest, elapsed}) /\ start' = start
      /\ taken' = [taken EXCEPT ![e] = @ + 1]
  BY FirstDueIsDue DEF Times, TakeTimed
<1>3. time[e] <= elapsed
  BY <1>2 DEF Due, Times
<1> HIDE DEF elapsed, period
<1>4. highest' \in Nat /\ highest <= highest' /\ elapsed <= highest'
  BY <1>2, MaxOfTwo DEF Times
<1>5. ASSUME NEW f \in Timed PROVE time'[f] \in Nat /\ time'[f] <= highest' + TimeQueue[f].repeat_time
  <2>1. CASE f = e
    <3>1. time'[f] = time[e] + period /\ period \in Nat /\ TimeQueue[f].repeat_time = period
      BY <1>1, <1>2, <2>1 DEF Times, period
    <3> QED
      BY <1>2, <1>3, <1>4, <3>1 DEF Times
  <2>2. CASE f # e
    <3>1. time'[f] = time[f] /\ time[f] <= highest + TimeQueue[f].repeat_time
      BY <1>2, <2>2 DEF Times
    <3> QED
      BY <1>1, <1>4, <3>1 DEF Times
  <2> QED
    BY <2>1, <2>2
<1>6. ASSUME NEW f \in Timed
      PROVE  taken'[f] \in Nat /\ time'[f] = taken'[f] * TimeQueue[f].repeat_time
  <2>1. /\ TimeQueue[f].repeat_time \in Nat /\ taken[f] \in Nat
        /\ time[f] = taken[f] * TimeQueue[f].repeat_time
    BY <1>1 DEF Times
  <2>2. CASE f = e
    <3>1. time'[f] = time[f] + TimeQueue[f].repeat_time /\ taken'[f] = taken[f] + 1
      BY <1>2, <2>2 DEF Times, period
    <3>2. (taken[f] + 1) * TimeQueue[f].repeat_time
            = taken[f] * TimeQueue[f].repeat_time + TimeQueue[f].repeat_time
      BY <2>1
    <3> QED
      BY <2>1, <3>1, <3>2
  <2>3. CASE f # e
    <3>1. time'[f] = time[f] /\ taken'[f] = taken[f]
      BY <1>2, <2>3 DEF Times
    <3> QED
      BY <2>1, <3>1
  <2> QED
    BY <2>2, <2>3
<1>7. taken' \in [Timed -> Nat] /\ time' \in [Timed -> Nat]
  BY <1>2, <1>5, <1>6 DEF Times
<1> QED
  BY <1>2, <1>4, <1>5, <1>6, <1>7 DEF Times

\* Since the start a timed file was put in at most once, and once more for each repeat_time
\* that has passed, for any queue of timed files and whatever is done to the clock.
THEOREM NeverTooOften == Spec => []NotTooOften
<1>1. Init => Times
  <2> SUFFICES ASSUME Init PROVE Times
    OBVIOUS
  <2>1. \A e \in Timed : 0 = 0 * TimeQueue[e].repeat_time /\ 0 <= 0 + TimeQueue[e].repeat_time
    BY Periods
  <2> QED
    BY <2>1 DEF Init, ShaperInit, Times
<1>2. ASSUME Times, [Next]_vars PROVE Times'
  <2>1. CASE UNCHANGED <<clock, queues>>
    BY <1>2, <2>1 DEF queues, Times
  <2>2. CASE Shape
    <3>1. clock' = clock
      BY <2>2 DEF Shape, ShaperNext, ShaperRead, ReplaceNull, PassPacket, ShaperWrite, host
    <3>2. CASE UNCHANGED queues
      BY <2>1, <3>1, <3>2
    <3>3. CASE \E e \in Timed : TakeTimed(e)
      BY <1>2, <3>1, <3>3, TakeKeepsTimes
    <3>4. CASE Restart
      <4>1. \A e \in Timed : 0 = 0 * TimeQueue[e].repeat_time /\ 0 <= 0 + TimeQueue[e].repeat_time
        BY Periods
      <4> QED
        BY <1>2, <3>1, <3>4, <4>1 DEF Restart, Times
    <3>5. CASE NoneIsDue
      <4>1. /\ clock - start \in Nat /\ highest' = Max({highest, clock - start})
            /\ UNCHANGED <<start, time, taken>>
        BY <1>2, <3>5 DEF NoneIsDue, Times
      <4>2. highest' \in Nat /\ highest <= highest'
        BY <1>2, <4>1, MaxOfTwo DEF Times
      <4>3. ASSUME NEW f \in Timed PROVE time[f] <= highest' + TimeQueue[f].repeat_time
        <5>1. time[f] <= highest + TimeQueue[f].repeat_time /\ time[f] \in Nat
          BY <1>2 DEF Times
        <5>2. TimeQueue[f].repeat_time \in Nat /\ highest \in Nat
          BY <1>2, Periods DEF Times
        <5> QED
          BY <4>2, <5>1, <5>2
      <4> QED
        BY <1>2, <3>1, <4>1, <4>2, <4>3 DEF Times
    <3> QED
      BY <2>2, <3>2, <3>3, <3>4, <3>5
        DEF Shape, ShaperNext, ShaperRead, ReplaceNull, PassPacket, ShaperWrite
  <2>3. CASE Host
    <3>1. UNCHANGED queues /\ clock' \in Nat
      BY <1>2, <2>3 DEF Host, HostNext, Tick, SetBack, GoAway, ComeBack, Times
    <3> QED
      BY <1>2, <3>1 DEF queues, Times
  <2>4. CASE Fill \/ ToCbr \/ SendNull \/ Restamp \/ UNCHANGED vars
    BY <2>1, <2>4 DEF Fill, ToCbr, SendNull, Restamp, vars, shaper, host
  <2> QED
    BY <1>2, <2>2, <2>3, <2>4 DEF Next
<1>3. Times => NotTooOften
  <2> SUFFICES ASSUME Times, NEW e \in Timed
               PROVE  (taken[e] - 1) * TimeQueue[e].repeat_time <= highest
    BY DEF NotTooOften
  <2>1. /\ TimeQueue[e].repeat_time \in Nat /\ taken[e] \in Nat /\ highest \in Nat
        /\ taken[e] * TimeQueue[e].repeat_time <= highest + TimeQueue[e].repeat_time
    BY Periods DEF Times
  <2>2. (taken[e] - 1) * TimeQueue[e].repeat_time
          = taken[e] * TimeQueue[e].repeat_time - TimeQueue[e].repeat_time
    BY <2>1
  <2> QED
    BY <2>1, <2>2
<1> QED
  BY <1>1, <1>2, <1>3, PTL DEF Spec

-----------------------------------------------------------------------------
(* tsnullshaper: how long the timed files wait.                              *)

Period(e) == TimeQueue[e].repeat_time

\* What the timed files ask for in x units of time, after the first packet of each: the
\* n-th packet of entry e for each pair <<e, n>>.
AskedIn(x) == {q \in Timed \X (1..x) : q[2] * Period(q[1]) <= x}

\* They do not ask for more than a packet in a unit of time.
NotTooMuch == \A x \in Nat : Cardinality(AskedIn(x)) <= x

\* The packets that are to be read up to time t, since the start.
OwedBy(due, t) == {q \in Timed \X (0..t) : due[q[1]] + q[2] * Period(q[1]) <= t}
Owed(t) == OwedBy(time, t)

\* Until time t there is a null packet for each of them, but for as many as there are files,
\* and for the one that is still to be replaced in this unit of time.
EnoughNulls ==
  /\ clock \in Int /\ start \in Int /\ served \in BOOLEAN
  /\ time \in [Timed -> Nat]
  /\ \A t \in Nat : Owed(t) # {} =>
       Cardinality(Owed(t)) <= t - (clock - start) + Cardinality(Timed) + (IF served THEN 0 ELSE 1)

LEMMA Products ==
  ASSUME NEW n \in Nat, NEW r \in Nat \ {0}
  PROVE  n * r \in Nat /\ n <= n * r /\ (n + 1) * r = n * r + r /\ 0 * r = 0
OBVIOUS

LEMMA TimedIsFinite ==
  /\ IsFiniteSet(Timed) /\ Cardinality(Timed) \in Nat
  /\ \A x \in Nat : IsFiniteSet(AskedIn(x)) /\ IsFiniteSet(Owed(x))
                    /\ Cardinality(AskedIn(x)) \in Nat /\ Cardinality(Owed(x)) \in Nat
<1>1. Len(TimeQueue) \in Nat /\ Timed = 1..Len(TimeQueue)
  BY ShaperAssumption DEF Timed
<1>2. IsFiniteSet(Timed)
  BY <1>1, FS_Interval
<1>3. ASSUME NEW x \in Nat PROVE IsFiniteSet(AskedIn(x)) /\ IsFiniteSet(Owed(x))
  <2>1. IsFiniteSet(1..x) /\ IsFiniteSet(0..x)
    BY FS_Interval
  <2>2. IsFiniteSet(Timed \X (1..x)) /\ IsFiniteSet(Timed \X (0..x))
    BY <1>2, <2>1, FS_Product
  <2>3. AskedIn(x) \in SUBSET (Timed \X (1..x)) /\ Owed(x) \in SUBSET (Timed \X (0..x))
    BY DEF AskedIn, Owed, OwedBy
  <2> QED
    BY <2>2, <2>3, FS_Subset
<1> QED
  BY <1>2, <1>3, FS_CardinalityType

\* When no entry is due before time s, what is owed up to time t is the first packet of each
\* and what is asked for since s.
LEMMA OwedSince ==
  ASSUME NotTooMuch, NEW due \in [Timed -> Nat],
         NEW s \in Int, \A e \in Timed : due[e] >= s,
         NEW t \in Nat, OwedBy(due, t) # {}
  PROVE  Cardinality(OwedBy(due, t)) <= Cardinality(Timed) + (t - s)
<1> DEFINE First == Timed \X {0}
<1>1. ASSUME NEW q \in OwedBy(due, t)
      PROVE  /\ q[1] \in Timed /\ q[2] \in Nat /\ q = <<q[1], q[2]>>
             /\ q[2] * Period(q[1]) \in Nat /\ q[2] <= q[2] * Period(q[1])
             /\ q[2] * Period(q[1]) <= t - s /\ t - s \in Nat
  <2>1. /\ q[1] \in Timed /\ q[2] \in 0..t /\ q = <<q[1], q[2]>>
        /\ due[q[1]] + q[2] * Period(q[1]) <= t
    BY DEF OwedBy
  <2>2. Period(q[1]) \in Nat \ {0} /\ due[q[1]] \in Nat /\ due[q[1]] >= s /\ q[2] \in Nat
    BY <2>1, Periods DEF Period
  <2>3. q[2] * Period(q[1]) \in Nat /\ q[2] <= q[2] * Period(q[1])
    BY <2>2, Products
  <2> HIDE DEF Period
  <2>4. q[2] * Period(q[1]) <= t - s /\ t - s \in Nat
    BY <2>1, <2>2, <2>3
  <2> QED
    BY <2>1, <2>2, <2>3, <2>4
<1>2. t - s \in Nat
  BY <1>1
<1>3. OwedBy(due, t) \subseteq First \cup AskedIn(t - s)
  <2> SUFFICES ASSUME NEW q \in OwedBy(due, t), q \notin First PROVE q \in AskedIn(t - s)
    OBVIOUS
  <2>1. q[2] # 0
    BY <1>1
  <2>2. q[2] \in 1..(t - s)
    BY <1>1, <2>1
  <2> QED
    BY <1>1, <2>2 DEF AskedIn
<1>4. IsFiniteSet(First) /\ Cardinality(First) = Cardinality(Timed)
  <2>1. IsFiniteSet({0}) /\ Cardinality({0}) = 1
    BY FS_Singleton
  <2>2. IsFiniteSet(First) /\ Cardinality(First) = Cardinality(Timed) * 1
    BY <2>1, TimedIsFinite, FS_Product
  <2> QED
    BY <2>2, TimedIsFinite
<1> HIDE DEF First
<1>5. /\ IsFiniteSet(First \cup AskedIn(t - s))
      /\ Cardinality(First \cup AskedIn(t - s)) <= Cardinality(Timed) + (t - s)
  <2>1. /\ IsFiniteSet(First \cup AskedIn(t - s))
        /\ Cardinality(First \cup AskedIn(t - s))
             = Cardinality(First) + Cardinality(AskedIn(t - s))
                 - Cardinality(First \cap AskedIn(t - s))
    BY <1>2, <1>4, TimedIsFinite, FS_Union
  <2>2. Cardinality(First \cap AskedIn(t - s)) \in Nat
    BY <1>4, FS_Intersection, FS_CardinalityType
  <2>3. Cardinality(AskedIn(t - s)) <= t - s /\ Cardinality(AskedIn(t - s)) \in Nat
    BY <1>2, TimedIsFinite DEF NotTooMuch
  <2> QED
    BY <1>2, <1>4, <2>1, <2>2, <2>3, TimedIsFinite
<1>6. OwedBy(due, t) \in SUBSET (First \cup AskedIn(t - s))
  BY <1>3
<1>7. Cardinality(OwedBy(due, t)) <= Cardinality(First \cup AskedIn(t - s))
      /\ IsFiniteSet(OwedBy(due, t))
  BY <1>5, <1>6, FS_Subset
<1>8. Cardinality(OwedBy(due, t)) \in Nat /\ Cardinality(First \cup AskedIn(t - s)) \in Nat
  BY <1>5, <1>7, FS_CardinalityType
<1> QED
  BY <1>2, <1>5, <1>7, <1>8, TimedIsFinite

\* The entry that is taken is the one that has waited longest.
LEMMA FirstDueIsFirst ==
  ASSUME time \in [Timed -> Nat], clock \in Int, start \in Int, Due(clock) # {}
  PROVE  /\ FirstDue(clock) \in Timed /\ time[FirstDue(clock)] <= clock - start
         /\ \A d \in Timed : time[FirstDue(clock)] <= time[d]
<1> DEFINE e == FirstDue(clock)
<1>1. e \in Due(clock)
  BY FirstDueIsDue
<1>2. e \in Timed /\ time[e] \in Nat /\ time[e] <= clock - start
  BY <1>1 DEF Due
<1>3. ASSUME NEW d \in Timed PROVE time[e] <= time[d]
  <2>1. time[d] \in Nat
    OBVIOUS
  <2>2. CASE d \in Due(clock)
    <3>1. \A x \in Due(clock) : time[e] < time[x] \/ (time[e] = time[x] /\ e <= x)
      BY FirstDueIsDue
    <3>2. time[e] < time[d] \/ time[e] = time[d]
      BY <2>2, <3>1
    <3> HIDE DEF e
    <3> QED
      BY <1>2, <2>1, <3>2
  <2>3. CASE d \notin Due(clock)
    <3>1. ~(clock - start >= time[d])
      BY <2>3 DEF Due
    <3> HIDE DEF e
    <3> QED
      BY <1>2, <2>1, <3>1
  <2> QED
    BY <2>2, <2>3
<1> QED
  BY <1>2, <1>3

LEMMA TakeKeepsEnough ==
  ASSUME EnoughNulls, NEW e \in Timed, TakeTimed(e), clock' = clock, served' = TRUE
  PROVE  EnoughNulls'
<1> DEFINE p == Period(e)
<1>1. /\ \A f \in Timed : Period(f) \in Nat \ {0}
      /\ \A f \in Timed : time[f] \in Nat
      /\ time' = [time EXCEPT ![e] = @ + p] /\ start' = start
      /\ \A f \in Timed : time[e] <= time[f]
  BY Periods, FirstDueIsFirst DEF EnoughNulls, TakeTimed, Period
<1> HIDE DEF p
<1>2. p = Period(e) /\ p \in Nat \ {0}
  BY <1>1 DEF p
<1>3. /\ time' \in [Timed -> Nat] /\ time'[e] = time[e] + p
      /\ \A f \in Timed \ {e} : time'[f] = time[f]
  BY <1>1, <1>2 DEF EnoughNulls
<1>4. ASSUME NEW t \in Nat, Owed(t)' # {}
      PROVE  Cardinality(Owed(t)') + 1 <= Cardinality(Owed(t)) /\ Owed(t) # {}
  <2> DEFINE Rest == Owed(t) \ {<<e, 0>>}
             Shift == [q \in Owed(t)' |-> IF q[1] = e THEN <<e, q[2] + 1>> ELSE q]
  <2>1. ASSUME NEW q \in Owed(t)'
        PROVE  /\ q[1] \in Timed /\ q[2] \in 0..t /\ q = <<q[1], q[2]>>
               /\ time'[q[1]] + q[2] * Period(q[1]) <= t
               /\ q[2] * Period(q[1]) \in Nat
    <3>1. /\ q[1] \in Timed /\ q[2] \in 0..t /\ q = <<q[1], q[2]>>
          /\ time'[q[1]] + q[2] * Period(q[1]) <= t
      BY DEF Owed, OwedBy, Timed, Period
    <3>2. q[2] \in Nat /\ Period(q[1]) \in Nat \ {0}
      BY <1>1, <3>1
    <3> QED
      BY <3>1, <3>2, Products
  <2>2. ASSUME NEW q \in Owed(t)' PROVE Shift[q] \in Rest
    <3>1. CASE q[1] = e
      <4>1. q[2] \in Nat /\ (q[2] + 1) * p = q[2] * p + p
            /\ q[2] + 1 <= (q[2] + 1) * p /\ (q[2] + 1) * p \in Nat
        BY <1>2, <2>1, Products
      <4>2. time[e] + (q[2] + 1) * p <= t /\ time[e] \in Nat /\ q[2] * p \in Nat
        <5>1. time[e] + p + q[2] * p <= t /\ q[2] * p \in Nat /\ time[e] \in Nat
          BY <1>1, <1>2, <1>3, <2>1, <3>1
        <5> QED
          BY <1>2, <4>1, <5>1
      <4>3. q[2] + 1 \in 0..t
        BY <4>1, <4>2
      <4>4. <<e, q[2] + 1>> \in Owed(t) /\ <<e, q[2] + 1>> # <<e, 0>>
        BY <1>2, <4>1, <4>2, <4>3 DEF Owed, OwedBy
      <4> QED
        BY <3>1, <4>4
    <3>2. CASE q[1] # e
      <4>1. time[q[1]] + q[2] * Period(q[1]) <= t
        BY <1>3, <2>1, <3>2
      <4>2. q \in Owed(t) /\ q # <<e, 0>>
        BY <2>1, <3>2, <4>1 DEF Owed, OwedBy
      <4> QED
        BY <3>2, <4>2
    <3> QED
      BY <3>1, <3>2
  <2>3. ASSUME NEW q \in Owed(t)', NEW r \in Owed(t)', Shift[q] = Shift[r] PROVE q = r
    <3>1. /\ q = <<q[1], q[2]>> /\ r = <<r[1], r[2]>> /\ q[2] \in Nat /\ r[2] \in Nat
      BY <2>1
    <3>2. /\ Shift[q] = IF q[1] = e THEN <<e, q[2] + 1>> ELSE <<q[1], q[2]>>
          /\ Shift[r] = IF r[1] = e THEN <<e, r[2] + 1>> ELSE <<r[1], r[2]>>
      BY <3>1
    <3> HIDE DEF Shift
    <3> DEFINE a == q[1]
               b == q[2]
               c == r[1]
               d == r[2]
    <3>3. /\ (IF a = e THEN <<e, b + 1>> ELSE <<a, b>>) = (IF c = e THEN <<e, d + 1>> ELSE <<c, d>>)
          /\ b \in Nat /\ d \in Nat
      BY <2>3, <3>1, <3>2
    <3> HIDE DEF a, b, c, d
    <3>4. CASE a = e /\ c = e
      <4>1. a = c /\ b + 1 = d + 1
        BY <3>3, <3>4
      <4>2. b = d
        BY <3>3, <4>1
      <4> QED
        BY <3>1, <4>1, <4>2 DEF a, b, c, d
    <3>5. CASE a = e /\ c # e
      BY <3>3, <3>5
    <3>6. CASE a # e /\ c = e
      BY <3>3, <3>6
    <3>7. CASE a # e /\ c # e
      <4>1. a = c /\ b = d
        BY <3>3, <3>7
      <4> QED
        BY <3>1, <4>1 DEF a, b, c, d
    <3> QED
      BY <3>4, <3>5, <3>6, <3>7
  <2>4. <<e, 0>> \in Owed(t)
    <3>1. PICK q \in Owed(t)' : TRUE
      BY <1>4
    <3>2. time'[q[1]] <= t /\ q[1] \in Timed
      <4>1. time'[q[1]] \in Nat /\ q[1] \in Timed
        BY <1>3, <2>1
      <4> QED
        BY <2>1, <4>1
    <3>3. time[q[1]] <= time'[q[1]]
      BY <1>1, <1>2, <1>3, <3>2
    <3>4. time[e] <= t
      BY <1>1, <1>3, <3>2, <3>3
    <3>5. 0 * Period(e) = 0
      BY <1>2, Products
    <3> QED
      BY <1>1, <3>4, <3>5 DEF Owed, OwedBy
  <2>5. Shift \in Injection(Owed(t)', Rest)
    <3>1. Shift \in [Owed(t)' -> Rest]
      <4> HIDE DEF Rest
      <4> QED
        BY <2>2
    <3> HIDE DEF Shift, Rest
    <3> QED
      BY <2>3, <3>1 DEF Injection, IsInjective
  <2>6. IsFiniteSet(Rest) /\ Cardinality(Rest) = Cardinality(Owed(t)) - 1
    BY <2>4, TimedIsFinite, FS_RemoveElement
  <2> HIDE DEF Rest, Shift
  <2>7. Cardinality(Owed(t)') <= Cardinality(Rest) /\ IsFiniteSet(Owed(t)')
    BY <2>5, <2>6, FS_Injection
  <2>8. Cardinality(Owed(t)') \in Nat
    BY <2>7, FS_CardinalityType
  <2> QED
    BY <2>4, <2>6, <2>7, <2>8, TimedIsFinite
<1>5. ASSUME NEW t \in Nat, Owed(t)' # {}
      PROVE  Cardinality(Owed(t)') <= t - (clock' - start') + Cardinality(Timed)
  <2>1. Cardinality(Owed(t)') + 1 <= Cardinality(Owed(t)) /\ Owed(t) # {}
        /\ Cardinality(Owed(t)) \in Nat /\ Cardinality(Timed) \in Nat
    BY <1>4, <1>5, TimedIsFinite
  <2>2. Cardinality(Owed(t)) <= t - (clock - start) + Cardinality(Timed) + 1
    <3>1. Cardinality(Owed(t)) <= t - (clock - start) + Cardinality(Timed)
                                    + (IF served THEN 0 ELSE 1)
      BY <2>1 DEF EnoughNulls
    <3> QED
      BY <2>1, <3>1 DEF EnoughNulls
  <2>3. Cardinality(Owed(t)') \in Int
    <3>1. IsFiniteSet(Owed(t)')
      <4>1. Owed(t)' \in SUBSET (Timed \X (0..t))
        BY DEF Owed, OwedBy, Timed
      <4>2. IsFiniteSet(0..t)
        BY FS_Interval
      <4>3. IsFiniteSet(Timed \X (0..t))
        BY <4>2, TimedIsFinite, FS_Product
      <4> QED
        BY <4>1, <4>3, FS_Subset
    <3> QED
      BY <3>1, FS_CardinalityType
  <2> QED
    BY <1>1, <2>1, <2>2, <2>3 DEF EnoughNulls
<1> QED
  BY <1>1, <1>3, <1>5, TimedIsFinite DEF EnoughNulls

\* No entry was due: what is owed later is asked for from now on.
LEMMA IdleKeepsEnough ==
  ASSUME NotTooMuch, EnoughNulls, clock >= start, Due(clock) = {},
         UNCHANGED <<clock, start, time>>, served' = TRUE
  PROVE  EnoughNulls'
<1>1. \A e \in Timed : time[e] >= clock - start + 1
  BY DEF EnoughNulls, Due
<1>2. ASSUME NEW t \in Nat, Owed(t) # {}
      PROVE  Cardinality(Owed(t)) <= t - (clock - start) + Cardinality(Timed)
  <2>1. clock - start + 1 \in Int
    BY DEF EnoughNulls
  <2> DEFINE s == clock - start + 1
  <2>2. Cardinality(Owed(t)) <= Cardinality(Timed) + (t - s)
    <3>1. s \in Int /\ (\A e \in Timed : time[e] >= s) /\ time \in [Timed -> Nat]
      BY <1>1, <2>1 DEF EnoughNulls
    <3>2. OwedBy(time, t) # {} /\ Owed(t) = OwedBy(time, t)
      BY <1>2 DEF Owed
    <3> HIDE DEF s
    <3> QED
      BY <3>1, <3>2, OwedSince
  <2> QED
    BY <2>2, TimedIsFinite DEF EnoughNulls
<1>3. \A t \in Nat : Owed(t)' = Owed(t)
  BY DEF Owed, OwedBy, Timed, Period
<1> QED
  BY <1>2, <1>3, TimedIsFinite DEF EnoughNulls

\* Everything begins anew.
LEMMA EnoughAtStart ==
  ASSUME NotTooMuch, NEW due, due = [e \in Timed |-> 0], NEW t \in Nat, OwedBy(due, t) # {}
  PROVE  Cardinality(OwedBy(due, t)) <= t + Cardinality(Timed)
<1>1. due \in [Timed -> Nat] /\ \A e \in Timed : due[e] >= 0
  OBVIOUS
<1>2. Cardinality(OwedBy(due, t)) <= Cardinality(Timed) + (t - 0)
  BY <1>1, OwedSince
<1> QED
  BY <1>2, TimedIsFinite

\* The clock goes on when a null packet was replaced, and back at any time.
LEMMA HostKeepsEnough ==
  ASSUME EnoughNulls, clock' \in Int, clock' <= clock + 1, UNCHANGED <<start, time>>,
         clock' > clock => served, served' = (clock' <= clock /\ served)
  PROVE  EnoughNulls'
<1>1. \A t \in Nat : Owed(t)' = Owed(t)
  BY DEF Owed, OwedBy, Timed, Period
<1>2. ASSUME NEW t \in Nat, Owed(t) # {}
      PROVE  Cardinality(Owed(t)) <= t - (clock' - start) + Cardinality(Timed)
                                       + (IF served' THEN 0 ELSE 1)
  <2>1. Cardinality(Owed(t)) <= t - (clock - start) + Cardinality(Timed)
                                  + (IF served THEN 0 ELSE 1)
    BY <1>2 DEF EnoughNulls
  <2>2. Cardinality(Owed(t)) \in Nat /\ Cardinality(Timed) \in Nat
    BY TimedIsFinite
  <2>3. CASE clock' > clock
    <3>1. clock' = clock + 1 /\ ~(clock' <= clock)
      BY <2>3 DEF EnoughNulls
    <3>2. served /\ ~served'
      BY <2>3, <3>1
    <3> QED
      BY <2>1, <2>2, <3>1, <3>2 DEF EnoughNulls
  <2>4. CASE clock' <= clock
    <3>1. served' = served
      BY <2>4 DEF EnoughNulls
    <3> QED
      BY <2>1, <2>2, <2>4, <3>1 DEF EnoughNulls
  <2> QED
    BY <2>3, <2>4 DEF EnoughNulls
<1> QED
  BY <1>1, <1>2 DEF EnoughNulls

\* While the files do not ask for more than a packet in a unit of time, and a null packet
\* comes in each, no file waits longer than there are files.
THEOREM NoneFallsBehind ==
  ASSUME NotTooMuch
  PROVE  Spec => []NoTimedFileFallsBehind
<1> DEFINE Inv == tool = "nulls" => EnoughNulls
<1>1. Init => Inv
  <2> SUFFICES ASSUME Init PROVE EnoughNulls
    OBVIOUS
  <2>1. clock = 1 /\ start = clock /\ time = [e \in Timed |-> 0] /\ served = TRUE
    BY DEF Init, ShaperInit
  <2>2. clock - start = 0 /\ clock \in Int /\ start \in Int /\ time \in [Timed -> Nat]
    BY <2>1
  <2>3. \A t \in Nat : Owed(t) # {} => Cardinality(Owed(t)) <= t + Cardinality(Timed)
    BY <2>1, EnoughAtStart DEF Owed, OwedBy
  <2> QED
    BY <2>1, <2>2, <2>3, TimedIsFinite DEF EnoughNulls
<1>2. Inv /\ [Next]_vars => Inv'
  <2> SUFFICES ASSUME Inv, [Next]_vars, tool' = "nulls" PROVE EnoughNulls'
    OBVIOUS
  <2>1. tool = "nulls" /\ EnoughNulls
    BY DEF Next, Fill, ToCbr, SendNull, Shape, Restamp, Host, vars
  <2>2. CASE UNCHANGED <<clock, start, time>> /\ served' = served
    <3>1. \A t \in Nat : Owed(t)' = Owed(t)
      BY <2>2 DEF Owed, OwedBy, Timed, Period
    <3> QED
      BY <2>1, <2>2, <3>1 DEF EnoughNulls
  <2>3. CASE Shape
    <3>1. /\ clock' = clock /\ served' = (served \/ ReplaceNull)
          /\ ReplaceNull \/ UNCHANGED <<start, time>>
      BY <2>3 DEF Shape, ShaperNext, ShaperRead, ReplaceNull, PassPacket, ShaperWrite, host, queues
    <3>2. CASE ~ReplaceNull
      <4>1. served' = served
        BY <2>1, <3>1, <3>2 DEF EnoughNulls
      <4> QED
        BY <2>2, <3>1, <3>2, <4>1
    <3>3. CASE ReplaceNull
      <4>1. served' = TRUE
        BY <3>1, <3>3
      <4>2. CASE \E e \in Timed : TakeTimed(e)
        BY <2>1, <3>1, <4>1, <4>2, TakeKeepsEnough
      <4>3. CASE Restart
        <5>1. /\ clock' \in Int /\ start' = clock' /\ time' = [e \in Timed |-> 0]
          BY <2>1, <3>1, <4>3 DEF Restart, EnoughNulls
        <5>2. clock' - start' = 0 /\ start' \in Int
          <6>1. \A a \in Int : a - a = 0
            OBVIOUS
          <6>2. clock' \in Int /\ start' = clock'
            BY <5>1
          <6> QED
            BY <6>1, <6>2, Zenon
        <5>4. time' \in [Timed' -> Nat]
          <6>1. time' \in [Timed -> Nat]
            BY <5>1
          <6>2. Timed' = Timed
            BY DEF Timed
          <6> QED
            BY <6>1, <6>2
        <5>3. \A t \in Nat : Owed(t)' # {} => Cardinality(Owed(t)') <= t + Cardinality(Timed)
          <6>1. \A t \in Nat : Owed(t)' = OwedBy(time', t)
            BY DEF Owed, OwedBy, Timed, Period
          <6> QED
            BY <5>1, <6>1, EnoughAtStart
        <5> QED
          BY <4>1, <5>1, <5>2, <5>3, <5>4, TimedIsFinite DEF EnoughNulls
      <4>4. CASE NoneIsDue
        BY <2>1, <3>1, <4>1, <4>4, IdleKeepsEnough DEF NoneIsDue
      <4> QED
        BY <3>3, <4>2, <4>3, <4>4 DEF ReplaceNull
    <3> QED
      BY <3>2, <3>3
  <2>4. CASE Host
    <3>1. /\ clock' \in Int /\ clock' <= clock + 1 /\ UNCHANGED <<start, time>>
          /\ clock' > clock => served
          /\ served' = (clock' <= clock /\ served)
      BY <2>1, <2>4 DEF Host, HostNext, Tick, SetBack, GoAway, ComeBack, queues, EnoughNulls
    <3> QED
      BY <2>1, <3>1, HostKeepsEnough
  <2>5. CASE Fill \/ ToCbr \/ SendNull \/ Restamp \/ UNCHANGED vars
    BY <2>2, <2>5 DEF Fill, ToCbr, SendNull, Restamp, vars, shaper, host, queues
  <2> QED
    BY <2>3, <2>4, <2>5 DEF Next
<1>3. Inv => NoTimedFileFallsBehind
  <2> SUFFICES ASSUME tool = "nulls", EnoughNulls, NEW e \in Timed
               PROVE  clock - start - time[e] <= Cardinality(Timed)
    BY DEF NoTimedFileFallsBehind
  <2>1. time[e] \in Nat /\ clock \in Int /\ start \in Int /\ Cardinality(Timed) \in Nat
    BY TimedIsFinite DEF EnoughNulls
  <2>2. <<e, 0>> \in Owed(time[e])
    <3>1. 0 * Period(e) = 0
      BY Periods, Products DEF Period
    <3> QED
      BY <2>1, <3>1 DEF Owed, OwedBy
  <2>3. Cardinality(Owed(time[e])) \in Nat /\ Cardinality(Owed(time[e])) # 0
    BY <2>1, <2>2, TimedIsFinite, FS_EmptySet
  <2>4. Cardinality(Owed(time[e])) <= time[e] - (clock - start) + Cardinality(Timed)
                                        + (IF served THEN 0 ELSE 1)
    BY <2>1, <2>2 DEF EnoughNulls
  <2> QED
    BY <2>1, <2>3, <2>4
<1> QED
  BY <1>1, <1>2, <1>3, PTL DEF Spec

-----------------------------------------------------------------------------
(* tspcrstamp: the PCRs follow the positions of their packets.               *)

\* Division and its rest.
LEMMA Quotient ==
  ASSUME NEW x \in Nat, NEW m \in Nat \ {0}
  PROVE  /\ x \div m \in Nat /\ x % m \in 0..(m - 1)
         /\ x = (x \div m) * m + (x % m)
OBVIOUS

LEMMA Multiple ==
  ASSUME NEW k \in Int, NEW m \in Nat \ {0}, NEW d \in Int, d = k * m, -m < d, d < m
  PROVE  d = 0
<1>1. k >= 1 => k * m >= m
  OBVIOUS
<1>2. k <= -1 => k * m <= -m
  OBVIOUS
<1>3. k = 0 => k * m = 0
  OBVIOUS
<1> QED
  BY <1>1, <1>2, <1>3

LEMMA Modulo ==
  ASSUME NEW m \in Nat \ {0}, NEW x \in Nat, NEW y \in Nat, x <= y, y - x < m
  PROVE  ((y % m) - (x % m)) % m = y - x
<1> DEFINE a == x % m
           b == y % m
           p == x \div m
           q == y \div m
<1>1. a \in 0..(m - 1) /\ b \in 0..(m - 1) /\ p \in Nat /\ q \in Nat
  BY Quotient
<1>2. x = p * m + a /\ y = q * m + b
  BY Quotient
<1> HIDE DEF a, b, p, q
<1>3. (q - p) * m = q * m - p * m /\ (q - p - 1) * m = q * m - p * m - m
  BY <1>1
<1>4. q * m \in Int /\ p * m \in Int
  BY <1>1
<1>5. CASE b >= a
  <2> DEFINE d == (y - x) - (b - a)
  <2>1. d = (q - p) * m /\ -m < d /\ d < m /\ d \in Int
    BY <1>1, <1>2, <1>3, <1>4, <1>5
  <2>2. d = 0
    <3> HIDE DEF d
    <3> QED
      BY <1>1, <2>1, Multiple
  <2>3. b - a = y - x
    BY <1>1, <2>2
  <2>4. (y - x) % m = y - x
    OBVIOUS
  <2> QED
    BY <2>3, <2>4 DEF a, b
<1>6. CASE b < a
  <2> DEFINE d == (y - x) - (b - a) - m
  <2>1. d = (q - p - 1) * m /\ -m < d /\ d < m /\ d \in Int
    BY <1>1, <1>2, <1>3, <1>4, <1>6
  <2>2. d = 0
    <3> HIDE DEF d
    <3> QED
      BY <1>1, <2>1, Multiple
  <2>3. b - a = (y - x) - m
    BY <1>1, <2>2
  <2>4. ((y - x) - m) % m = y - x
    OBVIOUS
  <2> QED
    BY <2>3, <2>4 DEF a, b
<1> QED
  BY <1>1, <1>5, <1>6

\* How a quotient grows with what is divided.
LEMMA QuotientGrows ==
  ASSUME NEW x \in Nat, NEW d \in Nat, NEW m \in Nat \ {0},
         NEW n, n = ((x + d) \div m) - (x \div m)
  PROVE  /\ n \in Nat
         /\ (n + 1) * m > d /\ (n - 1) * m < d
<1> DEFINE p == x \div m
           q == (x + d) \div m
           a == x % m
           b == (x + d) % m
<1>1. /\ p \in Nat /\ a \in 0..(m - 1) /\ x = p * m + a
      /\ q \in Nat /\ b \in 0..(m - 1) /\ x + d = q * m + b
  <2>1. x + d \in Nat
    OBVIOUS
  <2> QED
    BY <2>1, Quotient
<1>2. n = q - p
  OBVIOUS
<1> HIDE DEF p, q, a, b
<1>3. /\ (n + 1) * m = q * m - p * m + m /\ (n - 1) * m = q * m - p * m - m
      /\ q * m \in Int /\ p * m \in Int
  BY <1>1, <1>2
<1>4. (n + 1) * m > d /\ (n - 1) * m < d
  BY <1>1, <1>3
<1>5. n \in Nat
  <2>1. ASSUME n + 1 <= 0 PROVE FALSE
    <3>1. (n + 1) * m <= 0
      BY <1>1, <1>2, <2>1
    <3> QED
      BY <1>1, <1>2, <1>4, <3>1
  <2> QED
    BY <1>1, <1>2, <2>1
<1> QED
  BY <1>4, <1>5

\* A number is less than another one when a multiple of it is.
LEMMA ProductLess ==
  ASSUME NEW a \in Int, NEW b \in Int, NEW m \in Nat \ {0}, a * m < b * m
  PROVE  a < b
OBVIOUS

\* The time of n packets: the property looks at it for the packets since the last PCR.
Time(n) == n * PacketSize * TicksPerByte

\* The ticks of n packets after c of them, and of n packets and the offset of the PCR.
LEMMA TicksOfPackets ==
  ASSUME NEW c \in Nat, NEW n \in Nat
  PROVE  LET ticks == Stamper!TicksAt(c + n) - Stamper!TicksAt(c)
         IN  /\ Stamper!TicksAt(c) \in Nat /\ ticks \in Nat
             /\ (ticks + 1) * trbits > Time(n) /\ (ticks - 1) * trbits < Time(n)
<1> DEFINE x == (c * PacketSize + PcrOffset) * TicksPerByte
           d == Time(n)
<1>1. /\ PacketSize \in Nat /\ PcrOffset \in Nat /\ TicksPerByte \in Nat
      /\ trbits \in Nat \ {0}
  BY ShapingAssumption DEF Stamper!PcrStampAssumption
<1>2. x \in Nat /\ d \in Nat
  BY <1>1 DEF Time
<1>3. ((c + n) * PacketSize + PcrOffset) * TicksPerByte = x + d
  <2>1. (c + n) * PacketSize = c * PacketSize + n * PacketSize
    BY <1>1
  <2>2. c * PacketSize \in Nat /\ n * PacketSize \in Nat
    BY <1>1
  <2> DEFINE y == c * PacketSize
             z == n * PacketSize
  <2> HIDE DEF y, z
  <2>3. (y + z + PcrOffset) * TicksPerByte = (y + PcrOffset) * TicksPerByte + z * TicksPerByte
    BY <1>1, <2>2 DEF y, z
  <2> QED
    BY <2>1, <2>3 DEF y, z, Time
<1>4. x \div trbits \in Nat
  <2> HIDE DEF x
  <2> QED
    BY <1>1, <1>2, Quotient
<1> DEFINE n2 == ((x + d) \div trbits) - (x \div trbits)
<1>5. n2 \in Nat /\ (n2 + 1) * trbits > d /\ (n2 - 1) * trbits < d
  <2> HIDE DEF x, d
  <2> QED
    BY <1>1, <1>2, QuotientGrows
<1>6. Stamper!TicksAt(c) = x \div trbits /\ Stamper!TicksAt(c + n) = (x + d) \div trbits
  BY <1>3 DEF Stamper!TicksAt
<1> HIDE DEF x
<1> QED
  BY <1>4, <1>5, <1>6

LEMMA TicksFromStart ==
  ASSUME NEW n \in Nat
  PROVE  LET ticks == Stamper!TicksAt(n)
         IN  /\ ticks \in Nat
             /\ (ticks + 1) * trbits > Time(n)
             /\ ticks * trbits <= Time(n) + PcrOffset * TicksPerByte
<1> DEFINE x == (n * PacketSize + PcrOffset) * TicksPerByte
           o == PcrOffset * TicksPerByte
<1>1. /\ PacketSize \in Nat /\ PcrOffset \in Nat /\ TicksPerByte \in Nat
      /\ trbits \in Nat \ {0}
  BY ShapingAssumption DEF Stamper!PcrStampAssumption
<1>2. x \in Nat /\ Time(n) \in Nat /\ o \in Nat /\ x = Time(n) + o
  BY <1>1 DEF Time
<1> DEFINE q == x \div trbits
           r == x % trbits
<1> HIDE DEF x, o
<1>3. q \in Nat /\ r \in 0..(trbits - 1) /\ x = q * trbits + r
  BY <1>1, <1>2, Quotient
<1>4. Stamper!TicksAt(n) = q
  BY DEF Stamper!TicksAt, x
<1> HIDE DEF q, r
<1>5. (q + 1) * trbits = q * trbits + trbits /\ q * trbits \in Int
  BY <1>1, <1>3
<1>6. (q + 1) * trbits > Time(n) /\ q * trbits <= Time(n) + o
  BY <1>1, <1>2, <1>3, <1>5
<1> QED
  BY <1>3, <1>4, <1>6 DEF o

\* Half of MaxCount packets and two more take less time than the PCR needs to wrap: so it is
\* from 3.6 Mbit/s on.
FastEnough == (MaxCount + 4) * PacketSize * TicksPerByte <= 2 * (PcrMod - 1) * trbits

LEMMA GapIsShort ==
  ASSUME FastEnough, NEW n \in Nat \ {0}, (n - 1) * 2 < MaxCount
  PROVE  Time(n) + PcrOffset * TicksPerByte < (PcrMod - 1) * trbits
<1> DEFINE b == PacketSize * TicksPerByte
           o == PcrOffset * TicksPerByte
           w == (PcrMod - 1) * trbits
<1>1. /\ PacketSize \in Nat \ {0} /\ PcrOffset \in Nat /\ PcrOffset < PacketSize
      /\ TicksPerByte \in Nat \ {0}
      /\ trbits \in Nat \ {0} /\ MaxCount \in Nat \ {0} /\ PcrMod \in Nat \ {0}
  BY ShapingAssumption DEF Stamper!PcrStampAssumption
<1>2. b \in Nat /\ o \in Nat /\ o < b /\ w \in Int
  <2>1. PcrOffset * TicksPerByte < PacketSize * TicksPerByte
    BY <1>1
  <2> QED
    BY <1>1, <2>1
<1>3. Time(n) = n * b
  BY <1>1 DEF Time
<1>4. (MaxCount + 4) * b <= 2 * w
  <2>1. (MaxCount + 4) * PacketSize * TicksPerByte = (MaxCount + 4) * b
    BY <1>1
  <2>2. 2 * (PcrMod - 1) * trbits = 2 * w
    BY <1>1
  <2> QED
    BY <2>1, <2>2 DEF FastEnough
<1> HIDE DEF b, o, w
<1>5. (2 * n + 2) * b <= (MaxCount + 4) * b
  <2>1. 2 * n + 2 <= MaxCount + 4
    BY <1>1
  <2> QED
    BY <1>1, <1>2, <2>1
<1>6. (2 * n + 2) * b = 2 * (n * b + b) /\ n * b \in Nat /\ (MaxCount + 4) * b \in Nat
  BY <1>1, <1>2
<1> QED
  BY <1>2, <1>3, <1>4, <1>5, <1>6 DEF o, w

-----------------------------------------------------------------------------
\* The position that the last PCR was computed from: the count before it or, where the
\* count began anew, the PCR itself.
References ==
  {Stamper!TicksAt(count - 1 - moved) + rounding} \cup {r \in {rounding} : count = moved + 1}

Pcrs ==
  /\ count \in Nat /\ moved \in Nat /\ rounding \in Nat
  /\ measured \in [pcr : Nat, since : Nat, report : [ticks : Nat \cup {NoPcr}, packets : Nat]]
  /\ stamped # NoPcr =>
       /\ moved < count /\ measured.pcr = stamped /\ measured.since = moved
       /\ \E reference \in References : stamped = reference % PcrMod

LEMMA ModuloOnce ==
  ASSUME NEW x \in Nat, NEW m \in Nat \ {0}, x >= m
  PROVE  x % m = (x - m) % m
<1> DEFINE p == x \div m
           q == (x - m) \div m
           a == x % m
           b == (x - m) % m
<1>1. /\ p \in Nat /\ a \in 0..(m - 1) /\ x = p * m + a
      /\ q \in Nat /\ b \in 0..(m - 1) /\ x - m = q * m + b
  <2>1. x - m \in Nat
    OBVIOUS
  <2> QED
    BY <2>1, Quotient
<1> HIDE DEF p, q, a, b
<1> DEFINE d == b - a
<1>2. /\ (p - q - 1) * m = p * m - q * m - m
      /\ p * m \in Int /\ q * m \in Int
  BY <1>1
<1>3. d = (p - q - 1) * m /\ d \in Int /\ -m < d /\ d < m
  BY <1>1, <1>2
<1>4. d = 0
  <2> HIDE DEF d
  <2> QED
    BY <1>1, <1>3, Multiple
<1> QED
  BY <1>1, <1>4 DEF a, b

LEMMA NewPcrIsNumber ==
  ASSUME Pcrs
  PROVE  Stamper!NewPcr \in Nat /\ Stamper!NewPcr = Stamper!TicksAt(count) + rounding
BY TicksFromStart DEF Pcrs, Stamper!NewPcr

LEMMA StampKeepsPcrs ==
  ASSUME Pcrs, Stamper!StampPcr
  PROVE  Pcrs'
<1> DEFINE new == Stamper!NewPcr
<1>1. PcrMod \in Nat \ {0}
  BY ShapingAssumption DEF Stamper!PcrStampAssumption
<1>2. new \in Nat /\ new = Stamper!TicksAt(count) + rounding
  BY NewPcrIsNumber
<1>3. /\ stamped' = new % PcrMod /\ moved' = 0
      /\ measured' = [pcr |-> new % PcrMod, since |-> 0, report |-> Stamper!Report(new % PcrMod)]
      /\ count' = Stamper!BaseAfter(new).count + 1
      /\ rounding' = Stamper!BaseAfter(new).rounding
  BY DEF Stamper!StampPcr, Stamper!Measure
<1>4. \/ count' = 1 /\ rounding' = new - PcrMod /\ new >= PcrMod
      \/ count' = 1 /\ rounding' = new
      \/ count' = count + 1 /\ rounding' = rounding
  BY <1>2, <1>3 DEF Stamper!BaseAfter, Pcrs
<1> HIDE DEF new
<1>5. count' \in Nat /\ rounding' \in Nat /\ moved' < count'
  BY <1>1, <1>2, <1>3, <1>4 DEF Pcrs
<1>6. new % PcrMod \in Nat
  BY <1>1, <1>2, Quotient
<1>7. Stamper!Report(new % PcrMod) \in [ticks : Nat \cup {NoPcr}, packets : Nat]
  <2>1. measured.report \in [ticks : Nat \cup {NoPcr}, packets : Nat]
        /\ measured.pcr \in Nat /\ measured.since \in Nat
    BY DEF Pcrs
  <2> DEFINE to == new % PcrMod
  <2>2. to \in Nat
    BY <1>6
  <2> HIDE DEF to
  <2>3. Stamper!Report(to) \in [ticks : Nat \cup {NoPcr}, packets : Nat]
    BY <2>1, <2>2 DEF Stamper!Report
  <2> QED
    BY <2>3 DEF to
<1>8. \E reference \in References' : stamped' = reference % PcrMod
  <2>1. CASE count' = 1 /\ rounding' = new - PcrMod /\ new >= PcrMod
    <3>1. (new - PcrMod) \in References'
      BY <1>3, <2>1 DEF References
    <3>2. new % PcrMod = (new - PcrMod) % PcrMod
      BY <1>1, <1>2, <2>1, ModuloOnce
    <3> QED
      BY <1>3, <3>1, <3>2, Zenon
  <2>2. CASE count' = 1 /\ rounding' = new
    <3>1. new \in References'
      BY <1>3, <2>2 DEF References
    <3> QED
      BY <1>3, <3>1
  <2>3. CASE count' = count + 1 /\ rounding' = rounding
    <3>1. count' - 1 - moved' = count
      BY <1>3, <2>3 DEF Pcrs
    <3>2. new \in References'
      BY <1>2, <2>3, <3>1 DEF References, Stamper!TicksAt
    <3> QED
      BY <1>3, <3>2
  <2> QED
    BY <1>4, <2>1, <2>2, <2>3
<1> QED
  BY <1>3, <1>5, <1>6, <1>7, <1>8 DEF Pcrs

LEMMA NoStampKeepsPcrs ==
  ASSUME Pcrs, Stamper!NoStamp
  PROVE  Pcrs'
<1>1. /\ count' = count + 1 /\ moved' = moved + 1
      /\ measured' = [measured EXCEPT !.since = measured.since + 1]
      /\ UNCHANGED <<rounding, stamped>>
  BY DEF Stamper!NoStamp
<1>2. count' - 1 - moved' = count - 1 - moved /\ (count' = moved' + 1 <=> count = moved + 1)
  BY <1>1 DEF Pcrs
<1>3. References' = References
  BY <1>1, <1>2 DEF References, Stamper!TicksAt
<1>4. /\ measured' \in [pcr : Nat, since : Nat,
                        report : [ticks : Nat \cup {NoPcr}, packets : Nat]]
      /\ measured'.pcr = measured.pcr /\ measured'.since = measured.since + 1
  BY <1>1 DEF Pcrs
<1>5. count' \in Nat /\ moved' \in Nat /\ rounding' \in Nat /\ (moved < count => moved' < count')
  BY <1>1 DEF Pcrs
<1> QED
  BY <1>1, <1>3, <1>4, <1>5 DEF Pcrs

\* A PCR that is stamped follows the one before it.
LEMMA StampFollows ==
  ASSUME FastEnough, Pcrs, Stamper!StampPcr, stamped # NoPcr, moved * 2 < MaxCount
  PROVE  LET ticks == Stamper!Ticks(stamped, stamped')
             bytes == (moved + 1) * PacketSize * TicksPerByte
         IN  /\ (ticks + 1) * trbits > bytes
             /\ (ticks - 2) * trbits < bytes + PcrOffset * TicksPerByte
             /\ stamped' > stamped /\ stamped > 0
                   => measured'.report = [ticks |-> ticks, packets |-> moved + 1]
<1> DEFINE new == Stamper!NewPcr
           n == moved + 1
           o == PcrOffset * TicksPerByte
           ticks == Stamper!Ticks(stamped, stamped')
<1>1. /\ PcrMod \in Nat \ {0} /\ trbits \in Nat \ {0} /\ o \in Nat
  BY ShapingAssumption DEF Stamper!PcrStampAssumption
<1>2. /\ new \in Nat /\ new = Stamper!TicksAt(count) + rounding
      /\ rounding \in Nat /\ count \in Nat /\ moved \in Nat /\ moved < count
  BY NewPcrIsNumber DEF Pcrs
<1>3. n \in Nat \ {0} /\ (n - 1) * 2 < MaxCount /\ Time(n) \in Nat
  BY <1>2, ShapingAssumption DEF Stamper!PcrStampAssumption, Time
<1>4. stamped' = new % PcrMod
  BY DEF Stamper!StampPcr
<1>5. PICK reference \in References : stamped = reference % PcrMod
  BY DEF Pcrs
<1> HIDE DEF new, n, o
<1> DEFINE d == new - reference
<1>6. /\ reference \in Nat /\ d \in Nat /\ d < PcrMod
      /\ (d + 1) * trbits > Time(n) /\ (d - 2) * trbits < Time(n) + o
  <2>0. Time(n) + o < (PcrMod - 1) * trbits
    BY <1>3, GapIsShort DEF o
  <2>1. CASE reference = Stamper!TicksAt(count - 1 - moved) + rounding
    <3> DEFINE c == count - 1 - moved
               t == Stamper!TicksAt(c)
    <3>1. c \in Nat /\ c + n = count
      BY <1>2 DEF n
    <3> HIDE DEF c
    <3>2. d = Stamper!TicksAt(count) - t
      <4>1. Stamper!TicksAt(c) \in Nat /\ Stamper!TicksAt(count) \in Nat
        BY <1>2, <3>1, TicksFromStart
      <4>2. reference = t + rounding
        BY <2>1 DEF c
      <4> HIDE DEF t
      <4> QED
        BY <1>2, <4>1, <4>2 DEF t
    <3>3. /\ t \in Nat /\ d \in Nat
          /\ (d + 1) * trbits > Time(n) /\ (d - 1) * trbits < Time(n)
      <4> HIDE DEF d
      <4> QED
        BY <1>3, <3>1, <3>2, TicksOfPackets
    <3> HIDE DEF d
    <3>4. (d - 1) * trbits < (PcrMod - 1) * trbits
      <4>1. (d - 1) * trbits \in Int /\ (PcrMod - 1) * trbits \in Int
        BY <1>1, <3>3
      <4> QED
        BY <1>1, <1>3, <2>0, <3>3, <4>1
    <3>5. d - 1 < PcrMod - 1
      BY <1>1, <3>3, <3>4, ProductLess
    <3>6. (d - 2) * trbits < Time(n) + o
      <4>1. (d - 2) * trbits = (d - 1) * trbits - trbits /\ (d - 1) * trbits \in Int
        BY <1>1, <3>3
      <4> QED
        BY <1>1, <1>3, <3>3, <4>1
    <3>7. reference \in Nat
      BY <1>2, <2>1, <3>3 DEF c
    <3> QED
      BY <1>1, <3>3, <3>5, <3>6, <3>7
  <2>2. CASE reference = rounding /\ count = n
    <3> DEFINE t == Stamper!TicksAt(n)
    <3>1. /\ t \in Nat /\ (t + 1) * trbits > Time(n) /\ t * trbits <= Time(n) + o
      BY <1>3, TicksFromStart DEF o
    <3>2. d = t
      BY <1>2, <2>2, <3>1
    <3> HIDE DEF d, t
    <3>3. t * trbits < (PcrMod - 1) * trbits
      <4>1. t * trbits \in Int /\ (PcrMod - 1) * trbits \in Int
        BY <1>1, <3>1
      <4> QED
        BY <1>1, <1>3, <2>0, <3>1, <4>1
    <3>4. t < PcrMod - 1
      BY <1>1, <3>1, <3>3, ProductLess
    <3>5. (t - 2) * trbits < Time(n) + o
      <4>1. (t - 2) * trbits = t * trbits - 2 * trbits /\ t * trbits \in Int
        BY <1>1, <3>1
      <4> QED
        BY <1>1, <1>3, <3>1, <4>1
    <3> QED
      BY <1>1, <1>2, <2>2, <3>1, <3>2, <3>4, <3>5
  <2> QED
    BY <1>5, <2>1, <2>2 DEF References, n
<1>7. ticks = d
  <2>1. reference <= new /\ new - reference < PcrMod
    BY <1>2, <1>6
  <2> QED
    BY <1>1, <1>2, <1>4, <1>5, <1>6, <2>1, Modulo DEF Stamper!Ticks
<1>8. ASSUME stamped' > stamped, stamped > 0
      PROVE  measured'.report = [ticks |-> ticks, packets |-> moved + 1]
  <2>1. stamped \in 0..(PcrMod - 1) /\ stamped' \in 0..(PcrMod - 1)
    BY <1>1, <1>2, <1>4, <1>5, <1>6, Quotient
  <2>2. ticks = stamped' - stamped
    BY <1>1, <1>8, <2>1 DEF Stamper!Ticks
  <2>3. measured.pcr = stamped /\ measured.since = moved
    BY DEF Pcrs
  <2>4. measured'.report = Stamper!Report(stamped')
    BY DEF Stamper!StampPcr, Stamper!Measure
  <2>5. measured.pcr # 0 /\ stamped' >= measured.pcr
    BY <1>8, <2>1, <2>3
  <2>6. Stamper!Report(stamped') = [ticks |-> stamped' - stamped, packets |-> moved + 1]
    BY <2>3, <2>5 DEF Stamper!Report
  <2> HIDE DEF ticks
  <2> QED
    BY <2>2, <2>4, <2>6
<1>9. (moved + 1) * PacketSize * TicksPerByte = Time(n)
  BY DEF Time, n
<1> HIDE DEF d, ticks
<1> QED
  BY <1>6, <1>7, <1>8, <1>9 DEF ticks, o

\* The clock of the stream goes on with the positions of the packets, over the wraps of the
\* PCR and of the counter, and tspcrmeasure reports what was stamped.
THEOREM ClockFollowsPosition ==
  ASSUME FastEnough
  PROVE  Spec => PcrFollowsPosition
<1>1. Init => Pcrs
  BY ShapingAssumption
    DEF Init, Stamper!StampInit, Stamper!NoReport, Stamper!PcrStampAssumption, Pcrs
<1>2. [Next]_vars => \/ UNCHANGED stamp
                     \/ Stamper!StampPcr
                     \/ Stamper!NoStamp
  BY DEF Next, Fill, ToCbr, SendNull, Shape, Restamp, Host, vars, Stamper!StampPacket
<1>3. Pcrs /\ [Next]_vars => Pcrs'
  <2> SUFFICES ASSUME Pcrs, [Next]_vars PROVE Pcrs'
    OBVIOUS
  <2>1. CASE UNCHANGED stamp
    BY <2>1 DEF stamp, Pcrs, References, Stamper!TicksAt
  <2> QED
    BY <1>2, <2>1, StampKeepsPcrs, NoStampKeepsPcrs
<1> DEFINE A == stamped' # stamped /\ stamped # NoPcr /\ moved * 2 < MaxCount
       => LET ticks == Stamper!Ticks(stamped, stamped')
              bytes == (moved + 1) * PacketSize * TicksPerByte
          IN  /\ (ticks + 1) * trbits > bytes
              /\ (ticks - 2) * trbits < bytes + PcrOffset * TicksPerByte
              /\ stamped' > stamped /\ stamped > 0
                   => measured'.report = [ticks |-> ticks, packets |-> moved + 1]
<1>4. Pcrs /\ [Next]_vars => [A]_vars
  <2> SUFFICES ASSUME Pcrs, [Next]_vars, stamped' # stamped PROVE A
    BY DEF vars
  <2>1. Stamper!StampPcr
    BY <1>2 DEF stamp, Stamper!NoStamp
  <2> QED
    BY <2>1, StampFollows
<1>5. Spec => [][A]_vars
  <2> HIDE DEF A
  <2> QED
    BY <1>1, <1>3, <1>4, PTL DEF Spec
<1> QED
  BY <1>5 DEF PcrFollowsPosition

-----------------------------------------------------------------------------
(* tsvbr2cbr, over an input of a steady bitrate.                             *)

\* The input begins with a packet that has a PCR, and no PCR is 0, which is taken for none.
StartsWithPcr(f) ==
  /\ f # <<>> /\ f[1].pcr # NoPcr
  /\ \A k \in DOMAIN f : f[k].pcr # NoPcr => f[k].pcr \in Nat \ {0}

\* A PCR below the first half turn of a 32-bit base is read as it is.
LEMMA ReadsAsItIs ==
  ASSUME NEW p \in Nat, p < HalfClock
  PROVE  Vbr!ReadPcr(p) = p
<1>1. HalfClock \in Nat \ {0}
  BY ShapingAssumption DEF Vbr!Vbr2CbrAssumption
<1>2. p % HalfClock = p /\ p \div HalfClock = 0
  BY <1>1
<1>3. (p \div HalfClock) % 2 # 1
  BY <1>2
<1> QED
  BY <1>2, <1>3 DEF Vbr!ReadPcr

\* From each PCR to the next the bitrate is rate.
AtRate(f, rate) ==
  \A a, b \in DOMAIN f :
    /\ a < b /\ f[a].pcr # NoPcr /\ f[b].pcr # NoPcr
    /\ \A k \in (a + 1)..(b - 1) : f[k].pcr = NoPcr
    => (b - a) * ClockFrequency = rate * (f[b].pcr - f[a].pcr)

LEMMA LargestNumber ==
  ASSUME NEW n \in Nat, NEW S, S \subseteq 1..n, S # {}
  PROVE  \E m \in S : \A k \in S : m >= k
<1> DEFINE D == {n - k : k \in S}
<1>1. D \subseteq Nat /\ D # {}
  <2>1. PICK s \in S : TRUE
    OBVIOUS
  <2>2. n - s \in D
    BY <2>1
  <2>3. ASSUME NEW k \in S PROVE n - k \in Nat
    OBVIOUS
  <2> QED
    BY <2>2, <2>3
<1>2. PICK d \in D : \A e \in D : d <= e
  <2> HIDE DEF D
  <2> QED
    BY <1>1, LeastNumber
<1>3. PICK m \in S : d = n - m
  BY <1>2
<1>4. ASSUME NEW k \in S PROVE m >= k
  <2>1. n - m <= n - k
    BY <1>2, <1>3
  <2>2. m \in Nat /\ k \in Nat
    OBVIOUS
  <2> QED
    BY <2>1, <2>2
<1> QED
  BY <1>4

LEMMA SteadyAtRate ==
  ASSUME NEW P, NEW f \in Seq(P), IsSteady(f)
  PROVE  \E rate \in 1..vbrBits : AtRate(f, rate)
<1> DEFINE at == {k \in DOMAIN f : f[k].pcr # NoPcr}
           after(k) == Min({j \in at : j > k})
<1>1. PICK rate \in 1..vbrBits : \A k \in at \ {Max(at)} :
        (after(k) - k) * ClockFrequency = rate * (f[after(k)].pcr - f[k].pcr)
  BY DEF IsSteady
<1>2. ASSUME NEW a \in DOMAIN f, NEW b \in DOMAIN f, a < b,
             f[a].pcr # NoPcr, f[b].pcr # NoPcr,
             \A k \in (a + 1)..(b - 1) : f[k].pcr = NoPcr
      PROVE  (b - a) * ClockFrequency = rate * (f[b].pcr - f[a].pcr)
  <2>1. a \in at /\ b \in at /\ at \subseteq 1..Len(f) /\ Len(f) \in Nat
    BY <1>2
  <2>2. a # Max(at)
    <3> HIDE DEF at
    <3>1. \E m \in at : \A k \in at : m >= k
      BY <2>1, LargestNumber
    <3>2. \A k \in at : Max(at) >= k
      BY <3>1 DEF Max
    <3> QED
      BY <1>2, <2>1, <3>2
  <2>3. after(a) = b
    <3> DEFINE L == {j \in at : j > a}
    <3>1. b \in L /\ \A j \in L : b <= j
      <4>1. ASSUME NEW j \in at, j > a PROVE b <= j
        <5>1. j \notin (a + 1)..(b - 1)
          BY <1>2, <4>1
        <5> QED
          BY <4>1, <5>1
      <4> QED
        BY <1>2, <2>1, <4>1
    <3>2. L \subseteq Nat
      BY <2>1
    <3> HIDE DEF L
    <3>3. \A x \in L : (\A j \in L : x <= j) => x = b
      BY <3>1, <3>2
    <3>4. Min(L) = b
      BY <3>1, <3>3 DEF Min
    <3> QED
      BY <3>4 DEF L
  <2> HIDE DEF at, after
  <2>4. (after(a) - a) * ClockFrequency = rate * (f[after(a)].pcr - f[a].pcr)
    BY <1>1, <2>1, <2>2
  <2> QED
    BY <2>3, <2>4
<1>3. AtRate(f, rate)
  <2> HIDE DEF at, after
  <2> QED
    BY <1>2 DEF AtRate
<1> QED
  BY <1>3

-----------------------------------------------------------------------------
(* What tsvbr2cbr has read of its input F, and how the written packets count. *)

VbrTypes(P) ==
  /\ vcount \in Nat /\ lastIndex \in Nat /\ vbits \in Nat /\ vwritten \in Nat
  /\ vbuffer \in Seq(P) /\ flushed \in Nat /\ fcounter \in Nat /\ ucounter \in Nat
  /\ vpacket \in P /\ input \in Seq(P)
  /\ (veof => pc # "read")

\* The packets read: those of the count and the one that is looked at.
PacketsRead == IF pc = "read" THEN vcount ELSE vcount + 1

\* The input goes on after them, and the last PCR of them is the one in the table.
Place(F) ==
  ~veof =>
    /\ PacketsRead + Len(input) = Len(F)
    /\ \A k \in 1..Len(input) : input[k] = F[PacketsRead + k]
    /\ PacketsRead > 0 =>
         /\ vpacket = F[PacketsRead]
         /\ lastIndex < PacketsRead /\ F[lastIndex + 1].pcr = lastPcr /\ lastPcr # NoPcr
         /\ \A k \in (lastIndex + 2)..PacketsRead : F[k].pcr = NoPcr

\* The positions of the PCRs are those of the rate.
PcrsInStep(rate) ==
  IF PacketsRead = 0 THEN lastPcr = 0
  ELSE /\ lastPcr \in Nat \ {0} /\ firstPcr \in Nat \ {0}
       /\ lastIndex * ClockFrequency = rate * (lastPcr - firstPcr)

\* Between flushes: the packets up to the last PCR are out, at the rate, but for the time
\* that is carried, which is less than a null packet.
Filling(rate) ==
  /\ PcrsInStep(rate)
  /\ lastIndex + Len(vbuffer) = vcount
  /\ flushed = 0 /\ ucounter = 0 /\ fcounter < rate
  /\ vwritten * rate + fcounter = lastIndex * vbrBits

\* While the buffer is flushed: the same for the packets up to the one written last.
Flushing(rate) ==
  /\ PcrsInStep(rate)
  /\ lastIndex = vcount /\ vbits = rate /\ flushed <= Len(vbuffer)
  /\ ucounter <= fcounter /\ (flushed = 0 => fcounter < ucounter + rate)
  /\ vwritten * rate + (fcounter - ucounter) = (vcount - Len(vbuffer) + flushed) * vbrBits

\* When the last packet has a PCR, the rate up to its second reading is taken for 0, and null
\* packets are written for ever.
Hanging == veof /\ vbits = 0 /\ vbuffer # <<>> /\ ucounter <= fcounter

Keeps(P, F, rate) ==
  /\ VbrTypes(P)
  /\ pc \in {"read", "flush", "fill"} => Place(F)
  /\ pc \in {"read", "fill"} => Filling(rate)
  /\ pc = "flush" => Flushing(rate) \/ Hanging

LEMMA RateTypes ==
  /\ vbrBits \in Nat \ {0} /\ ClockFrequency \in Nat \ {0}
  /\ \A rate \in 1..vbrBits : rate \in Nat \ {0} /\ rate <= vbrBits
BY ShapingAssumption DEF Vbr!Vbr2CbrAssumption

LEMMA VbrInitKeeps ==
  ASSUME NEW P, Unset \in P, NEW F \in Seq(P), NEW rate \in 1..vbrBits,
         Vbr!VbrInit, input = F
  PROVE  Keeps(P, F, rate)
<1>1. /\ vpacket = Unset /\ vcount = 0 /\ lastPcr = 0 /\ lastIndex = 0 /\ vbits = vbrBits
      /\ vbuffer = <<>> /\ flushed = 0 /\ fcounter = 0 /\ ucounter = 0 /\ veof = FALSE
      /\ pc = "read" /\ vwritten = 0
  BY DEF Vbr!VbrInit
<1>2. VbrTypes(P)
  BY <1>1, RateTypes DEF VbrTypes
<1>3. Place(F)
  BY <1>1 DEF Place, PacketsRead
<1>4. Filling(rate)
  BY <1>1, RateTypes DEF Filling, PcrsInStep, PacketsRead
<1> QED
  BY <1>1, <1>2, <1>3, <1>4 DEF Keeps

LEMMA FillKeeps ==
  ASSUME NEW P, NEW F \in Seq(P), NEW rate \in 1..vbrBits, Keeps(P, F, rate), Vbr!Fill
  PROVE  Keeps(P, F, rate)'
<1>1. /\ pc = "fill" /\ vbuffer' = Append(vbuffer, vpacket) /\ vcount' = vcount + 1
      /\ pc' \in {"exit", "done", "read"} /\ (pc' = "read" => ~veof)
      /\ UNCHANGED <<input, vpacket, lastPcr, lastIndex, vbits, flushed, fcounter, ucounter,
                     veof, vwritten, firstPcr>>
  BY DEF Vbr!Fill
<1>2. VbrTypes(P) /\ Place(F) /\ Filling(rate)
  BY <1>1 DEF Keeps
<1>3. VbrTypes(P)' /\ Len(vbuffer') = Len(vbuffer) + 1
  BY <1>1, <1>2 DEF VbrTypes
<1>4. CASE pc' = "read"
  <2>1. PacketsRead' = PacketsRead
    BY <1>1, <1>4 DEF PacketsRead
  <2>2. Place(F)'
    BY <1>1, <1>2, <2>1 DEF Place
  <2>3. Filling(rate)'
    <3>1. PcrsInStep(rate)'
      BY <1>1, <1>2, <2>1 DEF Filling, PcrsInStep
    <3>2. lastIndex' + Len(vbuffer') = vcount'
      <4>1. /\ lastIndex + Len(vbuffer) = vcount
            /\ lastIndex \in Nat /\ vcount \in Nat /\ Len(vbuffer) \in Nat
        BY <1>2 DEF Filling, VbrTypes
      <4>2. vcount' = vcount + 1 /\ lastIndex' = lastIndex
        BY <1>1
      <4> QED
        BY <1>3, <4>1, <4>2
    <3> QED
      BY <1>1, <1>2, <3>1, <3>2 DEF Filling
  <2> QED
    BY <1>3, <1>4, <2>2, <2>3 DEF Keeps
<1> QED
  BY <1>1, <1>3, <1>4 DEF Keeps

LEMMA FlushNullKeeps ==
  ASSUME NEW P, NEW F \in Seq(P), NEW rate \in 1..vbrBits, Keeps(P, F, rate), Vbr!FlushNull
  PROVE  Keeps(P, F, rate)'
<1>1. /\ pc = "flush" /\ flushed > 0 /\ ucounter + vbits <= fcounter
      /\ vwritten' = vwritten + 1 /\ ucounter' = ucounter + vbits
      /\ UNCHANGED <<input, vpacket, vcount, lastPcr, lastIndex, vbits, vbuffer, flushed,
                     fcounter, veof, pc, firstPcr>>
  BY DEF Vbr!FlushNull, Vbr!TimeForNull
<1>2. VbrTypes(P) /\ Place(F) /\ (Flushing(rate) \/ Hanging)
  BY <1>1 DEF Keeps
<1>3. VbrTypes(P)' /\ Place(F)'
  <2>1. VbrTypes(P)'
    BY <1>1, <1>2 DEF VbrTypes
  <2>2. PacketsRead' = PacketsRead
    BY <1>1 DEF PacketsRead
  <2>3. Place(F)'
    BY <1>1, <1>2, <2>2 DEF Place
  <2> QED
    BY <2>1, <2>3
<1>4. Hanging => Hanging'
  BY <1>1, <1>2 DEF Hanging, VbrTypes
<1>5. ASSUME Flushing(rate) PROVE Flushing(rate)'
  <2>1. /\ rate \in Nat \ {0} /\ vbits = rate
        /\ vwritten' * rate = vwritten * rate + rate /\ vwritten * rate \in Nat
    BY <1>1, <1>2, <1>5, RateTypes DEF Flushing, VbrTypes
  <2>2. vwritten' * rate + (fcounter' - ucounter') = vwritten * rate + (fcounter - ucounter)
    BY <1>1, <1>2, <2>1 DEF VbrTypes
  <2>3. PcrsInStep(rate)'
    BY <1>1, <1>5 DEF Flushing, PcrsInStep, PacketsRead
  <2> QED
    BY <1>1, <1>2, <1>5, <2>1, <2>2, <2>3 DEF Flushing, VbrTypes
<1> QED
  BY <1>1, <1>2, <1>3, <1>4, <1>5 DEF Keeps

LEMMA FlushPacketKeeps ==
  ASSUME NEW P, NEW F \in Seq(P), NEW rate \in 1..vbrBits, Keeps(P, F, rate), Vbr!FlushPacket
  PROVE  Keeps(P, F, rate)'
<1>1. /\ pc = "flush" /\ ~(flushed > 0 /\ ucounter + vbits <= fcounter)
      /\ flushed < Len(vbuffer) /\ flushed' = flushed + 1
      /\ vwritten' = vwritten + 1
      /\ fcounter' = fcounter + vbrBits /\ ucounter' = ucounter + vbits
      /\ UNCHANGED <<input, vpacket, vcount, lastPcr, lastIndex, vbits, vbuffer, veof, pc,
                     firstPcr>>
  BY DEF Vbr!FlushPacket, Vbr!TimeForNull
<1>2. VbrTypes(P) /\ Place(F) /\ (Flushing(rate) \/ Hanging)
  BY <1>1 DEF Keeps
<1>3. VbrTypes(P)' /\ Place(F)'
  <2>1. VbrTypes(P)'
    BY <1>1, <1>2, RateTypes DEF VbrTypes
  <2>2. PacketsRead' = PacketsRead
    BY <1>1 DEF PacketsRead
  <2>3. Place(F)'
    BY <1>1, <1>2, <2>2 DEF Place
  <2> QED
    BY <2>1, <2>3
<1>4. Hanging => Hanging'
  BY <1>1, <1>2, RateTypes DEF Hanging, VbrTypes
<1>5. ASSUME Flushing(rate) PROVE Flushing(rate)'
  <2> DEFINE n == vcount - Len(vbuffer) + flushed
  <2>1. /\ rate \in Nat \ {0} /\ rate <= vbrBits /\ vbits = rate /\ vbrBits \in Nat
        /\ vwritten' * rate = vwritten * rate + rate /\ vwritten * rate \in Nat
    BY <1>1, <1>2, <1>5, RateTypes DEF Flushing, VbrTypes
  <2>2. n \in Int /\ n' = n + 1
    BY <1>1, <1>2 DEF VbrTypes
  <2>3. (n + 1) * vbrBits = n * vbrBits + vbrBits /\ n * vbrBits \in Int
    <3> HIDE DEF n
    <3>1. n \in Int /\ vbrBits \in Nat
      BY <2>1, <2>2
    <3> QED
      BY <3>1
  <2>4. vwritten * rate + (fcounter - ucounter) = n * vbrBits
    BY <1>5 DEF Flushing
  <2> HIDE DEF n
  <2>5. vwritten' * rate + (fcounter' - ucounter') = (n + 1) * vbrBits
    BY <1>1, <1>2, <2>1, <2>3, <2>4 DEF VbrTypes
  <2>6. PcrsInStep(rate)'
    BY <1>1, <1>5 DEF Flushing, PcrsInStep, PacketsRead
  <2>7. ucounter' <= fcounter'
    BY <1>1, <1>2, <1>5, <2>1 DEF Flushing, VbrTypes
  <2>8. (vcount - Len(vbuffer) + flushed)' = n + 1
    BY <2>2 DEF n
  <2>9. flushed' # 0 /\ flushed' <= Len(vbuffer')
    BY <1>1, <1>2 DEF VbrTypes
  <2> QED
    BY <1>1, <1>5, <2>5, <2>6, <2>7, <2>8, <2>9 DEF Flushing
<1> QED
  BY <1>1, <1>2, <1>3, <1>4, <1>5 DEF Keeps

LEMMA FlushEndKeeps ==
  ASSUME NEW P, NEW F \in Seq(P), NEW rate \in 1..vbrBits, Keeps(P, F, rate), Vbr!FlushEnd
  PROVE  Keeps(P, F, rate)'
<1>1. /\ pc = "flush" /\ ~(flushed > 0 /\ ucounter + vbits <= fcounter)
      /\ flushed = Len(vbuffer)
      /\ vbuffer' = <<>> /\ fcounter' = fcounter - ucounter /\ ucounter' = 0 /\ flushed' = 0
      /\ pc' = "fill"
      /\ UNCHANGED <<input, vpacket, vcount, lastPcr, lastIndex, vbits, veof, vwritten,
                     firstPcr>>
  BY DEF Vbr!FlushEnd, Vbr!TimeForNull, Vbr!Carried
<1>2. VbrTypes(P) /\ Place(F) /\ (Flushing(rate) \/ Hanging)
  BY <1>1 DEF Keeps
<1>3. ~Hanging
  <2> SUFFICES ASSUME Hanging PROVE FALSE
    OBVIOUS
  <2>1. Len(vbuffer) > 0 /\ ucounter + vbits <= fcounter
    BY <1>2 DEF Hanging, VbrTypes
  <2> QED
    BY <1>1, <2>1
<1>4. Flushing(rate)
  BY <1>2, <1>3
<1>5. fcounter' \in Nat /\ fcounter' < rate
  BY <1>1, <1>2, <1>4, RateTypes DEF Flushing, VbrTypes
<1>6. VbrTypes(P)' /\ Place(F)'
  BY <1>1, <1>2, <1>5 DEF VbrTypes, Place, PacketsRead
<1>7. Filling(rate)'
  <2>1. PcrsInStep(rate)'
    BY <1>1, <1>4 DEF Flushing, PcrsInStep, PacketsRead
  <2>2. vcount - Len(vbuffer) + flushed = vcount
    BY <1>1, <1>2 DEF VbrTypes
  <2>3. vwritten * rate + (fcounter - ucounter) = vcount * vbrBits
    BY <1>4, <2>2 DEF Flushing
  <2>4. lastIndex + Len(<<>>) = vcount
    BY <1>2, <1>4 DEF Flushing, VbrTypes
  <2> QED
    BY <1>1, <1>4, <1>5, <2>1, <2>3, <2>4 DEF Flushing, Filling
<1> QED
  BY <1>1, <1>6, <1>7 DEF Keeps

\* Reading at the end of the input takes the last packet once more.
LEMMA ReadAgainKeeps ==
  ASSUME NEW P, NEW F \in Seq(P), NEW rate \in 1..vbrBits, StartsWithPcr(F), IsReadable(F),
         Keeps(P, F, rate), Vbr!ReadPacket, input = <<>>
  PROVE  Keeps(P, F, rate)'
<1>1. /\ pc = "read" /\ vpacket' = vpacket /\ input' = input /\ veof' = TRUE /\ flushed' = 0
      /\ IF vpacket.pcr = NoPcr
         THEN pc' = "fill" /\ UNCHANGED <<lastPcr, lastIndex, vbits, firstPcr>>
         ELSE /\ lastIndex' = vcount
              /\ IF lastPcr = 0
                 THEN pc' = "fill" /\ firstPcr' = Vbr!ReadPcr(vpacket.pcr)
                      /\ UNCHANGED vbits
                 ELSE /\ vbits' \in Vbr!Guesses(Vbr!ReadPcr(vpacket.pcr), vcount)
                      /\ pc' = IF vbits' > vbrBits THEN "exit" ELSE "flush"
      /\ UNCHANGED <<vcount, vbuffer, fcounter, ucounter, vwritten>>
  BY DEF Vbr!ReadPacket
<1>2. VbrTypes(P) /\ Place(F) /\ Filling(rate) /\ ~veof
  BY <1>1 DEF Keeps, VbrTypes
<1>3. vcount = Len(F) /\ vcount \in Nat \ {0} /\ PacketsRead = vcount
  <2>1. PacketsRead = vcount /\ Len(input) = 0
    BY <1>1 DEF PacketsRead
  <2>2. Len(F) # 0 /\ Len(F) \in Nat
    BY DEF StartsWithPcr
  <2> QED
    BY <1>2, <2>1, <2>2 DEF Place, VbrTypes
<1>4. /\ vpacket = F[vcount] /\ lastIndex < vcount /\ F[lastIndex + 1].pcr = lastPcr
      /\ \A k \in (lastIndex + 2)..vcount : F[k].pcr = NoPcr
      /\ lastPcr \in Nat \ {0}
  BY <1>2, <1>3 DEF Place, Filling, PcrsInStep
<1>5. CASE vpacket.pcr = NoPcr
  <2>1. /\ pc' = "fill" /\ UNCHANGED <<lastPcr, lastIndex, vbits, firstPcr>>
    BY <1>1, <1>5
  <2>2. VbrTypes(P)' /\ Place(F)'
    BY <1>1, <1>2, <2>1 DEF VbrTypes, Place
  <2>3. PcrsInStep(rate)'
    BY <1>1, <1>2, <1>3, <2>1 DEF Filling, PcrsInStep, PacketsRead
  <2>4. Filling(rate)'
    BY <1>1, <1>2, <2>1, <2>3 DEF Filling
  <2> QED
    BY <2>1, <2>2, <2>4 DEF Keeps
<1>6. CASE vpacket.pcr # NoPcr
  <2>1. lastIndex + 1 = vcount
    <3>1. vcount \notin (lastIndex + 2)..vcount
      BY <1>4, <1>6
    <3> QED
      BY <1>2, <1>3, <1>4, <3>1 DEF VbrTypes
  <2>2. vpacket.pcr = lastPcr /\ Vbr!ReadPcr(vpacket.pcr) = lastPcr
    <3>1. vpacket.pcr = lastPcr
      BY <1>4, <2>1
    <3>2. vcount \in DOMAIN F /\ lastPcr < HalfClock
      BY <1>3, <1>4, <1>6, <3>1 DEF IsReadable
    <3> QED
      BY <1>4, <3>1, <3>2, ReadsAsItIs
  <2>3. /\ lastIndex' = vcount /\ vbits' \in {0, vbrBits + 1}
        /\ pc' = IF vbits' > vbrBits THEN "exit" ELSE "flush"
    BY <1>1, <1>4, <1>6, <2>2 DEF Vbr!Guesses
  <2>4. VbrTypes(P)' /\ Place(F)'
    BY <1>1, <1>2, <2>3, RateTypes DEF VbrTypes, Place
  <2>5. CASE vbits' = vbrBits + 1
    BY <2>3, <2>4, <2>5, RateTypes DEF Keeps
  <2>6. CASE vbits' = 0
    <3>1. pc' = "flush"
      BY <2>3, <2>6, RateTypes
    <3>2. Len(vbuffer) # 0
      BY <1>2, <2>1 DEF Filling, VbrTypes
    <3>3. Hanging'
      BY <1>1, <1>2, <2>6, <3>2 DEF Filling, VbrTypes, Hanging
    <3> QED
      BY <2>4, <3>1, <3>3 DEF Keeps
  <2> QED
    BY <2>3, <2>5, <2>6
<1> QED
  BY <1>5, <1>6

LEMMA ReadNextKeeps ==
  ASSUME NEW P, NEW F \in Seq(P), NEW rate \in 1..vbrBits, StartsWithPcr(F), IsReadable(F),
         AtRate(F, rate), Keeps(P, F, rate), Vbr!ReadPacket, input # <<>>
  PROVE  Keeps(P, F, rate)'
<1> DEFINE n == vcount + 1
           pcr == F[n].pcr
<1>1. /\ pc = "read" /\ vpacket' = Head(input) /\ input' = Tail(input) /\ veof' = FALSE
      /\ flushed' = 0
      /\ IF vpacket'.pcr = NoPcr
         THEN pc' = "fill" /\ UNCHANGED <<lastPcr, lastIndex, vbits, firstPcr>>
         ELSE /\ lastIndex' = vcount
              /\ lastPcr' = Vbr!ReadPcr(vpacket'.pcr)
              /\ IF lastPcr = 0
                 THEN pc' = "fill" /\ firstPcr' = lastPcr' /\ UNCHANGED vbits
                 ELSE /\ vbits' \in Vbr!Guesses(lastPcr', vcount)
                      /\ pc' = IF vbits' > vbrBits THEN "exit" ELSE "flush"
                      /\ UNCHANGED firstPcr
      /\ UNCHANGED <<vcount, vbuffer, fcounter, ucounter, vwritten>>
  BY DEF Vbr!ReadPacket
<1>2. VbrTypes(P) /\ Place(F) /\ Filling(rate) /\ ~veof /\ PacketsRead = vcount
  BY <1>1 DEF Keeps, VbrTypes, PacketsRead
<1>3. /\ vcount + Len(input) = Len(F) /\ Len(input) \in Nat \ {0} /\ Len(F) \in Nat
      /\ \A k \in 1..Len(input) : input[k] = F[vcount + k]
      /\ vcount > 0 => /\ lastIndex < vcount /\ F[lastIndex + 1].pcr = lastPcr
                       /\ lastPcr # NoPcr
                       /\ \A k \in (lastIndex + 2)..vcount : F[k].pcr = NoPcr
  BY <1>2 DEF Place, VbrTypes
<1>4. /\ vpacket' = F[n] /\ vpacket' \in P /\ n \in 1..Len(F) /\ n \in Nat
      /\ input' \in Seq(P) /\ Len(input') = Len(input) - 1
      /\ \A k \in 1..Len(input') : input'[k] = input[k + 1]
  BY <1>1, <1>2, <1>3 DEF VbrTypes
<1>5. ASSUME NEW k \in 1..Len(input') PROVE input'[k] = F[n + k]
  <2>1. k + 1 \in 1..Len(input) /\ vcount + (k + 1) = n + k
    BY <1>2, <1>3, <1>4 DEF VbrTypes
  <2> QED
    BY <1>3, <1>4, <2>1
<1>6. pcr # NoPcr => pcr \in Nat \ {0} /\ Vbr!ReadPcr(pcr) = pcr
  <2> SUFFICES ASSUME pcr # NoPcr PROVE pcr \in Nat \ {0} /\ Vbr!ReadPcr(pcr) = pcr
    OBVIOUS
  <2>1. pcr \in Nat \ {0} /\ pcr < HalfClock
    BY <1>4 DEF StartsWithPcr, IsReadable
  <2> QED
    BY <2>1, ReadsAsItIs
<1> HIDE DEF n, pcr
<1>7. n + Len(input') = Len(F) /\ n > 0
  <2>1. vcount \in Nat /\ n = vcount + 1
    BY <1>2 DEF n, VbrTypes
  <2>2. vcount + Len(input) = Len(F) /\ Len(input) \in Nat
    BY <1>3
  <2>3. Len(input') = Len(input) - 1
    BY <1>4
  <2> QED
    BY <2>1, <2>2, <2>3
<1>8. vpacket'.pcr = pcr
  BY <1>4 DEF pcr
<1>9. CASE pcr = NoPcr
  <2>1. pc' = "fill" /\ UNCHANGED <<lastPcr, lastIndex, vbits, firstPcr>>
    BY <1>1, <1>8, <1>9
  <2>2. vcount > 0
    <3>1. F[1].pcr # NoPcr
      BY DEF StartsWithPcr
    <3>2. n # 1
      BY <1>9, <3>1 DEF pcr
    <3> QED
      BY <1>2, <3>2 DEF n, VbrTypes
  <2>3. PacketsRead' = n
    BY <1>1, <2>1 DEF PacketsRead, n
  <2>4. \A k \in (lastIndex + 2)..n : F[k].pcr = NoPcr
    <3> SUFFICES ASSUME NEW k \in (lastIndex + 2)..n PROVE F[k].pcr = NoPcr
      OBVIOUS
    <3>1. k = n \/ k \in (lastIndex + 2)..vcount
      BY <1>2 DEF VbrTypes, n
    <3> QED
      BY <1>3, <1>9, <2>2, <3>1 DEF pcr
  <2>5. lastIndex < n
    BY <1>2, <1>3, <2>2 DEF VbrTypes, n
  <2>6. VbrTypes(P)'
    BY <1>1, <1>2, <1>4, <2>1 DEF VbrTypes
  <2>7. Place(F)'
    BY <1>1, <1>3, <1>4, <1>5, <1>7, <2>1, <2>2, <2>3, <2>4, <2>5 DEF Place
  <2>8. PcrsInStep(rate)'
    BY <1>1, <1>2, <1>7, <2>1, <2>2, <2>3 DEF Filling, PcrsInStep, VbrTypes
  <2>9. Filling(rate)'
    BY <1>1, <1>2, <2>1, <2>8 DEF Filling
  <2> QED
    BY <2>1, <2>6, <2>7, <2>9 DEF Keeps
<1>10. CASE pcr # NoPcr
  <2>1. /\ lastIndex' = vcount /\ lastPcr' = pcr /\ pcr \in Nat \ {0}
    BY <1>1, <1>6, <1>8, <1>10
  <2>2. lastIndex' + 1 = n /\ lastIndex' < n
    BY <1>2, <2>1 DEF n, VbrTypes
  <2>3. \A k \in (lastIndex' + 2)..n : F[k].pcr = NoPcr
    <3>1. (lastIndex' + 2)..n = {}
      BY <1>2, <2>1 DEF n, VbrTypes
    <3> QED
      BY <3>1
  <2>4. pc' \in {"fill", "flush"} => Place(F)'
    <3> SUFFICES ASSUME pc' \in {"fill", "flush"} PROVE Place(F)'
      OBVIOUS
    <3>1. PacketsRead' = n
      BY <1>1 DEF PacketsRead, n
    <3>2. F[lastIndex' + 1].pcr = lastPcr'
      BY <2>1, <2>2 DEF pcr
    <3> QED
      BY <1>4, <1>5, <1>7, <1>10, <2>1, <2>2, <2>3, <3>1, <3>2 DEF Place
  <2>5. CASE lastPcr = 0
    <3>1. vcount = 0 /\ lastIndex = 0
      BY <1>2, <2>5 DEF Filling, PcrsInStep, VbrTypes
    <3>2. pc' = "fill" /\ firstPcr' = pcr /\ UNCHANGED vbits
      BY <1>1, <1>8, <1>10, <2>1, <2>5
    <3>3. VbrTypes(P)'
      BY <1>1, <1>2, <1>4, <2>1, <3>2 DEF VbrTypes
    <3>4. PcrsInStep(rate)'
      <4>1. PacketsRead' # 0
        BY <1>1, <1>2, <3>2 DEF PacketsRead, VbrTypes
      <4>2. 0 * ClockFrequency = rate * (pcr - pcr)
        BY <2>1, RateTypes
      <4> QED
        BY <2>1, <3>1, <3>2, <4>1, <4>2 DEF PcrsInStep
    <3>5. Filling(rate)'
      BY <1>1, <1>2, <2>1, <3>1, <3>2, <3>4 DEF Filling
    <3> QED
      BY <2>4, <3>2, <3>3, <3>5 DEF Keeps
  <2>6. CASE lastPcr # 0
    <3>1. vcount > 0
      BY <1>2, <2>6 DEF Filling, PcrsInStep, VbrTypes
    <3>2. /\ lastIndex < vcount /\ lastPcr \in Nat \ {0} /\ firstPcr \in Nat \ {0}
          /\ lastIndex * ClockFrequency = rate * (lastPcr - firstPcr)
      BY <1>2, <1>3, <3>1 DEF Filling, PcrsInStep
    <3> DEFINE a == lastIndex + 1
               gap == n - a
               d == pcr - lastPcr
    <3>3. gap * ClockFrequency = rate * d
      <4>1. a \in DOMAIN F /\ n \in DOMAIN F /\ a < n /\ F[a].pcr = lastPcr
        <5>1. vcount \in Nat /\ lastIndex \in Nat /\ lastIndex < vcount /\ n = vcount + 1
          BY <1>2, <3>2 DEF VbrTypes, n
        <5>2. a \in 1..Len(F) /\ a < n
          BY <1>3, <1>4, <5>1
        <5>3. F[a].pcr = lastPcr
          BY <1>3, <3>1
        <5> QED
          BY <1>4, <5>2, <5>3
      <4>2. F[a].pcr # NoPcr
        <5>1. lastPcr # NoPcr
          BY <1>3, <3>1
        <5> QED
          BY <4>1, <5>1
      <4>3. \A k \in (a + 1)..(n - 1) : F[k].pcr = NoPcr
        <5>1. a + 1 = lastIndex + 2 /\ n - 1 = vcount
          BY <1>2 DEF VbrTypes, n
        <5> QED
          BY <1>3, <3>1, <5>1
      <4> HIDE DEF a
      <4> QED
        BY <1>10, <4>1, <4>2, <4>3 DEF AtRate, pcr
    <3>4. gap \in Nat \ {0} /\ gap = vcount - lastIndex /\ d \in Int
      BY <1>2, <2>1, <3>2 DEF VbrTypes, n
    <3>5. rate \in Nat \ {0} /\ rate <= vbrBits /\ ClockFrequency \in Nat \ {0}
      BY RateTypes
    <3> HIDE DEF a, gap, d
    <3>6. d \in Nat \ {0} /\ (gap * ClockFrequency) \div d = rate
      <4>1. gap * ClockFrequency > 0
        BY <3>4, <3>5
      <4>2. d > 0
        BY <3>3, <3>4, <3>5, <4>1
      <4>3. (rate * d) \div d = rate
        BY <3>4, <3>5, <4>2
      <4> QED
        BY <3>3, <3>4, <4>2, <4>3
    <3>7. pcr > lastPcr
      BY <2>1, <3>2, <3>6 DEF d
    <3>8. vbits' = rate /\ pc' = "flush" /\ UNCHANGED firstPcr
      <4>1. /\ vbits' \in Vbr!Guesses(pcr, vcount)
            /\ pc' = (IF vbits' > vbrBits THEN "exit" ELSE "flush")
            /\ UNCHANGED firstPcr
        BY <1>1, <1>8, <1>10, <2>1, <2>6
      <4>2. Vbr!Guesses(pcr, vcount) = {(gap * ClockFrequency) \div d}
        <5>1. gap = vcount - lastIndex /\ d = pcr - lastPcr
          BY <3>4 DEF d
        <5>2. ~(pcr < lastPcr)
          BY <2>1, <3>2, <3>7
        <5>3. Vbr!Guesses(pcr, vcount)
                = {((vcount - lastIndex) * ClockFrequency) \div (pcr - lastPcr)}
          BY <3>7, <5>2, Zenon DEF Vbr!Guesses
        <5> QED
          BY <5>1, <5>3
      <4>3. vbits' = rate
        BY <3>6, <4>1, <4>2
      <4>4. ~(rate > vbrBits)
        BY <3>5, RateTypes
      <4> QED
        BY <4>1, <4>3, <4>4, Zenon
    <3>9. VbrTypes(P)'
      BY <1>1, <1>2, <1>4, <2>1, <3>5, <3>8 DEF VbrTypes
    <3>10. PcrsInStep(rate)'
      <4>1. PacketsRead' # 0
        BY <1>1, <1>2, <3>8 DEF PacketsRead, VbrTypes
      <4>2. vcount * ClockFrequency = lastIndex * ClockFrequency + gap * ClockFrequency
        <5>1. vcount = lastIndex + gap /\ lastIndex \in Nat
          BY <1>2, <3>4 DEF VbrTypes
        <5> QED
          BY <3>4, <3>5, <5>1
      <4>3. rate * (pcr - firstPcr) = rate * (lastPcr - firstPcr) + rate * d
        <5>1. pcr - firstPcr = (lastPcr - firstPcr) + d
          BY <2>1, <3>2 DEF d
        <5>2. lastPcr - firstPcr \in Int
          BY <3>2
        <5> QED
          BY <3>4, <3>5, <5>1, <5>2
      <4> QED
        BY <2>1, <3>2, <3>3, <3>8, <4>1, <4>2, <4>3 DEF PcrsInStep
    <3>11. Flushing(rate)'
      <4>1. vcount - Len(vbuffer) + 0 = lastIndex
        BY <1>2 DEF Filling, VbrTypes
      <4>2. vwritten * rate + (fcounter - 0) = lastIndex * vbrBits
        BY <1>2 DEF Filling, VbrTypes
      <4>3. fcounter < 0 + rate /\ 0 <= fcounter /\ 0 <= Len(vbuffer)
        BY <1>2, <3>5 DEF Filling, VbrTypes
      <4>4. ucounter = 0
        BY <1>2 DEF Filling
      <4> QED
        BY <1>1, <2>1, <3>8, <3>10, <4>1, <4>2, <4>3, <4>4 DEF Flushing
    <3> QED
      BY <2>4, <3>8, <3>9, <3>11 DEF Keeps
  <2> QED
    BY <2>5, <2>6
<1> QED
  BY <1>9, <1>10

LEMMA VbrStepKeeps ==
  ASSUME NEW P, NEW F \in Seq(P), NEW rate \in 1..vbrBits, StartsWithPcr(F), IsReadable(F),
         AtRate(F, rate), Keeps(P, F, rate), Vbr!VbrNext
  PROVE  Keeps(P, F, rate)'
<1>1. CASE Vbr!ReadPacket
  BY <1>1, ReadAgainKeeps, ReadNextKeeps
<1>2. CASE Vbr!FlushNull
  BY <1>2, FlushNullKeeps
<1>3. CASE Vbr!FlushPacket
  BY <1>3, FlushPacketKeeps
<1>4. CASE Vbr!FlushEnd
  BY <1>4, FlushEndKeeps
<1>5. CASE Vbr!Fill
  BY <1>5, FillKeeps
<1> QED
  BY <1>1, <1>2, <1>3, <1>4, <1>5 DEF Vbr!VbrNext

\* The time that is carried is less than a packet: so the PCR is right to a packet.
LEMMA FillingIsInStep ==
  ASSUME NEW P, VbrTypes(P), NEW rate \in 1..vbrBits, Filling(rate), pc = "fill"
  PROVE  Vbr!InStep
<1> DEFINE ideal == (lastPcr - firstPcr) * vbrBits
           before == (vwritten - 1) * ClockFrequency
           behind == (vwritten + 1) * ClockFrequency
<1>1. /\ rate \in Nat \ {0} /\ vbrBits \in Nat /\ ClockFrequency \in Nat \ {0}
      /\ vwritten \in Nat /\ lastIndex \in Nat /\ fcounter \in Nat /\ fcounter < rate
      /\ vwritten * rate + fcounter = lastIndex * vbrBits
  BY RateTypes DEF VbrTypes, Filling
<1>2. /\ lastPcr \in Nat /\ firstPcr \in Nat
      /\ lastIndex * ClockFrequency = rate * (lastPcr - firstPcr)
  <2>1. PacketsRead # 0
    BY DEF PacketsRead, VbrTypes
  <2> QED
    BY <2>1 DEF Filling, PcrsInStep
<1> DEFINE out == vwritten * rate
           d == lastPcr - firstPcr
<1>3. ideal * rate = (out + fcounter) * ClockFrequency
  <2>1. d \in Int
    BY <1>2
  <2> HIDE DEF d
  <2>2. d * vbrBits * rate = (rate * d) * vbrBits
    BY <1>1, <2>1
  <2>3. (lastIndex * ClockFrequency) * vbrBits = (lastIndex * vbrBits) * ClockFrequency
    BY <1>1
  <2> QED
    BY <1>1, <1>2, <2>2, <2>3 DEF d
<1>4. /\ before * rate = (out - rate) * ClockFrequency
      /\ behind * rate = (out + rate) * ClockFrequency
  <2>1. (vwritten - 1) * rate = out - rate /\ (vwritten + 1) * rate = out + rate
    BY <1>1
  <2>2. /\ (vwritten - 1) * ClockFrequency * rate = (vwritten - 1) * rate * ClockFrequency
        /\ (vwritten + 1) * ClockFrequency * rate = (vwritten + 1) * rate * ClockFrequency
    BY <1>1
  <2> QED
    BY <2>1, <2>2
<1>5. out \in Nat /\ ideal \in Int /\ before \in Int /\ behind \in Int
  BY <1>1, <1>2
<1> HIDE DEF out, ideal, before, behind
<1>6. /\ (out - rate) * ClockFrequency < (out + fcounter) * ClockFrequency
      /\ (out + fcounter) * ClockFrequency < (out + rate) * ClockFrequency
  <2>1. \A a, b \in Int : a < b => a * ClockFrequency < b * ClockFrequency
    BY <1>1
  <2> QED
    BY <1>1, <1>5, <2>1
<1>7. before < ideal /\ ideal < behind
  BY <1>1, <1>3, <1>4, <1>5, <1>6, ProductLess
<1> QED
  BY <1>5, <1>7 DEF Vbr!InStep, ideal, before, behind

\* The input of a steady bitrate that is converted.
SteadyInput(P) ==
  steady => /\ tool = "tsvbr2cbr"
            /\ \E F \in Seq(P) : \E rate \in 1..vbrBits :
                 StartsWithPcr(F) /\ IsReadable(F) /\ AtRate(F, rate) /\ Keeps(P, F, rate)

\* tsvbr2cbr keeps its output in step with the PCRs of an input of a steady bitrate, for any
\* rates and any input that begins with a PCR, as long as the PCRs are below 2^31 * 300: what
\* is left of a packet is carried, and never adds up.
THEOREM StaysInStep ==
  ASSUME NEW P, Unset \in P, \A t \in DOMAIN Inputs : Inputs[t] \subseteq Seq(P),
         \A F \in Inputs["tsvbr2cbr"] : IsSteady(F) => StartsWithPcr(F)
  PROVE  Spec => []OutputKeepsStep
<1>1. Init => SteadyInput(P)
  <2> SUFFICES ASSUME Init, steady PROVE SteadyInput(P)
    BY DEF SteadyInput
  <2>1. /\ tool = "tsvbr2cbr" /\ IsSteady(input) /\ input \in Seq(P) /\ StartsWithPcr(input)
        /\ Vbr!VbrInit /\ IsReadable(input)
    BY DEF Init, IsSteady
  <2>2. PICK rate \in 1..vbrBits : AtRate(input, rate)
    BY <2>1, SteadyAtRate
  <2>3. PICK F \in Seq(P) : F = input
    BY <2>1
  <2>4. Keeps(P, F, rate)
    BY <2>1, <2>3, VbrInitKeeps
  <2> QED
    BY <2>1, <2>2, <2>3, <2>4 DEF SteadyInput
<1>2. ASSUME SteadyInput(P), [Next]_vars PROVE SteadyInput(P)'
  <2> SUFFICES ASSUME steady PROVE SteadyInput(P)'
    <3>1. steady' = steady
      BY <1>2 DEF Next, Fill, ToCbr, SendNull, Shape, Restamp, Host, vars
    <3> QED
      BY <3>1 DEF SteadyInput
  <2>1. PICK F \in Seq(P), rate \in 1..vbrBits :
          StartsWithPcr(F) /\ IsReadable(F) /\ AtRate(F, rate) /\ Keeps(P, F, rate)
    BY <1>2 DEF SteadyInput
  <2>2. tool = "tsvbr2cbr" /\ tool' = tool
    BY <1>2 DEF SteadyInput, Next, Fill, ToCbr, SendNull, Shape, Restamp, Host, vars
  <2>3. Keeps(P, F, rate)'
    <3>1. CASE ToCbr
      BY <2>1, <3>1, VbrStepKeeps DEF ToCbr
    <3>2. CASE ~ToCbr
      <4>1. UNCHANGED <<input, vbr>>
        BY <1>2, <2>2, <3>2 DEF Next, Fill, SendNull, Shape, Restamp, Host, vars
      <4> QED
        BY <2>1, <4>1 DEF vbr, Keeps, VbrTypes, Place, PacketsRead, Filling, Flushing,
          Hanging, PcrsInStep
    <3> QED
      BY <3>1, <3>2
  <2> QED
    BY <2>1, <2>2, <2>3 DEF SteadyInput
<1>3. SteadyInput(P) => OutputKeepsStep
  <2> SUFFICES ASSUME SteadyInput(P), steady, pc = "fill" PROVE Vbr!InStep
    BY DEF OutputKeepsStep
  <2>1. PICK F \in Seq(P), rate \in 1..vbrBits : Keeps(P, F, rate)
    BY DEF SteadyInput
  <2> QED
    BY <2>1, FillingIsInStep DEF Keeps
<1> QED
  BY <1>1, <1>2, <1>3, PTL DEF Spec

=============================================================================
