------------------------------ MODULE Continuity ------------------------------
(***************************************************************************)
(* Continuity counters of transport stream packets: the restamping that    *)
(* tsloop and tscbrmuxer share, the one of tsfixcc, and the checks of      *)
(* tsccc.  A packet of a PID that carries payload has the counter of its   *)
(* predecessor plus one, unless it is a copy of it (a double packet).      *)
(***************************************************************************)
EXTENDS Naturals, Sequences

CONSTANTS
  Pids,   \* the PIDs that occur
  CcMod   \* 16: the counters are taken modulo this

ASSUME ContinuityAssumption == CcMod \in Nat /\ CcMod > 1

\* adapt is the adaptation_field_control: 1 and 3 mean that there is payload, 0 is
\* reserved and 2 means there is none.  data stands for the payload.
Packet == [pid : Pids, cc : 0..(CcMod - 1), adapt : 0..3, data : Nat]

HasPayload(p) == p.adapt \in {1, 3}

\* The table entry (0x10) of a PID that was not seen.
NoCc == CcMod

-----------------------------------------------------------------------------
(* pid_cc_table (the last counter written) and previous_cc_table (the last  *)
(* counter read) of tsloop and tscbrmuxer.                                   *)

Tables == [pidCc : [Pids -> 0..NoCc], previousCc : [Pids -> 0..NoCc]]

NewTables == [pidCc |-> [p \in Pids |-> NoCc], previousCc |-> [p \in Pids |-> NoCc]]

\* A double packet is accepted only once.
IsDouble(t, p) == HasPayload(p) /\ p.cc = t.previousCc[p.pid]

\* The counter that packet p is written with ...
StampedCc(t, p) ==
  IF t.pidCc[p.pid] = NoCc THEN p.cc
  ELSE IF ~HasPayload(p) \/ IsDouble(t, p) THEN t.pidCc[p.pid]
  ELSE (t.pidCc[p.pid] + 1) % CcMod

\* ... and the tables after it.
Stamp(t, p) ==
  [pidCc |-> [t.pidCc EXCEPT ![p.pid] = StampedCc(t, p)],
   previousCc |->
     [t.previousCc EXCEPT ![p.pid] =
        IF t.pidCc[p.pid] = NoCc THEN p.cc
        ELSE IF ~HasPayload(p) THEN @
        ELSE IF IsDouble(t, p) THEN NoCc
        ELSE p.cc]]

-----------------------------------------------------------------------------
(* tsccc: the last counter of each PID and whether a repetition was seen.    *)

CheckTables == [pidCc : [Pids -> 0..NoCc], repeated : [Pids -> BOOLEAN]]

NewCheckTables ==
  [pidCc |-> [p \in Pids |-> NoCc], repeated |-> [p \in Pids |-> FALSE]]

\* The counter of p is not the expected one although p has payload.
Repeats(c, p) ==
  /\ c.pidCc[p.pid] # NoCc
  /\ (c.pidCc[p.pid] + 1) % CcMod # p.cc
  /\ HasPayload(p)

\* A first repetition is accepted, anything else is reported.
FirstRepeat(c, p) == Repeats(c, p) /\ p.cc = c.pidCc[p.pid] /\ ~c.repeated[p.pid]
Warns(c, p) == Repeats(c, p) /\ ~FirstRepeat(c, p)

Check(c, p) ==
  [pidCc    |-> [c.pidCc EXCEPT ![p.pid] = p.cc],
   repeated |-> [c.repeated EXCEPT ![p.pid] = @ \/ FirstRepeat(c, p)]]

-----------------------------------------------------------------------------
(* A decoder drops a packet that repeats the counter of the one before it    *)
(* on its PID, and takes a gap for lost packets.                             *)

None == [none |-> TRUE]

\* Packet p, read after q, has the next counter or is a copy of q.
Follows(q, p) == \/ p.cc = (q.cc + 1) % CcMod
                 \/ p.cc = q.cc /\ p.data = q.data

-----------------------------------------------------------------------------
(* tsfixcc: every packet gets the next counter, the first one of a PID 0.    *)

\* The place of the packet of the same PID before the one at k, 0 if there is none.
Before(f, k) ==
  LET earlier == {j \in 1..(k - 1) : f[j].pid = f[k].pid}
  IN  IF earlier = {} THEN 0 ELSE CHOOSE j \in earlier : \A i \in earlier : i <= j

FixedCcFromPacket(cc) == IF cc = NoCc THEN 0 ELSE cc  \* mutated: no increment
FixedCc(cc) == IF cc = NoCc THEN 0 ELSE (cc + 1) % CcMod

\* The file that tsfixcc makes of f.
FixedFile(f) ==
  LET cc[k \in 0..Len(f)] == IF k = 0 THEN NoCc ELSE FixedCc(cc[Before(f, k)])
  IN  [k \in DOMAIN f |-> [f[k] EXCEPT !.cc = cc[k]]]

-----------------------------------------------------------------------------
(* The streams that the tools are given.                                     *)

\* Two packets are copies.
Copies(p, q) == HasPayload(p) /\ p = q

\* Some packet of the file is the copy of the one before it.
HasDouble(f) == \E k \in DOMAIN f : Before(f, k) # 0 /\ Copies(f[Before(f, k)], f[k])

\* A file of which the counters are right: each payload has a packet of its own or two
\* in a row.
WellFormed(f) ==
  \A k \in DOMAIN f :
    LET j == Before(f, k)
    IN  \/ /\ HasPayload(f[k]) /\ f[k].data = k
           /\ j # 0 => f[k].cc = (f[j].cc + 1) % CcMod
        \/ j # 0 /\ Copies(f[j], f[k]) /\ f[j].data = j
        \/ /\ ~HasPayload(f[k]) /\ f[k].data = 0
           /\ j # 0 => f[k].cc = f[j].cc

=============================================================================
