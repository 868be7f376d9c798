------------------------------ MODULE NullShaper ------------------------------
(***************************************************************************)
(* tools/tsnullshaper: replaces the null packets of a stream by packets of *)
(* other files: first those that are due every repeat_time (a queue looked *)
(* at with the clock of the host), then the others in turn.  Files are     *)
(* opened again at their end.                                              *)
(***************************************************************************)
EXTENDS Integers, Sequences, SequencesExt, FiniteSetsExt

CONSTANTS
  TimeQueue,     \* the entries t:, in order: records with a name and a repeat_time
  CountQueue,    \* the entries + and s:, in order: records with a name and mandatory
  FileOf,        \* the packets of the file of each name
  ShapePackets,  \* packets_buffer
  Pids, NullPid, \* the PIDs that occur, and 8191
  CcMod,         \* 16: the counters are taken modulo this
  MaxTime,       \* bound: the time at which the clock stops
  MaxFaults,     \* bound: how many times the clock is set back or a file goes away
  Null, Unset

Entries == [e \in DOMAIN TimeQueue |-> [name |-> TimeQueue[e].name, mandatory |-> TRUE]]
             \o CountQueue
Timed == DOMAIN TimeQueue

\* main opens the files in the order of its arguments; the numbers of their descriptors
\* follow each other and no lower one is free.
Fds == DOMAIN Entries
Closed == [closed |-> TRUE]

\* repeat_time has to be positive.
ASSUME ShaperAssumption ==
  /\ TimeQueue \in Seq([name : DOMAIN FileOf, repeat_time : Nat \ {0}])
  /\ \A f \in Fds : FileOf[Entries[f].name] # <<>>
  /\ ShapePackets \in Nat \ {0} /\ CcMod \in Nat \ {0, 1}
  /\ NullPid \in Pids

VARIABLES
  clock,     \* the clock of the host
  start,     \* g_start_time
  time,      \* the time at which each timed entry is due
  turn,      \* g_fd_count_queue: the place of its head in CountQueue
  handles,   \* what each descriptor is open for: a name, and how much of it was read
  absent,    \* the files that cannot be opened at the moment
  cc,        \* pid_cc_table
  source,    \* the pipe that is read
  buffer,    \* packet_buffer
  next,      \* the packet of it that is looked at next; one more: the buffer is to be
             \* written; two more: it is to be read
  output,    \* the pipe that is written to
  faults,    \* bound: how many times the clock was set back or a file went away
  missed,    \* history: a file was away when it was to be opened again
  highest,   \* history: the latest time since start that the tool has seen
  taken      \* history: how often each timed entry was chosen since start

\* The queues, the files, and the host; the rest is what is on its way.
queues == <<start, time, turn, highest, taken>>
disk == <<handles, missed>>
host == <<clock, absent, faults>>

shaperVars == <<queues, disk, host, cc, source, buffer, next, output>>

\* The table entry (0x10) of a PID that was not seen.
NoCc == CcMod

ShaperInit ==
  /\ clock = 1 /\ start = clock
  /\ time = [e \in Timed |-> 0]
  /\ turn = 1
  /\ handles = [f \in Fds |-> [name |-> Entries[f].name, at |-> 0]]
  /\ absent = {}
  /\ cc = [p \in Pids |-> NoCc]
  /\ buffer = [k \in 1..ShapePackets |-> Unset]
  /\ next = ShapePackets + 2
  /\ faults = 0 /\ missed = FALSE /\ highest = 0
  /\ taken = [e \in Timed |-> 0]

\* A whole buffer is read, or what there is at the end of the input: the rest of the buffer
\* is then as it was, and from then on the same packets are written for ever.
ShaperRead(inputEnded) ==
  /\ next > ShapePackets + 1
  /\ Len(source) >= ShapePackets \/ inputEnded
  /\ LET n == Min({Len(source), ShapePackets})
     IN  /\ buffer' = SubSeq(source, 1, n) \o SubSeq(buffer, n + 1, ShapePackets)
         /\ source' = SubSeq(source, n + 1, Len(source))
  /\ next' = 1
  /\ UNCHANGED <<queues, disk, host, cc, output>>

-----------------------------------------------------------------------------
(* choose_fd: which entry the next packet is of.                             *)

\* The timed entries that are due, of which the first one with the least time is taken.
DueWithoutStart(now) == {e \in Timed : now >= time[e]}  \* mutated: g_start_time is forgotten
Due(now) == {e \in Timed : now - start >= time[e]}
FirstDueLatest(now) ==  \* mutated: the wrong comparison
  CHOOSE e \in Due(now) : \A d \in Due(now) : time[d] < time[e] \/ (time[d] = time[e] /\ d >= e)
FirstDue(now) ==
  CHOOSE e \in Due(now) : \A d \in Due(now) : time[e] < time[d] \/ (time[e] = time[d] /\ e <= d)

\* The clock is before the start: everything begins anew.
Restart ==
  /\ clock < start
  /\ start' = clock
  /\ time' = [e \in Timed |-> 0]
  /\ highest' = 0 /\ taken' = [e \in Timed |-> 0]

\* A timed entry is due.  What it has missed is kept: it is due again at once.
TakeTimed(e) ==
  /\ clock >= start /\ Due(clock) # {} /\ e = FirstDue(clock)
  /\ time' = [time EXCEPT ![e] = @ + TimeQueue[e].repeat_time]
  /\ highest' = Max({highest, clock - start})
  /\ taken' = [taken EXCEPT ![e] = @ + 1]
  /\ UNCHANGED <<start, turn>>

\* None is: the head of the other queue, when there is one.
NoneIsDue ==
  /\ clock >= start /\ Due(clock) = {}
  /\ highest' = Max({highest, clock - start})
  /\ UNCHANGED <<start, time, taken>>
TakeTurn(e) ==
  /\ CountQueue # <<>>
  /\ e = Len(TimeQueue) + turn
  /\ turn' = (turn % Len(CountQueue)) + 1

-----------------------------------------------------------------------------
(* Reading from the chosen entry: the descriptor is the one that the entry    *)
(* was given at the start.                                                    *)

LowestFreeKept(fd, h) == Len(Entries) + 1  \* mutated: the old descriptor is still taken
LowestFree(fd, h) == Min({f \in Fds : h[f] = Closed})

\* The packet read for entry e, or Null when there is none, and the descriptors after it.
ReadEntry(e, ready) ==
  LET h == handles[e]
      closed == [handles EXCEPT ![e] = Closed]
      isOpen == h # Closed
  IN  IF ~Entries[e].mandatory /\ ~(isOpen /\ ready)
      THEN [got |-> Null, handles |-> handles]
      ELSE IF isOpen /\ h.at < Len(FileOf[h.name])
      THEN [got |-> FileOf[h.name][h.at + 1], handles |-> [handles EXCEPT ![e].at = @ + 1]]
      ELSE IF Entries[e].name \in absent
      THEN [got |-> Null, handles |-> closed]
      ELSE [got |-> FileOf[Entries[e].name][1],
            handles |-> [f \in Fds \cup {LowestFree(e, closed)} |->
                           IF f = LowestFree(e, closed)
                           THEN [name |-> Entries[e].name, at |-> 1] ELSE closed[f]]]

\* The counter is restamped, that of a packet without payload or of a null packet too.
Stamped(p) == IF cc[p.pid] = NoCc THEN p.cc ELSE (cc[p.pid] + 1) % CcMod

\* Entry e is read, and the null packet p replaced by what was got.
Insert(e, p) ==
  \E ready \in BOOLEAN :
    LET r == ReadEntry(e, ready)
        q == IF r.got = Null THEN p ELSE r.got
    IN  /\ handles' = r.handles
        /\ buffer' = [buffer EXCEPT ![next] = [q EXCEPT !.cc = Stamped(q)]]
        /\ cc' = [cc EXCEPT ![q.pid] = Stamped(q)]
        /\ missed' = (missed \/ \E f \in Fds : r.handles[f] = Closed /\ handles[f] # Closed)

\* No entry: the null packet stays, with a counter of its own.
KeepNull(p) ==
  /\ buffer' = [buffer EXCEPT ![next].cc = Stamped(p)]
  /\ cc' = [cc EXCEPT ![p.pid] = Stamped(p)]
  /\ UNCHANGED <<disk, turn>>

ReplaceNull ==
  /\ next <= ShapePackets /\ buffer[next].pid = NullPid
  /\ LET p == buffer[next]
     IN  \/ \E e \in Timed : TakeTimed(e) /\ Insert(e, p)
         \/ \E e \in Fds \ Timed : (Restart \/ NoneIsDue) /\ TakeTurn(e) /\ Insert(e, p)
         \/ CountQueue = <<>> /\ (Restart \/ NoneIsDue) /\ KeepNull(p)
  /\ next' = next + 1
  /\ UNCHANGED <<host, source, output>>

PassPacket ==
  /\ next <= ShapePackets /\ buffer[next].pid # NullPid
  /\ next' = next + 1
  /\ UNCHANGED <<queues, disk, host, cc, source, buffer, output>>

\* The buffer is written.
ShaperWrite ==
  /\ next = ShapePackets + 1
  /\ output' = output \o buffer
  /\ next' = next + 1
  /\ UNCHANGED <<queues, disk, host, cc, source, buffer>>

ShaperNext(inputEnded) ==
  ShaperRead(inputEnded) \/ ReplaceNull \/ PassPacket \/ ShaperWrite

-----------------------------------------------------------------------------
(* The host.                                                                 *)

Tick ==
  /\ clock < MaxTime /\ clock' = clock + 1
  /\ UNCHANGED <<queues, disk, absent, cc, source, buffer, next, output, faults>>

\* The clock is set back.
SetBack ==
  /\ faults < MaxFaults /\ faults' = faults + 1
  /\ clock' \in {t \in 0..(clock - 1) : t = 0 \/ t = clock - 1}
  /\ UNCHANGED <<queues, disk, absent, cc, source, buffer, next, output>>

\* A file is away while it is replaced.
GoAway(name) ==
  /\ faults < MaxFaults /\ name \notin absent
  /\ faults' = faults + 1 /\ absent' = absent \cup {name}
  /\ UNCHANGED <<queues, disk, clock, cc, source, buffer, next, output>>
ComeBack(name) ==
  /\ name \in absent /\ absent' = absent \ {name}
  /\ UNCHANGED <<queues, disk, clock, cc, source, buffer, next, output, faults>>

HostNext == \/ Tick \/ SetBack
            \/ \E e \in Fds : GoAway(Entries[e].name) \/ ComeBack(Entries[e].name)

-----------------------------------------------------------------------------
(* Properties.                                                              *)

\* Since the start a timed file was put in at most once, and once more for each repeat_time
\* that has passed, whatever was done to the clock.  Times that were missed are made up for
\* at once, so that two of its packets may follow each other directly; and when the clock
\* goes back behind the start everything is counted anew.
NotTooOften ==
  \A e \in Timed : (taken[e] - 1) * TimeQueue[e].repeat_time <= highest

=============================================================================
