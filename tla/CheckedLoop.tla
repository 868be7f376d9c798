----------------------------- MODULE CheckedLoop -----------------------------
(***************************************************************************)
(* tsloop with its output read by a decoder and by tsccc.                  *)
(***************************************************************************)
EXTENDS TsLoop

CONSTANTS
  FileLists  \* the lists of files that tsloop may be given

\* No file is empty, and the counters of each are right.
ASSUME FileListsAssumption ==
  \A fs \in FileLists :
    /\ fs # <<>> /\ fs \in Seq(Seq(Packet))
    /\ \A i \in DOMAIN fs : fs[i] # <<>> /\ WellFormed(fs[i])

VARIABLES
  latest,  \* the decoder: the last packet with payload of each PID
  check,   \* the tables of tsccc
  warned   \* tsccc has reported an error

vars == <<loopVars, latest, check, warned>>

Init ==
  /\ files \in FileLists
  /\ LoopInit
  /\ latest = [p \in Pids |-> None]
  /\ check = NewCheckTables /\ warned = FALSE

Next ==
  /\ LoopNext
  /\ latest' = IF HasPayload(written') THEN [latest EXCEPT ![written'.pid] = written']
               ELSE latest
  /\ check' = Check(check, written')
  /\ warned' = (warned \/ Warns(check, written'))

Spec == Init /\ [][Next]_vars

-----------------------------------------------------------------------------
(* Properties.                                                              *)

\* With well-formed files a decoder loses nothing and sees no gap, across the ends of
\* files too: the same counter means the same payload, and at the beginning of a file
\* the counter is always the next one.
DecoderLosesNothing ==
  [][LET p == written'
         q == latest[p.pid]
     IN  HasPayload(p) /\ q # None =>
           Follows(q, p) /\ (at' = 1 => p.cc # q.cc)]_vars

\* tsccc has nothing to report on what tsloop writes from well-formed files without
\* double packets: the counters run on through every file and every repetition.
CheckerIsSilent == (\A i \in DOMAIN files : ~HasDouble(files[i])) => ~warned

=============================================================================
