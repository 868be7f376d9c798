---------------------------- MODULE MCCheckedLoop ----------------------------
(* Files for CheckedLoop: all well-formed ones of up to three packets.      *)
EXTENDS CheckedLoop

FilesUpTo(n) ==
  {f \in UNION {[1..k -> [pid : Pids, cc : 0..(CcMod - 1), adapt : {1, 2}, data : 0..n]]
                  : k \in 1..n} : WellFormed(f)}

\* What oc-update.sh makes of padded sections: packets with payload, all of which sec2ts
\* has given the counter 0, after tsfixcc.
PaddedFiles(n) ==
  {FixedFile([j \in DOMAIN pids |-> [pid |-> pids[j], cc |-> 0, adapt |-> 1, data |-> j]])
     : pids \in UNION {[1..k -> Pids] : k \in 1..n}}

\* One file of up to three packets, or two of up to two.
MCFileLists ==
  {<<f>> : f \in FilesUpTo(3) \cup PaddedFiles(4)} \cup {<<f, g>> : f, g \in FilesUpTo(2)}

=============================================================================
