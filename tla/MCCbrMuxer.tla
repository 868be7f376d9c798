----------------------------- MODULE MCCbrMuxer -----------------------------
(* Inputs for CbrMuxer.                                                    *)
EXTENDS CbrMuxer

\* All well-formed files of up to n packets of one PID.
FilesOf(pid, n) ==
  {f \in UNION {[1..k -> [pid : {pid}, cc : 0..(CcMod - 1), adapt : {1, 2}, data : 0..n]]
                  : k \in 1..n} : WellFormed(f)}

\* Three inputs with a PID each, one of which sends a single packet.
MCOnePidEach == {<<f, g, h>> : f \in FilesOf(1, 2), g \in FilesOf(2, 2), h \in FilesOf(3, 1)}
MCBps == <<2, 3, 1>>

\* One input with two PIDs.
MCTwoPids ==
  LET p(pid, cc, k) == [pid |-> pid, cc |-> cc, adapt |-> 1, data |-> k]
  IN  { << <<p(1, 0, 1), p(2, 0, 2), p(2, 1, 3), p(2, 0, 4)>> >> }
MCOneBps == <<1>>

=============================================================================
