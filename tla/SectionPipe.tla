----------------------------- MODULE SectionPipe -----------------------------
(***************************************************************************)
(* What carrying sections through a transport stream must amount to: the   *)
(* sections come out whole, once each and in order.                        *)
(***************************************************************************)
EXTENDS Naturals, Sequences

VARIABLES
  sent,       \* the sections that go in
  delivered,  \* the sections that came out
  reliable    \* nothing was lost so far

PipeInit == delivered = <<>> /\ reliable = TRUE

\* The next sections come out.
Deliver ==
  /\ reliable
  /\ \E n \in Len(delivered)..Len(sent) : delivered' = SubSeq(sent, 1, n)
  /\ UNCHANGED <<sent, reliable>>

\* Something is lost ...
Break ==
  /\ reliable' = FALSE
  /\ UNCHANGED <<sent, delivered>>

\* ... and what comes out then is not specified, but what came out before stays.
DeliverAnything ==
  /\ ~reliable
  /\ Len(delivered') >= Len(delivered)
  /\ SubSeq(delivered', 1, Len(delivered)) = delivered
  /\ UNCHANGED <<sent, reliable>>

PipeNext == Deliver \/ Break \/ DeliverAnything

PipeSpec == PipeInit /\ [][PipeNext]_<<sent, delivered, reliable>>

=============================================================================
