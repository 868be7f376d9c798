--------------------------- MODULE MCDsmccReceiver ---------------------------
(* Small carousels for DsmccReceiver.                                       *)
EXTENDS DsmccReceiver, TLC

CONSTANTS m1, m2

\* Three editions of two modules, of which each resizes both.
MCThreeEditions == << (m1 :> 2 @@ m2 :> 1), (m1 :> 1 @@ m2 :> 2), (m1 :> 2 @@ m2 :> 1) >>

=============================================================================
