------------------------- MODULE MCCarouselBroadcast -------------------------
(* Small carousels for CarouselBroadcast.                                   *)
EXTENDS CarouselBroadcast

CONSTANTS m1, m2

MCOrder == <<m1, m2>>

\* Two editions of which the second drops a module and resizes the other.
MCDropped == << (m1 :> 1 @@ m2 :> 2), (m1 :> 2) >>

\* Two editions of which the second resizes both.
MCResized == << (m1 :> 2 @@ m2 :> 1), (m1 :> 1 @@ m2 :> 2) >>

=============================================================================
