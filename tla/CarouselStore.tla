---------------------------- MODULE CarouselStore ----------------------------
(***************************************************************************)
(* What a reader of the files may rely on: the abstract specification of   *)
(* the carousel receiver.  A carousel is broadcast in successive editions; *)
(* the files of a module go from one edition to the same or a later one,   *)
(* never to one that was not broadcast; the carousel is declared complete  *)
(* only when the files of all modules of one edition are of that edition.  *)
(* How the files get there (blocks, cache, replays, restarts) is left to   *)
(* DsmccReceiver, which implements this.                                   *)
(***************************************************************************)
EXTENDS Naturals

CONSTANTS ModuleIds, LastEdition, Carousel

VARIABLES
  air,      \* the edition on air
  disk,     \* module -> [version, whole]: what its files hold
  complete  \* the carousel was declared complete

storeVars == <<air, disk, complete>>

StoreInit ==
  /\ air = 1
  /\ disk = [m \in ModuleIds |-> [version |-> 0, whole |-> TRUE]]
  /\ complete = FALSE

\* A new edition goes on air.
Publish ==
  /\ air < LastEdition
  /\ air' = air + 1
  /\ UNCHANGED <<disk, complete>>

\* The files of module m become those of edition v; whole is FALSE when the receiver
\* was fooled by damage.
Store(m, v, whole) ==
  /\ v \in 1..air /\ disk[m].version <= v
  /\ m \in DOMAIN Carousel[v]
  /\ disk' = [disk EXCEPT ![m] = [version |-> v, whole |-> whole]]
  /\ UNCHANGED <<air, complete>>

\* The carousel is declared complete: some edition is on disk, all of it.
Declare ==
  /\ \E v \in 1..air : \A m \in DOMAIN Carousel[v] : disk[m].version = v
  /\ complete' = TRUE
  /\ UNCHANGED <<air, disk>>

\* A new edition was noticed.
Withdraw ==
  /\ complete' = FALSE
  /\ UNCHANGED <<air, disk>>

StoreNext ==
  \/ Publish
  \/ \E m \in ModuleIds, v \in 1..LastEdition, w \in BOOLEAN : Store(m, v, w)
  \/ Declare
  \/ Withdraw

StoreSpec == StoreInit /\ [][StoreNext]_storeVars

=============================================================================
