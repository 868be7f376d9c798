-------------------------- MODULE CarouselBroadcast --------------------------
(***************************************************************************)
(* The whole chain of an object carousel: the sections that mod2sec wrote, *)
(* repeated in the order of their file by tsloop, and the receiver of      *)
(* DsmccReceiver.  oc-update.sh may write the next edition over the file   *)
(* while it is being read: it truncates the file and fills it again, and   *)
(* tsloop ends when it opens the file between the two.                     *)
(***************************************************************************)
EXTENDS DsmccReceiver, SequencesExt

CONSTANTS
  Order,   \* the modules, in the order of their ids
  MaxLost  \* bound: number of sections lost between tsloop and the receiver

\* Order lists each module once.
ASSUME OrderAssumption ==
  /\ Order \in Seq(ModuleIds) /\ ToSet(Order) = ModuleIds
  /\ IsInjective(Order)
  /\ MaxLost \in Nat

VARIABLES
  filled,   \* number of sections of the edition on air that are in the file
  pos,      \* the next section tsloop reads, 0 when it just opened the file
  looping,  \* tsloop runs
  lost      \* number of sections lost

loopVars == <<filled, pos, looping, lost>>
bvars == <<vars, loopVars>>

\* Module.generate: one section per block, which name module and block.
BlockSections(m, v) ==
  IF m \in Ids(v)
  THEN [i \in 1..Carousel[v][m] |->
          [kind |-> "DDB", id |-> m, block |-> i - 1]]
  ELSE <<>>

\* The file of edition v: mod2sec names the section files 0001_000000.sec ..., DII.sec
\* and DSI.sec, and oc-update.sh concatenates them in the order of their names.
BroadcastSections(v) ==
  FlattenSeq([i \in DOMAIN Order |-> BlockSections(Order[i], v)])
    \o << [kind |-> "DII"], [kind |-> "DSI"] >>

-----------------------------------------------------------------------------
(* tsloop and the way to the receiver.                                      *)

\* The section tsloop reads next, which is in the file.
Place == IF pos = 0 THEN 1 ELSE pos
SectionThere == looping /\ Place <= filled
ThisSection == BroadcastSections(air)[Place]

\* tsloop goes on to the next section; its last one is followed by the end of the file.
AdvanceDropsLast ==  \* mutated: the last section of the file is never sent
  /\ pos' = IF Place + 1 >= Len(BroadcastSections(air)) THEN 0 ELSE Place + 1
  /\ UNCHANGED <<filled, looping>>
Advance == pos' = Place + 1 /\ UNCHANGED <<filled, looping>>

\* The section reaches the receiver.
Transmit ==
  /\ SectionThere
  /\ \/ ThisSection.kind = "DDB" /\ ReceiveBlock(ThisSection.id, ThisSection.block)
     \/ ThisSection.kind = "DII" /\ ReceiveDII
     \/ ThisSection.kind = "DSI" /\ ReceiveDSI
  /\ Advance
  /\ UNCHANGED lost

\* The section is lost.
Lose ==
  /\ SectionThere
  /\ lost < MaxLost
  /\ lost' = lost + 1
  /\ Advance
  /\ UNCHANGED vars

\* The section is a DDB and arrives damaged: as any block of any module.
Damage ==
  /\ SectionThere
  /\ ThisSection.kind = "DDB"
  /\ \E m \in ModuleIds, v \in Editions, b \in BlockNumbers : ReceiveDamaged(m, v, b)
  /\ Advance
  /\ UNCHANGED lost

\* tsloop meets the end of what is in the file and opens it again ...
Reopen ==
  /\ looping
  /\ pos > filled
  /\ pos' = 0
  /\ UNCHANGED <<vars, filled, looping, lost>>

\* ... and exits when there is nothing in it (tsloop.c:76).
Exit ==
  /\ looping
  /\ pos = 0 /\ filled = 0
  /\ looping' = FALSE
  /\ UNCHANGED <<vars, filled, pos, lost>>

\* The receiver meets the end of its input then.
InputEnds ==
  /\ ~looping
  /\ EndOfInput
  /\ UNCHANGED loopVars

-----------------------------------------------------------------------------
(* oc-update.sh.                                                            *)

\* The shell truncates the file before sec2ts writes the next edition to it.  tsloop
\* stays at its place, which is any place of the next edition, or behind its end.
TruncateFile ==
  /\ filled = Len(BroadcastSections(air))
  /\ NewEdition
  /\ filled' = 0
  /\ pos' \in IF pos = 0 THEN {0} ELSE 1..(Len(BroadcastSections(air')) + 1)
  /\ UNCHANGED <<looping, lost>>

\* sec2ts writes the next section.
FillFile ==
  /\ filled < Len(BroadcastSections(air))
  /\ filled' = filled + 1
  /\ UNCHANGED <<vars, pos, looping, lost>>

ReplayCache == (ReplaySlot \/ ReplayEnd) /\ UNCHANGED loopVars

BroadcastInit ==
  /\ Init
  /\ filled = Len(BroadcastSections(1))
  /\ pos \in 1..Len(BroadcastSections(1))
  /\ looping = TRUE
  /\ lost = 0

BroadcastNext ==
  \/ Transmit \/ Lose \/ Damage
  \/ Reopen \/ Exit \/ InputEnds
  \/ TruncateFile \/ FillFile
  \/ ReplayCache

\* tsloop, sec2ts and the receiver keep running.
BroadcastSpec ==
  /\ BroadcastInit
  /\ [][BroadcastNext]_bvars
  /\ WF_bvars(Transmit)
  /\ WF_bvars(Reopen)
  /\ WF_bvars(FillFile)
  /\ WF_bvars(InputEnds)
  /\ WF_bvars(ReplayCache)

-----------------------------------------------------------------------------
(* Properties.                                                              *)

\* The receiver has what is on air: the carousel declared complete, the root of the
\* service, and every module on disk at the edition on air (whole, if nothing was damaged:
\* a damage the code cannot see stays in the files).
HasWhatIsOnAir ==
  /\ completed /\ gotDsi
  /\ \A m \in Ids(air) : /\ disk[m].version = air
                         /\ damage = 0 => disk[m].whole

\* What dsmcc-receive's read loop is for (carousel.c:69): "keep on reading for dii/dsi
\* changes until we get a complete file system of the same version".  It does, unless its
\* input ends.
GetsCompleteFileSystem == <>[](HasWhatIsOnAir \/ stop)

\* The same with the exceptions the code has: a block of another edition that stays in
\* the cache for ever, and a module the receiver knows but has not got, which is not
\* broadcast any more.
StaleBlockCached == \E i \in 1..CacheSize : cache[i] # Empty /\ cache[i].version # air
LeftBehind == \E x \in modules : x.id \notin Ids(air) /\ x.left > 0

\* Whatever section the receiver starts with, whatever is lost or damaged, whenever the
\* carousel is updated and wherever tsloop is in the file then, the receiver ends up with
\* what is on air, but for these exceptions and the end of its input (tsloop met the
\* empty file).
GetsCompleteUnlessStale ==
  <>[](HasWhatIsOnAir \/ StaleBlockCached \/ LeftBehind \/ stop)

\* The cyclic broadcast is as fair as DsmccReceiver assumes of its environment, over the
\* updates of its file and to its end.
FairToTheReceiver == FairSpec

=============================================================================
