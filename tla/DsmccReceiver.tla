---------------------------- MODULE DsmccReceiver ----------------------------
(***************************************************************************)
(* tools/dsmcc-receive: a single-threaded loop that reads DSM-CC sections  *)
(* from its standard input and rebuilds a cyclically broadcast object      *)
(* carousel on disk.  A DII announces the modules of the carousel with     *)
(* their version and size, DDBs carry the blocks of the modules, the DSI   *)
(* names the service gateway.  DDBs of unknown modules are kept in a cache *)
(* and tried again when a DII adds a module.                               *)
(*                                                                         *)
(* The broadcast is the environment.  `air' numbers its successive         *)
(* editions (oc-update.sh replaces the looped file); any section of the    *)
(* edition on air may be read next, which covers sections lost on the way  *)
(* and a receiver tuned in at any point.  The module version bytes of the  *)
(* editions are taken to be distinct.                                      *)
(***************************************************************************)
EXTENDS Naturals, FiniteSets

CONSTANTS
  ModuleIds,    \* pairs (module id, download id) that name a module
  LastEdition,  \* bound: number of editions that are ever broadcast
  Carousel,     \* edition -> (module -> number of blocks its DII announces)
  CacheSize,    \* the cache_size argument of the program
  MaxDamage     \* bound: number of damaged DDBs that reach the program

Editions == 1..LastEdition

\* The modules of an edition.
Ids(v) == DOMAIN Carousel[v]

\* The sender writes no empty module, and each edition has a module.
ASSUME CarouselAssumption ==
  /\ LastEdition \in Nat \ {0}
  /\ \A v \in Editions : /\ Ids(v) # {}
                         /\ Ids(v) \subseteq ModuleIds
                         /\ \A m \in Ids(v) : Carousel[v][m] \in Nat \ {0}
  /\ CacheSize \in Nat
  /\ MaxDamage \in Nat

\* A DownloadDataBlock; good is FALSE when something in it was damaged.
DDB == [id : ModuleIds, version : Editions, block : Nat, good : BOOLEAN]

\* An entry of car->modules.  got is the set of blocks whose got_block is true;
\* bad tells whether data holds something else than the blocks of that version as they
\* were sent (the code cannot see it).
Module == [id : ModuleIds, version : Editions, nblocks : Nat \ {0}, left : Nat,
           got : SUBSET Nat, bad : BOOLEAN]

\* What the files of one module hold: those of one version (0: no file yet), whole
\* unless a damaged module was saved over them.
Files == [version : 0..LastEdition, whole : BOOLEAN]

\* An unused cache slot.
Empty == [id |-> "empty"]

VARIABLES
  air,        \* the edition on air (environment)
  damage,     \* number of damaged DDBs read so far (environment)
  modules,    \* car->modules: the modules that are being or have been downloaded
  disk,       \* module -> the files saved from it
  cache,      \* cached and used_slot
  replay,     \* 0, or the index of the loop that replays the cache after a DII
  completed,  \* car->completed
  gotDsi,     \* car->got_dsi
  stop,       \* car->stop
  announced   \* history: the edition of the last DII processed, 0 if none

vars == <<air, damage, modules, disk, cache, replay, completed, gotDsi, stop,
          announced>>

-----------------------------------------------------------------------------
\* module.c

\* add_module: module m of edition v, nothing of it received.
NewModule(m, v) ==
  [id |-> m, version |-> v, nblocks |-> Carousel[v][m], left |-> Carousel[v][m],
   got |-> {}, bad |-> FALSE]

\* find_module: what it returns (an empty set for NULL) ...
FoundModulesAnyVersion(id, v) == {x \in modules : x.id = id}  \* mutated
FoundModules(id, v) == {x \in modules : x.id = id /\ x.version = v}

\* ... and what it leaves in car->modules, an entry of another version of the
\* module being deleted.
KeptModulesNoDelete(id, v) == modules  \* mutated: find_module deletes nothing
KeptModules(id, v) == {x \in modules : x.id # id \/ x.version = v}

\* download_block: is the block beyond the module, or have we already got it?
UnwantedDuplicatesPass(x, d) == d.block >= x.nblocks  \* mutated
Unwanted(x, d) == d.block >= x.nblocks \/ d.block \in x.got

\* Module x once the data of d is copied into it.
WithBlock(x, d) ==
  [x EXCEPT !.got = @ \cup {d.block}, !.left = @ - 1,
            !.bad = IF d.good /\ d.version = x.version THEN @ ELSE TRUE]

\* Module x scheduled for another download: all its blocks are wanted again.
RestartedKeepsGot(x) == [x EXCEPT !.left = x.nblocks]  \* mutated
Restarted(x) == [x EXCEPT !.got = {}, !.left = x.nblocks, !.bad = FALSE]

\* process_biop (and uncompress_module before it) on a module of which every block
\* is there: it saves every object of a sound module.  A damaged one may be saved
\* as it is, rejected before anything is written, or rejected after some objects
\* have been written; on a rejection the module is downloaded again.
Sound(x) == ~x.bad /\ x.left + Cardinality(x.got) = x.nblocks
ProcessBiop(x, others) ==
  LET Save(w) == disk' = [disk EXCEPT ![x.id] = [version |-> x.version, whole |-> w]]
  IN  \/ Save(Sound(x)) /\ modules' = others \cup {x}
      \/ /\ ~Sound(x)
         /\ UNCHANGED disk \/ Save(FALSE)
         /\ modules' = others \cup {Restarted(x)}

\* download_block.
DownloadBlock(x, d) ==
  LET y      == WithBlock(x, d)
      others == modules \ {x}
  IN  \/ Unwanted(x, d) /\ UNCHANGED <<modules, disk>>
      \/ ~Unwanted(x, d) /\ y.left # 0 /\ modules' = others \cup {y} /\ UNCHANGED disk
      \/ ~Unwanted(x, d) /\ y.left = 0 /\ ProcessBiop(y, others)

-----------------------------------------------------------------------------
\* carousel.c

\* process_ddb: TRUE in processed when the module of d is known at d's version.
ProcessDDBRestarts(d, processed) ==  \* mutated: another version restarts the module
  \/ /\ processed
     /\ \E x \in FoundModules(d.id, d.version) : DownloadBlock(x, d)
  \/ /\ ~processed
     /\ FoundModules(d.id, d.version) = {}
     /\ modules' = KeptModules(d.id, d.version)
                     \cup {NewModule(x.id, d.version) : x \in {y \in modules : y.id = d.id}}
     /\ UNCHANGED disk
ProcessDDB(d, processed) ==
  \/ /\ processed
     /\ \E x \in FoundModules(d.id, d.version) : DownloadBlock(x, d)
  \/ /\ ~processed
     /\ FoundModules(d.id, d.version) = {}
     /\ modules' = KeptModules(d.id, d.version)
     /\ UNCHANGED disk

\* The free cache slots, of which the first one is used.
FreeSlots == {i \in 1..CacheSize : cache[i] = Empty}
FirstFree == CHOOSE i \in FreeSlots : \A j \in FreeSlots : i <= j

\* The main loop reads a section when it is not replaying its cache.
Listening == ~stop /\ replay = 0

\* The table ids of the sections, and the ones the loop is given: all DSM-CC
\* tables at first (read_dsmcc_tables), and once the carousel is complete what
\* read_dsi_dii_tables lets through, its test being table_id & 0x3B.
DsiDiiTable == 59
DdbTable    == 60
Accepted(table) == IF completed THEN table % 64 \notin {0, 4} ELSE table % 64 # 0

\* A DDB is read: its block is downloaded, or the DDB is cached if a slot is free.
ReceiveDDB(d) ==
  /\ Listening
  /\ Accepted(DdbTable)
  /\ \E processed \in BOOLEAN :
       /\ ProcessDDB(d, processed)
       /\ cache' = IF processed \/ FreeSlots = {} THEN cache
                   ELSE [cache EXCEPT ![FirstFree] = d]
  /\ UNCHANGED <<air, replay, completed, gotDsi, stop, announced>>

\* process_dii: the modules of edition v that are not known at that version are
\* added, the entries of another version of them having been deleted.
Missing(v) == {m \in Ids(v) : FoundModules(m, v) = {}}
AfterDII(v) == {x \in modules : \A m \in Ids(v) : x \in KeptModules(m, v)}
                 \cup {NewModule(m, v) : m \in Missing(v)}

\* Is every module known by the receiver downloaded?
SomeDownloaded == \E x \in modules : x.left = 0  \* mutated
AllDownloaded == modules # {} /\ \A x \in modules : x.left = 0

\* A DII is read.  If it adds a module the cache is replayed, else the carousel is
\* complete when all its modules are downloaded.
ReceiveDII ==
  /\ Listening
  /\ Accepted(DsiDiiTable)
  /\ modules' = AfterDII(air)
  /\ announced' = air
  /\ \/ Missing(air) # {} /\ replay' = 1 /\ UNCHANGED completed
     \/ /\ Missing(air) = {} /\ UNCHANGED replay
        /\ completed' = (completed \/ AllDownloaded)
  /\ UNCHANGED <<air, damage, disk, cache, gotDsi, stop>>

\* One iteration of the replay loop; nothing else happens until it ends.
ReplaySlot ==
  /\ replay \in 1..CacheSize
  /\ \/ cache[replay] = Empty /\ UNCHANGED <<modules, disk, cache>>
     \/ /\ cache[replay] # Empty
        /\ \E processed \in BOOLEAN :
             /\ ProcessDDB(cache[replay], processed)
             /\ cache' = IF processed THEN [cache EXCEPT ![replay] = Empty] ELSE cache
  /\ replay' = replay + 1
  /\ UNCHANGED <<air, damage, completed, gotDsi, stop, announced>>

\* The end of the replay loop: there is something to download again.
ReplayEnd ==
  /\ replay = CacheSize + 1
  /\ replay' = 0
  /\ completed' = FALSE
  /\ UNCHANGED <<air, damage, modules, disk, cache, gotDsi, stop, announced>>

\* A DSI is read: the first one makes the root of the service, the others are ignored.
ReceiveDSI ==
  /\ Listening
  /\ Accepted(DsiDiiTable)
  /\ gotDsi' = TRUE
  /\ UNCHANGED <<air, damage, modules, disk, cache, replay, completed, stop,
                 announced>>

\* The end of the input, which sets car->stop.
EndOfInput ==
  /\ Listening
  /\ stop' = TRUE
  /\ UNCHANGED <<air, damage, modules, disk, cache, replay, completed, gotDsi,
                 announced>>

-----------------------------------------------------------------------------
\* The broadcast.

\* A sound block of the edition on air, one of the blocks of module m.
ReceiveBlock(m, b) ==
  /\ m \in Ids(air) /\ b < Carousel[air][m]
  /\ ReceiveDDB([id |-> m, version |-> air, block |-> b, good |-> TRUE])
  /\ UNCHANGED damage

\* The block numbers of the carousel, with the first one past each module.
BlockNumbers == UNION {UNION {0..Carousel[v][m] : m \in Ids(v)} : v \in Editions}

\* A damaged block, which may name any module, version and block.
ReceiveDamaged(m, v, b) ==
  /\ damage < MaxDamage
  /\ damage' = damage + 1
  /\ ReceiveDDB([id |-> m, version |-> v, block |-> b, good |-> FALSE])

\* The sender replaces the carousel.
NewEdition ==
  /\ air < LastEdition
  /\ air' = air + 1
  /\ UNCHANGED <<damage, modules, disk, cache, replay, completed, gotDsi, stop,
                 announced>>

-----------------------------------------------------------------------------
Init ==
  /\ air = 1
  /\ damage = 0
  /\ modules = {}
  /\ disk = [m \in ModuleIds |-> [version |-> 0, whole |-> TRUE]]
  /\ cache = [i \in 1..CacheSize |-> Empty]
  /\ replay = 0
  /\ completed = FALSE
  /\ gotDsi = FALSE
  /\ stop = FALSE
  /\ announced = 0

ReceiveSection ==
  \/ \E m \in ModuleIds, b \in BlockNumbers : ReceiveBlock(m, b)
  \/ \E m \in ModuleIds, v \in Editions, b \in BlockNumbers : ReceiveDamaged(m, v, b)
  \/ ReceiveDII
  \/ ReceiveDSI

Next == ReceiveSection \/ ReplaySlot \/ ReplayEnd \/ EndOfInput \/ NewEdition

Spec == Init /\ [][Next]_vars

\* The receiver runs, and the broadcast is repeated for ever (tsloop): a section that
\* stays on air is not lost in every one of its repetitions.
Fairness ==
  /\ WF_vars(ReplaySlot \/ ReplayEnd)
  /\ \A m \in ModuleIds, b \in BlockNumbers : SF_vars(ReceiveBlock(m, b))
  /\ SF_vars(ReceiveDII)
  /\ SF_vars(ReceiveDSI)

FairSpec == Spec /\ Fairness

-----------------------------------------------------------------------------
(* Properties.                                                              *)

\* Type invariant.  The cache never holds a sound block of a future edition.
TypeOK ==
  /\ air \in Editions
  /\ damage \in 0..MaxDamage
  /\ modules \subseteq Module
  /\ disk \in [ModuleIds -> Files]
  /\ cache \in [1..CacheSize -> DDB \cup {Empty}]
  /\ replay \in 0..(CacheSize + 1)
  /\ completed \in BOOLEAN
  /\ gotDsi \in BOOLEAN
  /\ stop \in BOOLEAN
  /\ announced \in 0..air

\* car->modules has one entry per module: find_module stops at the first one it
\* meets, so a second one would never be completed, updated or deleted.
OneEntryPerModule == \A x, y \in modules : x.id = y.id => x = y

\* blocks_left counts the blocks that got_block says are missing, through duplicates,
\* blocks beyond the module, replays and restarted downloads: it never wraps below
\* zero, and it is zero exactly when every block has been copied to data.
BlocksLeftIsExact ==
  \A x \in modules : /\ x.got \subseteq 0..(x.nblocks - 1)
                     /\ x.left + Cardinality(x.got) = x.nblocks

\* A module that was downloaded without damage and not deleted since is on disk, whole
\* and at the version the receiver believes it has: no other write (a replayed block of
\* an older edition, a module restarted after an update) has replaced its files.
DownloadedIsOnDisk ==
  \A x \in modules :
    x.left = 0 /\ ~x.bad => disk[x.id] = [version |-> x.version, whole |-> TRUE]

\* Files are only ever incomplete or wrong because of a damaged block.
OnlyDamageSpoilsFiles == damage = 0 => \A m \in ModuleIds : disk[m].whole

\* A step never puts an older version of a module over a newer one, although blocks of
\* old editions stay in the cache and are replayed after the new edition is announced.
NeverOlder == [][\A m \in ModuleIds : disk'[m].version >= disk[m].version]_vars

\* The carousel is declared complete only on a DII of which every module is on disk at
\* that DII's version, when no block was damaged: "versions are consistent" (module.h:74)
\* at the moment the flag is set.
CompletedOnlyWhenOnDisk ==
  [][~completed /\ completed' /\ damage = 0
       => \A m \in Ids(announced') :
            disk'[m] = [version |-> announced', whole |-> TRUE]]_vars

\* The receiver implements CarouselStore: it downloads, caches, restarts and replays
\* without a reader of the files seeing anything but editions replacing older ones.
ReaderView == INSTANCE CarouselStore WITH complete <- completed
ImplementsStore == ReaderView!StoreSpec

=============================================================================
