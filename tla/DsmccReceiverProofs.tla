------------------------- MODULE DsmccReceiverProofs -------------------------
(***************************************************************************)
(* Proofs about DsmccReceiver for every carousel, cache size and amount of *)
(* damage: the inductive invariant, the safety invariants it implies, and  *)
(* the step properties that follow from it.                                *)
(***************************************************************************)
EXTENDS DsmccReceiver, FiniteSetTheorems, TLAPS

\* Every known module was announced by a DII of an edition broadcast so far, and what is
\* on disk of it is not newer than what is being downloaded: this is what keeps a block
\* replayed from the cache from bringing back an older edition.
NotBehindDisk ==
  \A x \in modules : /\ x.version <= air
                     /\ x.id \in Ids(x.version)
                     /\ disk[x.id].version <= x.version

\* Nothing on disk comes from an edition that was not broadcast.
DiskWasBroadcast == \A m \in ModuleIds : disk[m].version <= air

\* A module without missing blocks was saved at its version, and wholly if it is sound.
SavedWhenDownloaded ==
  \A x \in modules :
    x.left = 0 => disk[x.id].version = x.version /\ (x.bad \/ disk[x.id].whole)

\* Damage is the only source of wrong data.
SoundModules == \A x \in modules : ~x.bad
WholeFiles   == \A m \in ModuleIds : disk[m].whole
GoodCache    == \A i \in 1..CacheSize : cache[i] # Empty => cache[i].good

\* The part of the invariant that speaks of the modules and the disk.
ModulesInv ==
  /\ modules \subseteq Module
  /\ disk \in [ModuleIds -> Files]
  /\ OneEntryPerModule
  /\ BlocksLeftIsExact
  /\ NotBehindDisk
  /\ DiskWasBroadcast
  /\ SavedWhenDownloaded

IInv ==
  /\ TypeOK
  /\ ModulesInv
  /\ damage = 0 => SoundModules /\ WholeFiles /\ GoodCache

\* Files never go back to an older version in this step.
DiskAdvances == \A m \in ModuleIds : disk'[m].version >= disk[m].version

-----------------------------------------------------------------------------
\* Lemmas about download_block.

\* A wanted block leaves the block count of a module exact.
LEMMA WantedBlock ==
  ASSUME NEW x \in Module, NEW d \in DDB, NEW y, y = WithBlock(x, d),
         x.got \subseteq 0..(x.nblocks - 1),
         x.left + Cardinality(x.got) = x.nblocks,
         ~Unwanted(x, d)
  PROVE  /\ y \in Module
         /\ y.id = x.id /\ y.version = x.version /\ y.nblocks = x.nblocks
         /\ y.got \subseteq 0..(y.nblocks - 1)
         /\ y.left + Cardinality(y.got) = y.nblocks
         /\ d.good /\ d.version = x.version /\ ~x.bad => ~y.bad
<1> DEFINE g == x.got \cup {d.block}
<1>1. /\ x.nblocks \in Nat \ {0} /\ x.left \in Nat /\ x.bad \in BOOLEAN
      /\ x.id \in ModuleIds /\ x.version \in Editions
      /\ d.block \in Nat /\ d.block < x.nblocks /\ d.block \notin x.got
      /\ d.good \in BOOLEAN
  BY DEF Module, DDB, Unwanted
<1>2. g \subseteq 0..(x.nblocks - 1)
  BY <1>1
<1>3. IsFiniteSet(0..(x.nblocks - 1)) /\ Cardinality(0..(x.nblocks - 1)) = x.nblocks
  <2>1. 0 \in Int /\ x.nblocks - 1 \in Int /\ ~(0 > x.nblocks - 1)
    BY <1>1
  <2>2. (x.nblocks - 1) - 0 + 1 = x.nblocks
    BY <1>1
  <2> QED
    BY <2>1, <2>2, FS_Interval
<1>4. IsFiniteSet(x.got) /\ IsFiniteSet(g) /\ Cardinality(g) <= x.nblocks
  BY <1>2, <1>3, FS_Subset
<1>5. Cardinality(g) = Cardinality(x.got) + 1
  BY <1>1, <1>4, FS_AddElement
<1>6. Cardinality(x.got) \in Nat
  BY <1>4, FS_CardinalityType
<1>7. x.left - 1 \in Nat /\ (x.left - 1) + Cardinality(g) = x.nblocks
  BY <1>1, <1>4, <1>5, <1>6
<1> DEFINE b == IF d.good /\ d.version = x.version THEN x.bad ELSE TRUE
<1>8. b \in BOOLEAN
  BY <1>1, Zenon
<1>9. g \in SUBSET Nat
  BY <1>1, <1>2
<1>10. y = [x EXCEPT !.got = g, !.left = x.left - 1, !.bad = b]
  BY DEF WithBlock
<1> HIDE DEF b, g
<1>11. /\ y \in Module
       /\ y.id = x.id /\ y.version = x.version
       /\ y.nblocks = x.nblocks /\ y.got = g
       /\ y.left = x.left - 1 /\ y.bad = b
  BY <1>1, <1>7, <1>8, <1>9, <1>10 DEF Module
<1> QED
  BY <1>2, <1>7, <1>11 DEF b

\* Module x is replaced with y, its successor, and its files possibly with y's.
LEMMA ReplacedModule ==
  ASSUME ModulesInv, air \in Nat, air' = air,
         NEW x \in modules, NEW y \in Module, NEW w \in BOOLEAN,
         y.id = x.id, y.version = x.version,
         y.got \subseteq 0..(y.nblocks - 1),
         y.left + Cardinality(y.got) = y.nblocks,
         modules' = (modules \ {x}) \cup {y},
         \/ disk' = disk /\ y.left # 0
         \/ /\ disk' = [disk EXCEPT ![y.id] = [version |-> y.version, whole |-> w]]
            /\ y.left = 0 => y.bad \/ w
  PROVE  ModulesInv' /\ DiskAdvances
<1>1. /\ modules \subseteq Module /\ x \in Module
      /\ x.id \in ModuleIds /\ x.version \in 1..LastEdition
      /\ x.version <= air /\ disk[x.id].version <= x.version /\ x.id \in Ids(x.version)
  BY DEF ModulesInv, Module, Editions, NotBehindDisk
<1>2. /\ disk' \in [ModuleIds -> Files]
      /\ \A m \in ModuleIds : m # x.id => disk'[m] = disk[m]
      /\ \/ disk'[x.id] = disk[x.id] /\ y.left # 0
         \/ /\ disk'[x.id] = [version |-> y.version, whole |-> w]
            /\ y.left = 0 => y.bad \/ w
  <2>1. x.version \in 0..LastEdition /\ [version |-> y.version, whole |-> w] \in Files
    BY <1>1, CarouselAssumption DEF Files
  <2> QED
    BY <1>1, <2>1 DEF ModulesInv
<1>3. /\ disk'[x.id].version <= x.version
      /\ disk'[x.id].version >= disk[x.id].version
      /\ y.left = 0 => disk'[x.id].version = y.version /\ (y.bad \/ disk'[x.id].whole)
  <2>1. disk[x.id].version \in Nat /\ x.version \in Nat
    BY <1>1 DEF ModulesInv, Files
  <2> QED
    BY <1>1, <1>2, <2>1
<1>4. \A z \in modules' : z # y => z \in modules /\ z.id # x.id /\ z.id \in ModuleIds
                                     /\ disk'[z.id] = disk[z.id]
  BY <1>1, <1>2 DEF ModulesInv, OneEntryPerModule, Module
<1>5. modules' \subseteq Module
  BY <1>1
<1>6. OneEntryPerModule'
  BY <1>4 DEF ModulesInv, OneEntryPerModule
<1>7. BlocksLeftIsExact'
  BY <1>4 DEF ModulesInv, BlocksLeftIsExact
<1>8. NotBehindDisk'
  BY <1>1, <1>3, <1>4 DEF ModulesInv, NotBehindDisk
<1>9. DiskAdvances
  <2>1. \A m \in ModuleIds : disk[m].version \in Nat
    BY DEF ModulesInv, Files
  <2> QED
    BY <1>2, <1>3, <2>1 DEF DiskAdvances
<1>10. DiskWasBroadcast'
  <2>1. disk'[x.id].version <= air
    BY <1>1, <1>2, <1>3 DEF ModulesInv, Files
  <2> QED
    BY <1>2, <2>1 DEF ModulesInv, DiskWasBroadcast
<1>11. SavedWhenDownloaded'
  BY <1>3, <1>4 DEF ModulesInv, SavedWhenDownloaded
<1> QED
  BY <1>2, <1>5, <1>6, <1>7, <1>8, <1>9, <1>10, <1>11 DEF ModulesInv

\* A block of the module is downloaded.
LEMMA DownloadBlockKeeps ==
  ASSUME ModulesInv, air \in Nat, air' = air,
         NEW x \in modules, NEW d \in DDB, d.version = x.version,
         DownloadBlock(x, d)
  PROVE  /\ ModulesInv' /\ DiskAdvances
         /\ d.good /\ SoundModules /\ WholeFiles => SoundModules' /\ WholeFiles'
<1> DEFINE y == WithBlock(x, d)
           r == Restarted(y)
           others == modules \ {x}
<1>1. CASE UNCHANGED <<modules, disk>>
  <2>1. \A m \in ModuleIds : disk[m].version \in Nat
    BY DEF ModulesInv, Files
  <2> QED
    BY <1>1, <2>1 DEF ModulesInv, DiskAdvances, OneEntryPerModule, BlocksLeftIsExact,
      NotBehindDisk, DiskWasBroadcast, SavedWhenDownloaded, SoundModules, WholeFiles
<1>2. CASE ~Unwanted(x, d)
  <2>1. /\ y \in Module /\ y.id = x.id /\ y.version = x.version
        /\ y.nblocks = x.nblocks
        /\ y.got \subseteq 0..(y.nblocks - 1)
        /\ y.left + Cardinality(y.got) = y.nblocks
        /\ d.good /\ d.version = x.version /\ ~x.bad => ~y.bad
    <3>1. /\ x \in Module /\ x.got \subseteq 0..(x.nblocks - 1)
          /\ x.left + Cardinality(x.got) = x.nblocks
      BY DEF ModulesInv, BlocksLeftIsExact
    <3> QED
      BY <1>2, <3>1, WantedBlock
  <2>2. d.good /\ SoundModules => ~y.bad
    BY <2>1 DEF SoundModules
  <2> HIDE DEF y
  <2>3. x.id \in ModuleIds /\ disk \in [ModuleIds -> Files] /\ x \in Module
    BY DEF ModulesInv, Module
  <2>4. CASE y.left # 0 /\ modules' = others \cup {y} /\ UNCHANGED disk
    <3>1. ModulesInv' /\ DiskAdvances
      BY <2>1, <2>4, ReplacedModule
    <3> QED
      BY <2>2, <2>4, <3>1 DEF SoundModules, WholeFiles
  <2>5. CASE y.left = 0 /\ ProcessBiop(y, others)
    <3> DEFINE Save(w) == disk' = [disk EXCEPT ![y.id] = [version |-> y.version,
                                                          whole |-> w]]
    <3>1. CASE Sound(y) /\ Save(TRUE) /\ modules' = others \cup {y}
      <4>1. ModulesInv' /\ DiskAdvances
        BY <2>1, <3>1, ReplacedModule
      <4> QED
        BY <2>2, <2>3, <3>1, <4>1 DEF SoundModules, WholeFiles
    <3>2. CASE ~Sound(y) /\ Save(FALSE) /\ modules' = others \cup {y}
      <4>1. y.bad
        BY <2>1, <3>2, <2>5 DEF Sound
      <4>2. ModulesInv' /\ DiskAdvances
        BY <2>1, <3>2, <4>1, ReplacedModule
      <4> QED
        BY <2>2, <4>1, <4>2
    <3>3. CASE ~Sound(y) /\ (UNCHANGED disk \/ Save(FALSE)) /\ modules' = others \cup {r}
      <4>1. y.bad
        BY <2>1, <3>3, <2>5 DEF Sound
      <4>2. /\ r \in Module /\ r.id = x.id /\ r.version = x.version
            /\ r.nblocks = y.nblocks /\ r.got = {} /\ r.left = y.nblocks /\ r.left # 0
        BY <2>1 DEF Restarted, Module
      <4>3. r.left + Cardinality(r.got) = r.nblocks
        BY <4>2, FS_EmptySet DEF Module
      <4>4. Save(FALSE) => disk' = [disk EXCEPT ![r.id] = [version |-> r.version,
                                                           whole |-> FALSE]]
        BY <2>1, <4>2
      <4> HIDE DEF r
      <4>5. ModulesInv' /\ DiskAdvances
        BY <3>3, <4>2, <4>3, <4>4, ReplacedModule
      <4> QED
        BY <2>2, <4>1, <4>5
    <3> QED
      BY <2>5, <3>1, <3>2, <3>3 DEF ProcessBiop, Sound
  <2> QED
    BY <1>2, <2>4, <2>5 DEF DownloadBlock, y
<1> QED
  BY <1>1, <1>2 DEF DownloadBlock

\* Modules are deleted.
LEMMA FewerModules ==
  ASSUME ModulesInv, air' = air, modules' \subseteq modules, UNCHANGED disk
  PROVE  /\ ModulesInv' /\ DiskAdvances
         /\ SoundModules /\ WholeFiles => SoundModules' /\ WholeFiles'
<1>1. \A m \in ModuleIds : disk[m].version \in Nat
  BY DEF ModulesInv, Files
<1> QED
  BY <1>1 DEF ModulesInv, DiskAdvances, OneEntryPerModule, BlocksLeftIsExact,
    NotBehindDisk, DiskWasBroadcast, SavedWhenDownloaded, SoundModules, WholeFiles

-----------------------------------------------------------------------------
\* Lemmas about process_ddb and process_dii.

LEMMA ProcessDDBKeeps ==
  ASSUME ModulesInv, air \in Nat, air' = air,
         NEW d \in DDB, NEW processed \in BOOLEAN, ProcessDDB(d, processed)
  PROVE  /\ ModulesInv' /\ DiskAdvances
         /\ d.good /\ SoundModules /\ WholeFiles => SoundModules' /\ WholeFiles'
<1>1. CASE \E x \in FoundModules(d.id, d.version) : DownloadBlock(x, d)
  <2>1. PICK x \in FoundModules(d.id, d.version) : DownloadBlock(x, d)
    BY <1>1
  <2>2. x \in modules /\ d.version = x.version
    BY <2>1 DEF FoundModules
  <2> QED
    BY <2>1, <2>2, DownloadBlockKeeps
<1>2. CASE modules' = KeptModules(d.id, d.version) /\ UNCHANGED disk
  <2>1. modules' \subseteq modules
    BY <1>2 DEF KeptModules
  <2> QED
    BY <1>2, <2>1, FewerModules
<1> QED
  BY <1>1, <1>2 DEF ProcessDDB

\* A module that was just added.
LEMMA AddedModule ==
  ASSUME NEW v \in Editions, NEW m \in Ids(v), NEW x, x = NewModule(m, v)
  PROVE  /\ x \in Module /\ x.id = m /\ x.version = v
         /\ x.got = {} /\ x.left = x.nblocks /\ x.left # 0 /\ ~x.bad
<1>1. m \in ModuleIds /\ Carousel[v][m] \in Nat \ {0}
  BY CarouselAssumption
<1> QED
  BY <1>1 DEF NewModule, Module

LEMMA ProcessDIIKeeps ==
  ASSUME ModulesInv, air \in Editions, air' = air,
         modules' = AfterDII(air), UNCHANGED disk
  PROVE  /\ ModulesInv' /\ DiskAdvances
         /\ SoundModules /\ WholeFiles => SoundModules' /\ WholeFiles'
<1>1. \A z \in modules' :
        \/ z \in modules /\ (z.id \in Ids(air) => z.version = air)
        \/ \E m \in Missing(air) : z = NewModule(m, air)
  BY DEF AfterDII, KeptModules
<1>2. \A m \in Missing(air) : m \in Ids(air) /\ \A z \in modules : z.id = m => z.version # air
  BY DEF Missing, FoundModules
<1>3. \A z \in modules' : z \notin modules =>
        /\ z \in Module /\ z.id \in Missing(air) /\ z.id \in Ids(air) /\ z.id \in ModuleIds
        /\ z = NewModule(z.id, air) /\ z.version = air
        /\ z.got = {} /\ z.left = z.nblocks /\ z.left # 0 /\ ~z.bad
  <2> SUFFICES ASSUME NEW z \in modules', z \notin modules
               PROVE  /\ z \in Module /\ z.id \in Missing(air) /\ z.id \in Ids(air)
                      /\ z.id \in ModuleIds
                      /\ z = NewModule(z.id, air) /\ z.version = air
                      /\ z.got = {} /\ z.left = z.nblocks /\ z.left # 0 /\ ~z.bad
    OBVIOUS
  <2>1. PICK m \in Missing(air) : z = NewModule(m, air)
    BY <1>1
  <2>2. m \in Ids(air)
    BY <1>2
  <2>3. /\ z \in Module /\ z.id = m /\ z.version = air
        /\ z.got = {} /\ z.left = z.nblocks /\ z.left # 0 /\ ~z.bad
    BY <2>1, <2>2, AddedModule
  <2> QED
    BY <2>1, <2>2, <2>3 DEF Module
<1>4. modules' \subseteq Module
  BY <1>3 DEF ModulesInv
<1>5. OneEntryPerModule'
  <2> SUFFICES ASSUME NEW z1 \in modules', NEW z2 \in modules', z1.id = z2.id
               PROVE  z1 = z2
    BY DEF OneEntryPerModule
  <2>1. CASE z1 \in modules /\ z2 \in modules
    BY <2>1 DEF ModulesInv, OneEntryPerModule
  <2>2. \A z \in modules' : z \in modules => z.id \notin Missing(air)
    <3> SUFFICES ASSUME NEW z \in modules', z \in modules, z.id \in Missing(air)
                 PROVE  FALSE
      OBVIOUS
    <3>1. z.id \in Ids(air) /\ z.version # air
      BY <1>2
    <3>2. PICK m \in Missing(air) : z = NewModule(m, air)
      BY <1>1, <3>1
    <3>3. z.version = air
      BY <3>2 DEF NewModule
    <3> QED
      BY <3>1, <3>3
  <2> QED
    BY <1>3, <2>1, <2>2
<1>6. BlocksLeftIsExact'
  <2> SUFFICES ASSUME NEW z \in modules'
               PROVE  /\ z.got \subseteq 0..(z.nblocks - 1)
                      /\ z.left + Cardinality(z.got) = z.nblocks
    BY DEF BlocksLeftIsExact
  <2>1. CASE z \in modules
    BY <2>1 DEF ModulesInv, BlocksLeftIsExact
  <2>2. CASE z \notin modules
    <3>1. z.got = {} /\ z.left = z.nblocks /\ z.left \in Nat
      BY <1>3, <2>2 DEF Module
    <3>2. Cardinality(z.got) = 0
      BY <3>1, FS_EmptySet
    <3> QED
      BY <3>1, <3>2
  <2> QED
    BY <2>1, <2>2
<1>7. NotBehindDisk'
  BY <1>3 DEF ModulesInv, NotBehindDisk, DiskWasBroadcast, Editions
<1>8. DiskWasBroadcast' /\ DiskAdvances
  BY DEF ModulesInv, DiskWasBroadcast, DiskAdvances, Files
<1>9. SavedWhenDownloaded'
  BY <1>3 DEF ModulesInv, SavedWhenDownloaded
<1>10. SoundModules /\ WholeFiles => SoundModules' /\ WholeFiles'
  BY <1>3 DEF SoundModules, WholeFiles
<1> QED
  BY <1>4, <1>5, <1>6, <1>7, <1>8, <1>9, <1>10 DEF ModulesInv

-----------------------------------------------------------------------------
\* The inductive invariant.

LEMMA InitIInv == Init => IInv
<1> SUFFICES ASSUME Init PROVE IInv
  OBVIOUS
<1>1. LastEdition \in Nat \ {0} /\ CacheSize \in Nat /\ MaxDamage \in Nat
  BY CarouselAssumption
<1>2. \A m \in ModuleIds : disk[m] = [version |-> 0, whole |-> TRUE]
  BY DEF Init
<1>3. TypeOK
  <2>1. [version |-> 0, whole |-> TRUE] \in Files
    BY <1>1 DEF Files
  <2>2. disk \in [ModuleIds -> Files] /\ cache \in [1..CacheSize -> DDB \cup {Empty}]
    BY <2>1 DEF Init
  <2>3. air \in Editions /\ damage \in 0..MaxDamage /\ announced \in 0..air
        /\ replay \in 0..(CacheSize + 1) /\ modules \subseteq Module
    BY <1>1 DEF Init, Editions
  <2> QED
    BY <2>2, <2>3 DEF Init, TypeOK
<1>4. ModulesInv
  BY <1>1, <1>2, <1>3 DEF Init, TypeOK, ModulesInv, OneEntryPerModule, BlocksLeftIsExact,
    NotBehindDisk, DiskWasBroadcast, SavedWhenDownloaded
<1>5. SoundModules /\ WholeFiles /\ GoodCache
  BY <1>2 DEF Init, SoundModules, WholeFiles, GoodCache
<1> QED
  BY <1>3, <1>4, <1>5 DEF IInv

\* A DDB is read, whether it comes from the broadcast or was damaged.
LEMMA ReceiveDDBKeeps ==
  ASSUME IInv, NEW d \in DDB, ReceiveDDB(d), damage' \in 0..MaxDamage,
         damage' = 0 => damage = 0 /\ d.good
  PROVE  IInv' /\ DiskAdvances
<1>1. air \in Nat /\ air' = air
  BY DEF IInv, TypeOK, ReceiveDDB, Editions
<1>2. PICK processed \in BOOLEAN :
        /\ ProcessDDB(d, processed)
        /\ cache' = IF processed \/ FreeSlots = {} THEN cache
                    ELSE [cache EXCEPT ![FirstFree] = d]
  BY DEF ReceiveDDB
<1>3. /\ ModulesInv' /\ DiskAdvances
      /\ d.good /\ SoundModules /\ WholeFiles => SoundModules' /\ WholeFiles'
  BY <1>1, <1>2, ProcessDDBKeeps DEF IInv
<1>4. /\ cache' \in [1..CacheSize -> DDB \cup {Empty}]
      /\ d.good /\ GoodCache => GoodCache'
  <2>1. CASE cache' = cache
    BY <2>1 DEF IInv, TypeOK, GoodCache
  <2>2. CASE cache' = [cache EXCEPT ![FirstFree] = d]
    BY <2>2 DEF IInv, TypeOK, GoodCache
  <2> QED
    BY <1>2, <2>1, <2>2
<1>5. TypeOK'
  BY <1>1, <1>3, <1>4 DEF IInv, TypeOK, ReceiveDDB, ModulesInv
<1> QED
  BY <1>3, <1>4, <1>5 DEF IInv

\* An iteration of the replay loop.
LEMMA ReplaySlotKeeps ==
  ASSUME IInv, ReplaySlot
  PROVE  IInv' /\ DiskAdvances
<1>1. /\ air \in Nat /\ air' = air /\ damage' = damage
      /\ replay \in 1..CacheSize /\ replay' = replay + 1 /\ CacheSize \in Nat
      /\ cache[replay] \in DDB \cup {Empty}
  BY CarouselAssumption DEF IInv, TypeOK, ReplaySlot, Editions
<1>2. /\ ModulesInv' /\ DiskAdvances
      /\ GoodCache /\ SoundModules /\ WholeFiles => SoundModules' /\ WholeFiles'
  <2>1. CASE UNCHANGED <<modules, disk>>
    <3>1. modules' \subseteq modules
      BY <2>1
    <3> QED
      BY <1>1, <2>1, <3>1, FewerModules DEF IInv
  <2>2. CASE cache[replay] # Empty /\ \E p \in BOOLEAN : ProcessDDB(cache[replay], p)
    <3>1. cache[replay] \in DDB /\ (GoodCache => cache[replay].good)
      BY <1>1, <2>2 DEF GoodCache
    <3> QED
      BY <1>1, <2>2, <3>1, ProcessDDBKeeps DEF IInv
  <2> QED
    BY <2>1, <2>2 DEF ReplaySlot
<1>3. /\ cache' \in [1..CacheSize -> DDB \cup {Empty}]
      /\ GoodCache => GoodCache'
  <2>1. cache' = cache \/ cache' = [cache EXCEPT ![replay] = Empty]
    BY DEF ReplaySlot
  <2> QED
    BY <1>1, <2>1 DEF IInv, TypeOK, GoodCache
<1>4. TypeOK'
  BY <1>1, <1>2, <1>3 DEF IInv, TypeOK, ReplaySlot, ModulesInv
<1> QED
  BY <1>1, <1>2, <1>3, <1>4 DEF IInv

LEMMA NextIInv == IInv /\ [Next]_vars => IInv' /\ DiskAdvances
<1> SUFFICES ASSUME IInv, [Next]_vars
             PROVE  IInv' /\ DiskAdvances
  OBVIOUS
<1>1. /\ air \in Nat /\ air \in Editions /\ damage \in 0..MaxDamage
      /\ CacheSize \in Nat /\ MaxDamage \in Nat /\ LastEdition \in Nat
  BY CarouselAssumption DEF IInv, TypeOK, Editions
<1>2. \A m \in ModuleIds : disk[m].version \in Nat
  BY DEF IInv, TypeOK, Files
\* Steps that touch neither the modules nor the disk nor the cache, nor the damage.
<1>3. ASSUME UNCHANGED <<modules, disk, cache, damage>>, TypeOK', air' >= air
      PROVE  IInv' /\ DiskAdvances
  <2>1. DiskAdvances
    BY <1>2, <1>3 DEF DiskAdvances
  <2>2. air' \in Nat /\ \A x \in modules : x.version \in Nat
    BY <1>3 DEF TypeOK, Editions, IInv, Module
  <2>3. ModulesInv'
    BY <1>1, <1>2, <1>3, <2>2 DEF IInv, ModulesInv, OneEntryPerModule, BlocksLeftIsExact,
      NotBehindDisk, DiskWasBroadcast, SavedWhenDownloaded
  <2>4. damage' = 0 => SoundModules' /\ WholeFiles' /\ GoodCache'
    BY <1>3 DEF IInv, SoundModules, WholeFiles, GoodCache
  <2> QED
    BY <1>3, <2>1, <2>3, <2>4 DEF IInv
<1>4. ASSUME NEW m \in ModuleIds, NEW b \in BlockNumbers, ReceiveBlock(m, b)
      PROVE  IInv' /\ DiskAdvances
  <2>1. [id |-> m, version |-> air, block |-> b, good |-> TRUE] \in DDB
    <3>1. b \in Nat
      BY CarouselAssumption DEF BlockNumbers
    <3> QED
      BY <1>1, <3>1 DEF DDB
  <2> QED
    BY <1>1, <1>4, <2>1, ReceiveDDBKeeps DEF ReceiveBlock
<1>5. ASSUME NEW m \in ModuleIds, NEW v \in Editions, NEW b \in BlockNumbers,
             ReceiveDamaged(m, v, b)
      PROVE  IInv' /\ DiskAdvances
  <2>1. [id |-> m, version |-> v, block |-> b, good |-> FALSE] \in DDB
    <3>1. b \in Nat
      BY CarouselAssumption DEF BlockNumbers
    <3> QED
      BY <3>1 DEF DDB
  <2>2. damage' \in 0..MaxDamage /\ damage' # 0
    BY <1>1, <1>5 DEF ReceiveDamaged
  <2> QED
    BY <1>5, <2>1, <2>2, ReceiveDDBKeeps DEF ReceiveDamaged
<1>6. CASE ReceiveDII
  <2>1. /\ ModulesInv' /\ DiskAdvances
        /\ SoundModules /\ WholeFiles => SoundModules' /\ WholeFiles'
    BY <1>1, <1>6, ProcessDIIKeeps DEF IInv, ReceiveDII
  <2>2. TypeOK'
    <3>1. completed' \in BOOLEAN
      BY <1>6, Zenon DEF IInv, TypeOK, ReceiveDII
    <3>2. replay' \in 0..(CacheSize + 1) /\ announced' \in 0..air'
      BY <1>1, <1>6 DEF IInv, TypeOK, ReceiveDII, Editions
    <3> QED
      BY <1>6, <2>1, <3>1, <3>2 DEF IInv, TypeOK, ReceiveDII, ModulesInv
  <2>3. GoodCache => GoodCache'
    BY <1>6 DEF ReceiveDII, GoodCache
  <2> QED
    BY <1>6, <2>1, <2>2, <2>3 DEF IInv, ReceiveDII
<1>7. CASE ReceiveDSI
  BY <1>1, <1>3, <1>7 DEF ReceiveDSI, IInv, TypeOK
<1>8. CASE ReplaySlot
  BY <1>8, ReplaySlotKeeps
<1>9. CASE ReplayEnd
  <2>1. 0 \in 0..(CacheSize + 1)
    BY <1>1
  <2>2. TypeOK'
    BY <1>9, <2>1 DEF ReplayEnd, IInv, TypeOK
  <2> QED
    BY <1>1, <1>3, <1>9, <2>2 DEF ReplayEnd
<1>10. CASE EndOfInput
  BY <1>1, <1>3, <1>10 DEF EndOfInput, IInv, TypeOK
<1>11. CASE NewEdition
  BY <1>1, <1>3, <1>11 DEF NewEdition, IInv, TypeOK, Editions
<1>12. CASE UNCHANGED vars
  BY <1>1, <1>3, <1>12 DEF vars, IInv, TypeOK
<1> QED
  BY <1>4, <1>5, <1>6, <1>7, <1>8, <1>9, <1>10, <1>11, <1>12 DEF Next, ReceiveSection

\* The inductive invariant holds in every reachable state.
THEOREM Inductive == Spec => []IInv
<1>1. Init => IInv
  BY InitIInv
<1>2. IInv /\ [Next]_vars => IInv'
  BY NextIInv
<1> QED
  BY <1>1, <1>2, PTL DEF Spec

-----------------------------------------------------------------------------
\* The safety properties.

\* Type correctness (car, the cache and the history variables keep their types).
THEOREM TypeCorrect == Spec => []TypeOK
BY Inductive, PTL DEF IInv

\* car->modules never holds two entries for one module (find_module, process_dii).
THEOREM UniqueEntries == Spec => []OneEntryPerModule
BY Inductive, PTL DEF IInv, ModulesInv

\* blocks_left is exact whatever is received, replayed or restarted (download_block).
THEOREM ExactBlocksLeft == Spec => []BlocksLeftIsExact
BY Inductive, PTL DEF IInv, ModulesInv

\* A downloaded module is on disk at its version.
THEOREM DownloadedSafely == Spec => []DownloadedIsOnDisk
<1>1. IInv => DownloadedIsOnDisk
  <2> SUFFICES ASSUME IInv, NEW x \in modules, x.left = 0, ~x.bad
               PROVE  disk[x.id] = [version |-> x.version, whole |-> TRUE]
    BY DEF DownloadedIsOnDisk
  <2>1. disk[x.id] \in Files
    BY DEF IInv, TypeOK, Module
  <2>2. disk[x.id].version = x.version /\ disk[x.id].whole
    BY DEF IInv, ModulesInv, SavedWhenDownloaded
  <2> QED
    BY <2>1, <2>2 DEF Files
<1> QED
  BY <1>1, Inductive, PTL

\* Without damage every file that save_module wrote is whole.
THEOREM OnlyDamageSpoils == Spec => []OnlyDamageSpoilsFiles
BY Inductive, PTL DEF IInv, OnlyDamageSpoilsFiles, WholeFiles

\* The files of a module never go back to an older version.
THEOREM FilesNeverOlder == Spec => NeverOlder
<1>1. IInv /\ [Next]_vars => [DiskAdvances]_vars
  BY NextIInv
<1> QED
  BY <1>1, Inductive, PTL DEF Spec, NeverOlder, DiskAdvances

\* What the test of the main loop on a DII establishes when it sets car->completed.
LEMMA CompletedStep ==
  ASSUME IInv, [Next]_vars, ~completed, completed'
  PROVE  /\ ReceiveDII /\ UNCHANGED <<air, disk>> /\ announced' = air /\ air \in Editions
         /\ \A m \in Ids(air) : /\ disk[m].version = air
                                /\ damage = 0 => disk[m].whole
<1>1. ReceiveDII /\ completed' = (completed \/ AllDownloaded) /\ Missing(air) = {}
  BY DEF Next, ReceiveSection, ReceiveBlock, ReceiveDamaged, ReceiveDDB, ReceiveDII,
    ReceiveDSI, ReplaySlot, ReplayEnd, EndOfInput, NewEdition, vars
<1>2. AllDownloaded
  BY <1>1
<1>3. ASSUME NEW m \in Ids(air)
      PROVE  disk[m].version = air /\ (damage = 0 => disk[m].whole)
  <2>1. PICK x \in modules : x.id = m /\ x.version = air
    BY <1>1 DEF Missing, FoundModules
  <2>2. x.left = 0
    BY <1>2 DEF AllDownloaded
  <2>3. m \in ModuleIds
    BY <2>1 DEF IInv, TypeOK, Module
  <2> QED
    BY <2>1, <2>2, <2>3 DEF IInv, ModulesInv, SavedWhenDownloaded, WholeFiles
<1> QED
  BY <1>1, <1>3 DEF ReceiveDII, IInv, TypeOK

\* The carousel is declared complete only when every module of the DII is on disk at the
\* DII's version.
THEOREM CompletedSafely == Spec => CompletedOnlyWhenOnDisk
<1> DEFINE OnDisk == ~completed /\ completed' /\ damage = 0
                       => \A m \in Ids(announced') :
                            disk'[m] = [version |-> announced', whole |-> TRUE]
<1>1. ASSUME IInv, [Next]_vars PROVE OnDisk
  <2> SUFFICES ASSUME ~completed, completed', damage = 0, NEW m \in Ids(announced')
               PROVE  disk'[m] = [version |-> announced', whole |-> TRUE]
    OBVIOUS
  <2>1. disk' = disk /\ announced' = air /\ air \in Editions /\ m \in Ids(air)
    BY <1>1, CompletedStep
  <2>2. disk[m].version = air /\ disk[m].whole
    BY <1>1, <2>1, CompletedStep
  <2>3. m \in ModuleIds
    BY <2>1, CarouselAssumption
  <2>4. disk[m] \in Files
    BY <1>1, <2>3 DEF IInv, TypeOK
  <2> QED
    BY <2>1, <2>2, <2>4 DEF Files
<1>2. IInv /\ [Next]_vars => [OnDisk]_vars
  BY <1>1
<1> QED
  BY <1>2, Inductive, PTL DEF Spec, CompletedOnlyWhenOnDisk

-----------------------------------------------------------------------------
\* The receiver implements CarouselStore.

\* Of all that a DDB does, a reader of the files sees nothing or one module replaced.
LEMMA ProcessDDBStores ==
  ASSUME IInv, NEW d \in DDB, NEW processed \in BOOLEAN, ProcessDDB(d, processed),
         UNCHANGED <<air, completed>>
  PROVE  \/ UNCHANGED disk
         \/ \E m \in ModuleIds, v \in 1..LastEdition, w \in BOOLEAN :
              ReaderView!Store(m, v, w)
<1> SUFFICES ASSUME disk' # disk
             PROVE  \E m \in ModuleIds, v \in 1..LastEdition, w \in BOOLEAN :
                      ReaderView!Store(m, v, w)
  OBVIOUS
<1>1. PICK x \in FoundModules(d.id, d.version) : DownloadBlock(x, d)
  BY DEF ProcessDDB
<1>2. x \in modules /\ x \in Module
  BY <1>1 DEF FoundModules, IInv, TypeOK
<1>3. x.id \in ModuleIds /\ x.version \in 1..LastEdition
  BY <1>2 DEF Module, Editions
<1>4. x.version <= air /\ x.id \in Ids(x.version) /\ disk[x.id].version <= x.version
  BY <1>2 DEF IInv, ModulesInv, NotBehindDisk
<1>5. air \in Nat
  BY DEF IInv, TypeOK, Editions
<1> DEFINE y == WithBlock(x, d)
<1>6. y.id = x.id /\ y.version = x.version
  BY <1>2 DEF WithBlock, Module
<1> HIDE DEF y
<1>7. PICK w \in BOOLEAN :
        disk' = [disk EXCEPT ![x.id] = [version |-> x.version, whole |-> w]]
  <2>1. ProcessBiop(y, modules \ {x})
    BY <1>1 DEF DownloadBlock, y
  <2>2. CASE disk' = [disk EXCEPT ![y.id] = [version |-> y.version, whole |-> TRUE]]
    BY <1>6, <2>2
  <2>3. CASE disk' = [disk EXCEPT ![y.id] = [version |-> y.version, whole |-> FALSE]]
    BY <1>6, <2>3
  <2>4. Sound(y) = TRUE \/ Sound(y) = FALSE
    BY Zenon DEF Sound
  <2> QED
    BY <2>1, <2>2, <2>3, <2>4 DEF ProcessBiop
<1>8. ReaderView!Store(x.id, x.version, w)
  BY <1>3, <1>4, <1>5, <1>7 DEF ReaderView!Store, Ids
<1> QED
  BY <1>3, <1>7, <1>8

\* Every behaviour of the receiver is one of CarouselStore.
THEOREM Refinement == Spec => ImplementsStore
<1>1. Init => ReaderView!StoreInit
  BY DEF Init, ReaderView!StoreInit
<1>2. ASSUME IInv, [Next]_vars
      PROVE  [ReaderView!StoreNext]_(ReaderView!storeVars)
  <2> DEFINE Stored == \/ UNCHANGED disk
                       \/ \E m \in ModuleIds, v \in 1..LastEdition, w \in BOOLEAN :
                            ReaderView!Store(m, v, w)
  <2>1. ASSUME UNCHANGED <<air, completed>>, Stored
        PROVE  [ReaderView!StoreNext]_(ReaderView!storeVars)
    BY <2>1 DEF ReaderView!StoreNext, ReaderView!storeVars
  <2>2. ASSUME NEW d \in DDB, ReceiveDDB(d)
        PROVE  [ReaderView!StoreNext]_(ReaderView!storeVars)
    BY <1>2, <2>1, <2>2, ProcessDDBStores DEF ReceiveDDB
  <2>3. \A b \in BlockNumbers : b \in Nat
    BY CarouselAssumption DEF BlockNumbers
  <2>4. air \in Editions
    BY <1>2 DEF IInv, TypeOK
  <2>5. ASSUME NEW m \in ModuleIds, NEW b \in BlockNumbers, ReceiveBlock(m, b)
        PROVE  [ReaderView!StoreNext]_(ReaderView!storeVars)
    <3>1. [id |-> m, version |-> air, block |-> b, good |-> TRUE] \in DDB
      BY <2>3, <2>4 DEF DDB
    <3> QED
      BY <2>2, <2>5, <3>1 DEF ReceiveBlock
  <2>6. ASSUME NEW m \in ModuleIds, NEW v \in Editions, NEW b \in BlockNumbers,
               ReceiveDamaged(m, v, b)
        PROVE  [ReaderView!StoreNext]_(ReaderView!storeVars)
    <3>1. [id |-> m, version |-> v, block |-> b, good |-> FALSE] \in DDB
      BY <2>3 DEF DDB
    <3> QED
      BY <2>2, <2>6, <3>1 DEF ReceiveDamaged
  <2>7. CASE ReceiveDII
    <3>1. CASE completed' = completed
      BY <2>1, <2>7, <3>1 DEF ReceiveDII
    <3>2. CASE completed' # completed
      <4>1. ~completed /\ completed' = TRUE
        <5>1. completed \in BOOLEAN
          BY <1>2 DEF IInv, TypeOK
        <5>2. completed' = (completed \/ AllDownloaded)
          BY <2>7, <3>2 DEF ReceiveDII
        <5> QED
          BY <3>2, <5>1, <5>2, Zenon
      <4>2. /\ UNCHANGED <<air, disk>>
            /\ air \in Editions /\ \A m \in Ids(air) : disk[m].version = air
        BY <1>2, <4>1, CompletedStep
      <4>3. air \in 1..air
        BY <4>2 DEF Editions
      <4>4. ReaderView!Declare
        BY <4>1, <4>2, <4>3 DEF ReaderView!Declare, Ids
      <4> QED
        BY <4>4 DEF ReaderView!StoreNext
    <3> QED
      BY <3>1, <3>2
  <2>8. CASE ReplaySlot
    <3>1. CASE UNCHANGED disk
      BY <2>1, <2>8, <3>1 DEF ReplaySlot
    <3>2. CASE cache[replay] # Empty /\ \E p \in BOOLEAN : ProcessDDB(cache[replay], p)
      <4>1. cache[replay] \in DDB
        BY <1>2, <2>8, <3>2 DEF IInv, TypeOK, ReplaySlot
      <4> QED
        BY <1>2, <2>1, <2>8, <3>2, <4>1, ProcessDDBStores DEF ReplaySlot
    <3> QED
      BY <2>8, <3>1, <3>2 DEF ReplaySlot
  <2>9. CASE ReplayEnd
    BY <2>9 DEF ReplayEnd, ReaderView!StoreNext, ReaderView!Withdraw
  <2>10. CASE NewEdition
    BY <2>10 DEF NewEdition, ReaderView!StoreNext, ReaderView!Publish
  <2>11. CASE ReceiveDSI \/ EndOfInput \/ UNCHANGED vars
    BY <2>1, <2>11 DEF ReceiveDSI, EndOfInput, vars
  <2> QED
    BY <1>2, <2>5, <2>6, <2>7, <2>8, <2>9, <2>10, <2>11 DEF Next, ReceiveSection
<1> QED
  BY <1>1, <1>2, Inductive, PTL DEF Spec, ImplementsStore, ReaderView!StoreSpec

=============================================================================
