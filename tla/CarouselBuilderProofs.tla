------------------------ MODULE CarouselBuilderProofs ------------------------
(***************************************************************************)
(* What holds of the modules that file2mod makes of any directory tree:    *)
(* their ids and sizes, the keys of the objects, and that every binding    *)
(* leads to its object.                                                    *)
(***************************************************************************)
EXTENDS CarouselBuilder, Integers, FiniteSetTheorems, SequenceTheorems, TLAPS

Bindings    == [node : Nat, module : Nat, key : Nat]
MessageSet  == [node : Nat, key : Nat, kind : Kinds, bindings : Seq(Bindings),
                size : Nat \ {0}]
ModuleSet   == [id : Nat, size : Nat, messages : Seq(MessageSet)]
WishTables  == UNION {[D -> Nat] : D \in SUBSET Wishes}
BuilderSet  == [nextId : Nat \ {0}, byWish : WishTables, byType : [Kinds -> Nat],
                modules : Seq(ModuleSet)]

\* Every module has a message, and a size of no more than OptSize unless it has only one.
SizesFit(ms) ==
  \A i \in DOMAIN ms : /\ ms[i].size > 0 /\ Len(ms[i].messages) > 0
                       /\ ms[i].size <= OptSize \/ Len(ms[i].messages) = 1

\* The builder: no id was used that MODULE_ID has not passed, and the modules that are
\* known by a wish or a type are there.
BInv(b) ==
  /\ b \in BuilderSet /\ IsFiniteSet(DOMAIN b.byWish)
  /\ \A i \in DOMAIN b.modules : b.modules[i].id < b.nextId
  /\ \A i, j \in DOMAIN b.modules : b.modules[i].id = b.modules[j].id => i = j
  /\ \A w \in DOMAIN b.byWish : /\ w \in Wishes /\ w # NoWish /\ w.id < b.nextId
                                /\ b.byWish[w] \in DOMAIN b.modules
                                /\ b.modules[b.byWish[w]].id = w.id
  /\ \A k \in Kinds : b.byType[k] # 0 => b.byType[k] \in DOMAIN b.modules
  /\ SizesFit(b.modules)

\* The message is put into a module of this id, and nothing else changes.
Puts(ms, ms2, message, id) ==
  /\ \A j \in DOMAIN ms : /\ j \in DOMAIN ms2 /\ ms2[j].id = ms[j].id
                          /\ ToSet(ms[j].messages) \subseteq ToSet(ms2[j].messages)
  /\ \A j \in DOMAIN ms2 : \A m \in ToSet(ms2[j].messages) :
       m = message \/ (j \in DOMAIN ms /\ m \in ToSet(ms[j].messages))
  /\ \E i \in DOMAIN ms2 : ms2[i].id = id /\ message \in ToSet(ms2[i].messages)

-----------------------------------------------------------------------------
(* Modules and their messages.                                              *)

LEMMA ToSetOfAppend ==
  ASSUME NEW S, NEW s \in Seq(S), NEW e \in S
  PROVE  /\ Append(s, e) \in Seq(S) /\ Len(Append(s, e)) = Len(s) + 1
         /\ \A x : x \in ToSet(Append(s, e)) <=> x \in ToSet(s) \/ x = e
<1>1. /\ Append(s, e) \in Seq(S) /\ Len(Append(s, e)) = Len(s) + 1
      /\ DOMAIN Append(s, e) = 1..(Len(s) + 1) /\ DOMAIN s = 1..Len(s) /\ Len(s) \in Nat
      /\ \A i \in 1..Len(s) : Append(s, e)[i] = s[i]
      /\ Append(s, e)[Len(s) + 1] = e
  OBVIOUS
<1>2. ASSUME NEW x
      PROVE  x \in ToSet(Append(s, e)) <=> x \in ToSet(s) \/ x = e
  BY <1>1 DEF ToSet
<1> QED
  BY <1>1, <1>2

\* A message more in a module.
LEMMA MessageMore ==
  ASSUME NEW m \in ModuleSet, NEW message \in MessageSet
  PROVE  /\ With(m, message) \in ModuleSet
         /\ With(m, message).id = m.id /\ With(m, message).size = m.size + message.size
         /\ With(m, message).size > 0
         /\ Len(With(m, message).messages) = Len(m.messages) + 1
         /\ \A x : x \in ToSet(With(m, message).messages) <=>
                     x \in ToSet(m.messages) \/ x = message
<1> DEFINE q == Append(m.messages, message)
           z == m.size + message.size
<1>1. /\ m.id \in Nat /\ m.size \in Nat /\ m.messages \in Seq(MessageSet)
      /\ message.size \in Nat \ {0}
  BY DEF ModuleSet, MessageSet
<1>2. q \in Seq(MessageSet) /\ Len(q) = Len(m.messages) + 1
      /\ \A x : x \in ToSet(q) <=> x \in ToSet(m.messages) \/ x = message
  BY <1>1, ToSetOfAppend
<1>3. z \in Nat /\ z > 0
  BY <1>1
<1>4. With(m, message) = [m EXCEPT !.messages = q, !.size = z]
  BY Zenon DEF With
<1> HIDE DEF q, z
<1>5. /\ With(m, message) \in ModuleSet /\ With(m, message).id = m.id
      /\ With(m, message).messages = q /\ With(m, message).size = z
  BY <1>2, <1>3, <1>4 DEF ModuleSet
<1> QED
  BY <1>2, <1>3, <1>5 DEF q, z

\* The modules with the message in the one at place i.
LEMMA WriteToModule ==
  ASSUME NEW b \in BuilderSet, NEW i \in DOMAIN b.modules, NEW message \in MessageSet
  PROVE  /\ Written(b, i, message) \in BuilderSet
         /\ Written(b, i, message).modules =
              [b.modules EXCEPT ![i] = With(b.modules[i], message)]
         /\ Written(b, i, message).nextId = b.nextId
         /\ Written(b, i, message).byWish = b.byWish
         /\ Written(b, i, message).byType = b.byType
<1> DEFINE ms == [b.modules EXCEPT ![i] = With(b.modules[i], message)]
<1>1. b.modules \in Seq(ModuleSet) /\ b.modules[i] \in ModuleSet
  BY DEF BuilderSet
<1>2. ms \in Seq(ModuleSet)
  BY <1>1, MessageMore
<1>3. Written(b, i, message) = [b EXCEPT !.modules = ms]
  BY Zenon DEF Written
<1> HIDE DEF ms
<1>4. /\ Written(b, i, message) \in BuilderSet /\ Written(b, i, message).modules = ms
      /\ Written(b, i, message).nextId = b.nextId
      /\ Written(b, i, message).byWish = b.byWish
      /\ Written(b, i, message).byType = b.byType
  BY <1>2, <1>3 DEF BuilderSet
<1> QED
  BY <1>4 DEF ms

\* An open module with room takes the message.
LEMMA RoomTaken ==
  ASSUME NEW b, BInv(b), NEW i \in DOMAIN b.modules, NEW message \in MessageSet,
         HasRoom(b.modules[i], message.size)
  PROVE  /\ BInv(Written(b, i, message))
         /\ Puts(b.modules, Written(b, i, message).modules, message, b.modules[i].id)
<1> DEFINE c  == Written(b, i, message)
           ms == b.modules
           w  == With(ms[i], message)
<1>1. /\ c \in BuilderSet /\ c.modules = [ms EXCEPT ![i] = w]
      /\ c.nextId = b.nextId /\ c.byWish = b.byWish /\ c.byType = b.byType
  BY WriteToModule DEF BInv
<1>2. ms \in Seq(ModuleSet) /\ ms[i] \in ModuleSet /\ message.size \in Nat \ {0}
  BY DEF BInv, BuilderSet, MessageSet
<1>3. /\ w.id = ms[i].id /\ w.size = ms[i].size + message.size /\ w.size > 0
      /\ Len(w.messages) = Len(ms[i].messages) + 1
      /\ \A x : x \in ToSet(w.messages) <=> x \in ToSet(ms[i].messages) \/ x = message
  BY <1>2, MessageMore
<1>4. ms[i].size > 0 /\ Len(ms[i].messages) > 0 /\ ms[i].size \in Nat
      /\ Len(ms[i].messages) \in Nat
  BY <1>2 DEF BInv, SizesFit, ModuleSet
<1>5. w.size <= OptSize /\ Len(w.messages) > 0
  BY <1>2, <1>3, <1>4 DEF HasRoom
<1> HIDE DEF w, c
<1>6. DOMAIN c.modules = DOMAIN ms /\ c.modules[i] = w
      /\ \A j \in DOMAIN ms : j # i => c.modules[j] = ms[j]
  BY <1>1, <1>2
<1>7. \A j \in DOMAIN ms : c.modules[j].id = ms[j].id
  BY <1>3, <1>6
<1>8. SizesFit(c.modules)
  BY <1>3, <1>5, <1>6 DEF SizesFit, BInv
<1>9. BInv(c)
  BY <1>1, <1>6, <1>7, <1>8 DEF BInv
<1>10. Puts(ms, c.modules, message, ms[i].id)
  BY <1>3, <1>6, <1>7 DEF Puts
<1> QED
  BY <1>9, <1>10 DEF c

\* The first number of an interval that a set has is its minimum.
LEMMA MinIsFirst ==
  ASSUME NEW a \in Nat, NEW n \in Nat, NEW S, S \subseteq a..n, a \in S
  PROVE  Min(S) = a
<1>1. \A x \in S : (\A y \in S : x =< y) => x = a
  OBVIOUS
<1>2. \A y \in S : a =< y
  OBVIOUS
<1> QED
  BY <1>1, <1>2, Zenon DEF Min

\* A new module.
NewModule(id) == [id |-> id, size |-> 0, messages |-> <<>>]

\* The id of a new module is followed by the next number: the ids that are reserved are
\* never ahead of MODULE_ID.
LEMMA NextModuleOpens ==
  ASSUME NEW b, BInv(b), NEW id \in Nat, id >= b.nextId
  PROVE  /\ NextModule(b, id) \in BuilderSet
         /\ NextModule(b, id).modules = Append(b.modules, NewModule(id))
         /\ NextModule(b, id).nextId = id + 1
         /\ NextModule(b, id).byWish = b.byWish /\ NextModule(b, id).byType = b.byType
<1> DEFINE n  == Cardinality(DOMAIN b.byWish)
           S  == {k \in (id + 1)..(id + 1 + n) : ~IsReserved(b, k)}
           z  == Min(S)
           ms == Append(b.modules, NewModule(id))
<1>1. b \in BuilderSet /\ b.modules \in Seq(ModuleSet) /\ b.nextId \in Nat
  BY DEF BInv, BuilderSet
<1>2. n \in Nat
  BY FS_CardinalityType DEF BInv
<1>3. ~IsReserved(b, id + 1)
  <2>1. SUFFICES ASSUME [id |-> id + 1, plain |-> TRUE] \in DOMAIN b.byWish PROVE FALSE
    BY DEF IsReserved
  <2>2. id + 1 < b.nextId
    BY <2>1 DEF BInv
  <2> QED
    BY <1>1, <2>2
<1>4. z = id + 1 /\ z \in Nat \ {0}
  <2> HIDE DEF n
  <2>1. S \subseteq (id + 1)..(id + 1 + n) /\ id + 1 \in S
    BY <1>2, <1>3
  <2> DEFINE first == id + 1
             last  == id + 1 + n
  <2>2. first \in Nat \ {0} /\ last \in Nat
    BY <1>2
  <2> HIDE DEF S, first, last
  <2>3. Min(S) = first
    BY <2>1, <2>2, MinIsFirst DEF first, last
  <2> QED
    BY <2>2, <2>3 DEF first
<1>5. NewModule(id) \in ModuleSet
  BY DEF NewModule, ModuleSet
<1>6. ms \in Seq(ModuleSet)
  BY <1>1, <1>5
<1>7. NextModule(b, id) = [b EXCEPT !.modules = ms, !.nextId = z]
  BY Zenon DEF NextModule, NewModule
<1> HIDE DEF ms, S, z
<1>8. /\ NextModule(b, id) \in BuilderSet
      /\ NextModule(b, id).modules = ms /\ NextModule(b, id).nextId = id + 1
      /\ NextModule(b, id).byWish = b.byWish /\ NextModule(b, id).byType = b.byType
  BY <1>1, <1>4, <1>6, <1>7 DEF BuilderSet
<1> QED
  BY <1>8 DEF ms

\* A module is opened for a message, and found later by a wish or a type.
LEMMA OpenedTakes ==
  ASSUME NEW b, BInv(b), NEW id \in Nat, id >= b.nextId, NEW message \in MessageSet,
         NEW c \in BuilderSet, c.modules = Append(b.modules, NewModule(id)),
         c.nextId = id + 1, IsFiniteSet(DOMAIN c.byWish),
         \A w \in DOMAIN c.byWish :
           /\ w \in Wishes /\ w # NoWish
           /\ \/ w \in DOMAIN b.byWish /\ c.byWish[w] = b.byWish[w]
              \/ w.id = id /\ c.byWish[w] = Len(b.modules) + 1,
         \A k \in Kinds : c.byType[k] \in {b.byType[k], Len(b.modules) + 1}
  PROVE  /\ BInv(Written(c, Len(c.modules), message))
         /\ Puts(b.modules, Written(c, Len(c.modules), message).modules, message, id)
<1> DEFINE d  == Written(c, Len(c.modules), message)
           i  == Len(b.modules) + 1
           w  == With(NewModule(id), message)
<1>1. b.modules \in Seq(ModuleSet) /\ b.nextId \in Nat
  BY DEF BInv, BuilderSet
<1>2. NewModule(id) \in ModuleSet
  BY DEF NewModule, ModuleSet
<1>3. /\ Len(c.modules) = i /\ i \in DOMAIN c.modules /\ c.modules[i] = NewModule(id)
      /\ DOMAIN c.modules = DOMAIN b.modules \cup {i} /\ i \notin DOMAIN b.modules
      /\ \A j \in DOMAIN b.modules : c.modules[j] = b.modules[j]
  BY <1>1, <1>2
<1>4. /\ d \in BuilderSet /\ d.modules = [c.modules EXCEPT ![i] = w]
      /\ d.nextId = id + 1 /\ d.byWish = c.byWish /\ d.byType = c.byType
  <2>1. c.modules[i] = NewModule(id) /\ i \in DOMAIN c.modules /\ d = Written(c, i, message)
    BY <1>3, Zenon
  <2> HIDE DEF i, d
  <2>2. /\ d \in BuilderSet /\ d.modules = [c.modules EXCEPT ![i] = With(c.modules[i], message)]
        /\ d.nextId = c.nextId /\ d.byWish = c.byWish /\ d.byType = c.byType
    BY <2>1, WriteToModule
  <2> QED
    BY <2>1, <2>2
<1>5. /\ NewModule(id).id = id /\ NewModule(id).size = 0 /\ NewModule(id).messages = <<>>
      /\ ToSet(<<>>) = {} /\ Len(<<>>) = 0
  BY DEF NewModule, ToSet
<1>6. /\ w.id = id /\ w.size > 0 /\ Len(w.messages) = 1
      /\ \A x : x \in ToSet(w.messages) <=> x = message
  <2>1. /\ w.id = NewModule(id).id /\ w.size > 0
        /\ Len(w.messages) = Len(NewModule(id).messages) + 1
        /\ \A x : x \in ToSet(w.messages) <=> x \in ToSet(NewModule(id).messages) \/ x = message
    BY <1>2, MessageMore
  <2> HIDE DEF w
  <2> QED
    BY <1>5, <2>1
<1> HIDE DEF w, d, i
<1>7. /\ DOMAIN d.modules = DOMAIN b.modules \cup {i} /\ d.modules[i] = w
      /\ \A j \in DOMAIN b.modules : d.modules[j] = b.modules[j]
  BY <1>3, <1>4
<1>8. SizesFit(d.modules)
  <2>1. SizesFit(b.modules)
    BY DEF BInv
  <2>2. ASSUME NEW j \in DOMAIN d.modules
        PROVE  /\ d.modules[j].size > 0 /\ Len(d.modules[j].messages) > 0
               /\ d.modules[j].size <= OptSize \/ Len(d.modules[j].messages) = 1
    <3>1. CASE j = i
      <4>1. d.modules[j] = w /\ w.size > 0 /\ Len(w.messages) = 1 /\ Len(w.messages) > 0
        BY <1>6, <1>7, <3>1
      <4> QED
        BY <4>1
    <3>2. CASE j \in DOMAIN b.modules
      <4>1. d.modules[j] = b.modules[j]
        BY <1>7, <3>2
      <4> QED
        BY <2>1, <3>2, <4>1 DEF SizesFit
    <3> QED
      BY <1>7, <2>2, <3>1, <3>2
  <2> QED
    BY <2>2 DEF SizesFit
<1>9. ASSUME NEW j \in DOMAIN b.modules
      PROVE  b.modules[j].id < b.nextId /\ b.modules[j].id \in Nat
  <2>1. b.modules[j] \in ModuleSet
    BY <1>1
  <2> QED
    BY <2>1 DEF BInv, ModuleSet
<1>10. \A j, k \in DOMAIN d.modules : d.modules[j].id = d.modules[k].id => j = k
  BY <1>1, <1>6, <1>7, <1>9 DEF BInv
<1>11. \A j \in DOMAIN d.modules : d.modules[j].id < d.nextId
  BY <1>1, <1>4, <1>6, <1>7, <1>9
<1>12. \A v \in DOMAIN d.byWish : /\ v \in Wishes /\ v # NoWish /\ v.id < d.nextId
                                  /\ d.byWish[v] \in DOMAIN d.modules
                                  /\ d.modules[d.byWish[v]].id = v.id
  <2> SUFFICES ASSUME NEW v \in DOMAIN d.byWish
               PROVE  /\ v \in Wishes /\ v # NoWish /\ v.id < d.nextId
                      /\ d.byWish[v] \in DOMAIN d.modules
                      /\ d.modules[d.byWish[v]].id = v.id
    OBVIOUS
  <2>1. v \in Wishes /\ v # NoWish /\ v.id \in Nat
    BY <1>4 DEF Wishes
  <2>2. CASE v \in DOMAIN b.byWish /\ c.byWish[v] = b.byWish[v]
    BY <1>1, <1>4, <1>7, <2>1, <2>2 DEF BInv
  <2>3. CASE v.id = id /\ c.byWish[v] = i
    BY <1>4, <1>6, <1>7, <2>1, <2>3
  <2> QED
    BY <1>4, <2>2, <2>3 DEF i
<1>13. \A k \in Kinds : d.byType[k] # 0 => d.byType[k] \in DOMAIN d.modules
  BY <1>4, <1>7 DEF BInv, i
<1>14. BInv(d)
  BY <1>4, <1>8, <1>10, <1>11, <1>12, <1>13 DEF BInv
<1>15. Puts(b.modules, d.modules, message, id)
  BY <1>6, <1>7 DEF Puts
<1> QED
  BY <1>14, <1>15 DEF d

-----------------------------------------------------------------------------
(* __addNode.                                                               *)

\* A wish that can be met opens a module, of the id that was asked for.
LEMMA ReservedTakes ==
  ASSUME NEW b, BInv(b), NEW wish \in Wishes, wish # NoWish, CanReserve(b, wish),
         NEW message \in MessageSet
  PROVE  /\ BInv(Reserved(b, wish, message))
         /\ Puts(b.modules, Reserved(b, wish, message).modules, message, wish.id)
<1> DEFINE opened == NextModule(b, wish.id)
           i      == Len(opened.modules)
           table  == Extended(opened.byWish, wish, i)
           c      == [opened EXCEPT !.byWish = table]
<1>1. b \in BuilderSet /\ b.nextId \in Nat /\ wish.id \in Nat /\ wish.id >= b.nextId
      /\ b.modules \in Seq(ModuleSet) /\ b.byWish \in WishTables
  BY DEF BInv, BuilderSet, Wishes, CanReserve
<1>2. /\ opened \in BuilderSet /\ opened.modules = Append(b.modules, NewModule(wish.id))
      /\ opened.nextId = wish.id + 1 /\ opened.byWish = b.byWish /\ opened.byType = b.byType
  BY <1>1, NextModuleOpens
<1> HIDE DEF opened
<1>3. i = Len(b.modules) + 1 /\ i \in Nat
  <2>1. NewModule(wish.id) \in ModuleSet
    BY <1>1 DEF NewModule, ModuleSet
  <2> QED
    BY <1>1, <1>2, <2>1
<1> HIDE DEF i
<1>4. /\ DOMAIN table = DOMAIN b.byWish \cup {wish}
      /\ table[wish] = i
      /\ \A w \in DOMAIN b.byWish : w # wish => table[w] = b.byWish[w]
      /\ table \in WishTables
  <2>1. b.byWish \in [DOMAIN b.byWish -> Nat] /\ DOMAIN b.byWish \subseteq Wishes
    BY <1>1 DEF WishTables
  <2>2. table = [w \in DOMAIN b.byWish \cup {wish} |->
                   IF w = wish THEN i ELSE b.byWish[w]]
    BY <1>2 DEF Extended
  <2>3. table \in [DOMAIN b.byWish \cup {wish} -> Nat]
    BY <1>3, <2>1, <2>2
  <2> QED
    BY <2>1, <2>2, <2>3 DEF WishTables
<1> HIDE DEF table
<1>5. /\ c \in BuilderSet /\ c.modules = opened.modules /\ c.nextId = opened.nextId
      /\ c.byWish = table /\ c.byType = opened.byType
  BY <1>2, <1>4 DEF BuilderSet
<1>6. IsFiniteSet(DOMAIN c.byWish)
  BY <1>4, <1>5, FS_AddElement DEF BInv
<1>7. \A w \in DOMAIN c.byWish :
        /\ w \in Wishes /\ w # NoWish
        /\ \/ w \in DOMAIN b.byWish /\ c.byWish[w] = b.byWish[w]
           \/ w.id = wish.id /\ c.byWish[w] = Len(b.modules) + 1
  BY <1>3, <1>4, <1>5 DEF BInv
<1>8. \A k \in Kinds : c.byType[k] \in {b.byType[k], Len(b.modules) + 1}
  BY <1>2, <1>5
<1>9. Reserved(b, wish, message) = Written(c, Len(c.modules), message)
  BY <1>5 DEF Reserved, opened, i, table
<1> HIDE DEF c
<1>10. c.modules = Append(b.modules, NewModule(wish.id)) /\ c.nextId = wish.id + 1
  BY <1>2, <1>5
<1>11. /\ BInv(Written(c, Len(c.modules), message))
       /\ Puts(b.modules, Written(c, Len(c.modules), message).modules, message, wish.id)
  BY <1>1, <1>5, <1>6, <1>7, <1>8, <1>10, OpenedTakes
<1> QED
  BY <1>9, <1>11

\* Without a wish the message goes to the open module of its type, or to a new one.
LEMMA UnreservedTakes ==
  ASSUME NEW b, BInv(b), NEW message \in MessageSet
  PROVE  LET c == Unreserved(b, message)
         IN  /\ BInv(c)
             /\ Puts(b.modules, c.modules, message, c.modules[c.byType[message.kind]].id)
<1> DEFINE i == b.byType[message.kind]
           c == Unreserved(b, message)
<1>1. b \in BuilderSet /\ b.nextId \in Nat /\ b.modules \in Seq(ModuleSet)
      /\ b.byType \in [Kinds -> Nat] /\ message.kind \in Kinds
  BY DEF BInv, BuilderSet, MessageSet
<1>2. CASE i # 0 /\ HasRoom(b.modules[i], message.size)
  <2>1. i \in DOMAIN b.modules
    BY <1>1, <1>2 DEF BInv
  <2>2. c = Written(b, i, message)
    BY <1>2 DEF Unreserved
  <2>3. BInv(c) /\ Puts(b.modules, c.modules, message, b.modules[i].id)
    BY <1>2, <2>1, <2>2, RoomTaken
  <2>4. c.modules[i].id = b.modules[i].id
    BY <2>1, <2>3 DEF Puts
  <2>5. Written(b, i, message).byType = b.byType
    <3> HIDE DEF i
    <3> QED
      BY <1>1, <2>1, WriteToModule
  <2> QED
    BY <2>2, <2>3, <2>4, <2>5
<1>3. CASE ~(i # 0 /\ HasRoom(b.modules[i], message.size))
  <2> DEFINE opened == NextModule(b, b.nextId)
             j      == Len(opened.modules)
             types  == [opened.byType EXCEPT ![message.kind] = j]
             o      == [opened EXCEPT !.byType = types]
  <2>1. /\ opened \in BuilderSet /\ opened.modules = Append(b.modules, NewModule(b.nextId))
        /\ opened.nextId = b.nextId + 1 /\ opened.byWish = b.byWish
        /\ opened.byType = b.byType
    BY <1>1, NextModuleOpens
  <2> HIDE DEF opened
  <2>2. j = Len(b.modules) + 1 /\ j \in Nat
    <3>1. NewModule(b.nextId) \in ModuleSet
      BY <1>1 DEF NewModule, ModuleSet
    <3> QED
      BY <1>1, <2>1, <3>1
  <2>3. c = Written(o, j, message)
    BY <1>3, Zenon DEF Unreserved, opened
  <2> HIDE DEF j
  <2>4. types \in [Kinds -> Nat] /\ types[message.kind] = j
        /\ \A k \in Kinds : types[k] \in {b.byType[k], j}
    BY <1>1, <2>1, <2>2
  <2> HIDE DEF types
  <2>5. /\ o \in BuilderSet /\ o.modules = opened.modules /\ o.nextId = opened.nextId
        /\ o.byWish = opened.byWish /\ o.byType = types
    BY <2>1, <2>4 DEF BuilderSet
  <2> HIDE DEF o
  <2>6. /\ IsFiniteSet(DOMAIN o.byWish)
        /\ \A w \in DOMAIN o.byWish :
             /\ w \in Wishes /\ w # NoWish
             /\ \/ w \in DOMAIN b.byWish /\ o.byWish[w] = b.byWish[w]
                \/ w.id = b.nextId /\ o.byWish[w] = Len(b.modules) + 1
    BY <2>1, <2>5 DEF BInv
  <2>7. /\ o.modules = Append(b.modules, NewModule(b.nextId)) /\ o.nextId = b.nextId + 1
        /\ \A k \in Kinds : o.byType[k] \in {b.byType[k], Len(b.modules) + 1}
        /\ j = Len(o.modules)
    BY <2>1, <2>2, <2>4, <2>5 DEF j
  <2> HIDE DEF c
  <2>8. BInv(c) /\ Puts(b.modules, c.modules, message, b.nextId)
    <3> DEFINE id == b.nextId
    <3>0. id \in Nat /\ id >= b.nextId /\ id = b.nextId
      BY <1>1
    <3>3. /\ o.modules = Append(b.modules, NewModule(id)) /\ o.nextId = id + 1
          /\ \A w \in DOMAIN o.byWish :
               /\ w \in Wishes /\ w # NoWish
               /\ \/ w \in DOMAIN b.byWish /\ o.byWish[w] = b.byWish[w]
                  \/ w.id = id /\ o.byWish[w] = Len(b.modules) + 1
      BY <2>6, <2>7
    <3> HIDE DEF id
    <3>1. /\ BInv(Written(o, Len(o.modules), message))
          /\ Puts(b.modules, Written(o, Len(o.modules), message).modules, message, id)
      BY <2>5, <2>6, <2>7, <3>0, <3>3, OpenedTakes
    <3>2. c = Written(o, Len(o.modules), message)
      BY <2>3, <2>7, Zenon
    <3> QED
      BY <3>0, <3>1, <3>2
  <2>9. c.modules[c.byType[message.kind]].id = b.nextId
    <3>1. NewModule(b.nextId) \in ModuleSet
      BY <1>1 DEF NewModule, ModuleSet
    <3>2. j \in DOMAIN o.modules /\ o.modules[j] = NewModule(b.nextId)
      BY <1>1, <2>2, <2>7, <3>1
    <3>3. c.byType = types /\ c.modules = [o.modules EXCEPT ![j] = With(o.modules[j], message)]
      BY <2>3, <2>5, <3>2, WriteToModule
    <3>4. With(o.modules[j], message).id = b.nextId
      BY <3>1, <3>2, MessageMore DEF NewModule
    <3> QED
      BY <2>4, <3>2, <3>3, <3>4
  <2> QED
    BY <2>8, <2>9 DEF c
<1> QED
  BY <1>2, <1>3

\* Whatever is wished for, the message is put into the module that its binding names.
LEMMA AddedTakes ==
  ASSUME NEW b, BInv(b), NEW wish \in Wishes, NEW message \in MessageSet
  PROVE  /\ BInv(Added(b, wish, message))
         /\ Puts(b.modules, Added(b, wish, message).modules, message,
                 BoundModule(b, wish, message))
<1> DEFINE case == WishCase(b, wish, message.size)
<1>1. CASE wish = NoWish
  <2>1. wish \notin DOMAIN b.byWish
    BY <1>1 DEF BInv
  <2>2. case = "none"
    BY <1>1, <2>1 DEF WishCase
  <2> QED
    BY <2>2, UnreservedTakes DEF Added, BoundModule
<1>2. CASE wish # NoWish /\ wish \notin DOMAIN b.byWish
  <2>1. case = IF CanReserve(b, wish) THEN "reserve" ELSE "in use"
    BY <1>2 DEF WishCase
  <2>2. CASE CanReserve(b, wish)
    BY <1>2, <2>1, <2>2, ReservedTakes DEF Added, BoundModule
  <2>3. CASE ~CanReserve(b, wish)
    BY <2>1, <2>3, UnreservedTakes DEF Added, BoundModule
  <2> QED
    BY <2>2, <2>3
<1>3. CASE wish \in DOMAIN b.byWish
  <2> DEFINE i == b.byWish[wish]
  <2>1. wish # NoWish /\ i \in DOMAIN b.modules /\ b.modules[i].id = wish.id
    BY <1>3 DEF BInv
  <2>2. case = IF HasRoom(b.modules[i], message.size) THEN "join" ELSE "full"
    BY <1>3, <2>1 DEF WishCase
  <2>3. CASE HasRoom(b.modules[i], message.size)
    <3>1. Added(b, wish, message) = Written(b, i, message)
      BY <2>2, <2>3 DEF Added
    <3>2. BoundModule(b, wish, message) = wish.id
      BY <2>2, <2>3 DEF BoundModule
    <3> QED
      BY <2>1, <2>3, <3>1, <3>2, RoomTaken
  <2>4. CASE ~HasRoom(b.modules[i], message.size)
    BY <2>2, <2>4, UnreservedTakes DEF Added, BoundModule
  <2> QED
    BY <2>3, <2>4
<1> QED
  BY <1>1, <1>2, <1>3

-----------------------------------------------------------------------------
(* The visit.                                                               *)

Frames == [node : Nat, key : Nat, visitKey : Nat, todo : Seq(Nat), bindings : Seq(Bindings)]

\* The nodes that were bound and those still to visit are the entries of the directory.
FrameFits(t, f) ==
  LET entries == EntriesIn(t, f.node)
  IN  /\ f.node \in DOMAIN t
      /\ Len(f.bindings) + Len(f.todo) = Len(entries)
      /\ \A i \in 1..Len(f.bindings) : f.bindings[i].node = entries[i]
      /\ \A i \in 1..Len(f.todo) : f.todo[i] = entries[Len(f.bindings) + i]

\* The frames are nested directories, from the root, and their keys increase.
StackFits(t, s) ==
  /\ s # <<>> => s[1].node = Root
  /\ \A i \in 1..Len(s) : FrameFits(t, s[i]) /\ s[i].key <= s[i].visitKey
  /\ \A i \in 1..(Len(s) - 1) : s[i].todo # <<>> /\ s[i].todo[1] = s[i + 1].node
  /\ \A i, j \in 1..Len(s) : i < j => /\ s[i].key < s[j].key
                                      /\ s[i].visitKey <= s[j].visitKey

\* The messages of these modules.
MessagesOf(ms) == UNION {ToSet(ms[i].messages) : i \in DOMAIN ms}

\* A message of the object is in a module that has the id of the binding.
Reaches(ms, x) ==
  \E i \in DOMAIN ms : /\ ms[i].id = x.module
                       /\ \E m \in ToSet(ms[i].messages) : m.key = x.key /\ m.node = x.node

\* The keys of the messages are their own: no directory that is being visited has one of
\* them, and the next key that is given out is larger.
KeysFit(s, ms) ==
  /\ \A m, n \in MessagesOf(ms) : m.key = n.key => m = n
  /\ \A m \in MessagesOf(ms), i \in 1..Len(s) : m.key # s[i].key /\ m.key <= s[Len(s)].visitKey

\* Whatever was bound is there, and a directory message has the entries of its directory.
BindingsFit(t, s, ms, srg) ==
  /\ \A i \in 1..Len(s) : \A k \in 1..Len(s[i].bindings) : Reaches(ms, s[i].bindings[k])
  /\ \A m \in MessagesOf(ms) :
       /\ m.node \in DOMAIN t /\ Len(m.bindings) = Len(EntriesIn(t, m.node))
       /\ \A k \in 1..Len(m.bindings) : /\ m.bindings[k].node = EntriesIn(t, m.node)[k]
                                        /\ Reaches(ms, m.bindings[k])
  /\ srg # None => srg.node = Root /\ Reaches(ms, srg)

\* The inductive invariant.
VInv ==
  /\ tree \in Trees /\ stack \in Seq(Frames) /\ BInv(builder) /\ srgIOR \in Bindings
  /\ StackFits(tree, stack)
  /\ KeysFit(stack, builder.modules)
  /\ BindingsFit(tree, stack, builder.modules, srgIOR)

\* What the trees are.
LEMMA TreeFacts ==
  ASSUME NEW t \in Trees
  PROVE  /\ Root \in DOMAIN t /\ t[Root].kind = "dir"
         /\ \A n \in DOMAIN t :
              /\ n \in Nat /\ t[n].kind \in Kinds /\ t[n].size \in Nat \ {0}
              /\ t[n].wish \in Wishes /\ EntriesIn(t, n) \in Seq(DOMAIN t)
              /\ t[n].kind # "dir" => EntriesIn(t, n) = <<>>
<1> DEFINE Nodes == [parent : Nat, kind : Kinds, size : Nat \ {0}, wish : Wishes]
<1>1. t \in Seq(Nodes) /\ Root \in DOMAIN t /\ t[Root].kind = "dir"
  BY TreesAssumption
<1>2. ASSUME NEW n \in DOMAIN t
      PROVE  /\ n \in Nat /\ t[n].kind \in Kinds /\ t[n].size \in Nat \ {0}
             /\ t[n].wish \in Wishes
  <2>1. n \in Nat /\ t[n] \in Nodes
    <3> HIDE DEF Nodes
    <3> QED
      BY <1>1
  <2> QED
    BY <2>1
<1>3. \A n \in DOMAIN t : /\ EntriesIn(t, n) \in Seq(DOMAIN t)
                          /\ t[n].kind # "dir" => EntriesIn(t, n) = <<>>
  BY TreesAssumption
<1> QED
  BY <1>1, <1>2, <1>3

\* An entry that is done moves from those to visit to those that are bound.
LEMMA EntryDone ==
  ASSUME NEW t, NEW f \in Frames, FrameFits(t, f), f.todo # <<>>, NEW key \in Nat,
         NEW x \in Bindings, x.node = f.todo[1]
  PROVE  /\ Done(f, key, x) \in Frames /\ FrameFits(t, Done(f, key, x))
         /\ Done(f, key, x).node = f.node /\ Done(f, key, x).key = f.key
         /\ Done(f, key, x).visitKey = key
         /\ Len(Done(f, key, x).bindings) = Len(f.bindings) + 1
         /\ \A k \in 1..Len(Done(f, key, x).bindings) :
              \/ Done(f, key, x).bindings[k] = x
              \/ /\ k \in 1..Len(f.bindings)
                 /\ Done(f, key, x).bindings[k] = f.bindings[k]
<1> DEFINE d == Done(f, key, x)
           u == Tail(f.todo)
           v == Append(f.bindings, x)
           entries == EntriesIn(t, f.node)
<1>1. /\ f.node \in Nat /\ f.key \in Nat /\ f.todo \in Seq(Nat)
      /\ f.bindings \in Seq(Bindings)
  BY DEF Frames
<1>2. /\ u \in Seq(Nat) /\ Len(u) = Len(f.todo) - 1 /\ Len(f.todo) > 0 /\ Len(f.todo) \in Nat
      /\ \A k \in 1..Len(u) : u[k] = f.todo[k + 1]
  BY <1>1
<1>3. /\ v \in Seq(Bindings) /\ Len(v) = Len(f.bindings) + 1 /\ Len(f.bindings) \in Nat
      /\ \A k \in 1..Len(f.bindings) : v[k] = f.bindings[k]
      /\ v[Len(f.bindings) + 1] = x
  BY <1>1
<1>4. d = [f EXCEPT !.visitKey = key, !.todo = u, !.bindings = v]
  BY Zenon DEF Done
<1> HIDE DEF u, v
<1>5. /\ d \in Frames /\ d.node = f.node /\ d.key = f.key /\ d.visitKey = key
      /\ d.todo = u /\ d.bindings = v
  BY <1>1, <1>2, <1>3, <1>4 DEF Frames
<1> HIDE DEF d
<1>6. FrameFits(t, d)
  <2>1. /\ f.node \in DOMAIN t
        /\ Len(f.bindings) + Len(f.todo) = Len(entries)
        /\ \A i \in 1..Len(f.bindings) : f.bindings[i].node = entries[i]
        /\ \A i \in 1..Len(f.todo) : f.todo[i] = entries[Len(f.bindings) + i]
    BY DEF FrameFits
  <2> HIDE DEF entries
  <2> DEFINE b == Len(f.bindings)
             r == Len(f.todo)
  <2>6. b \in Nat /\ r \in Nat /\ r > 0 /\ Len(v) = b + 1 /\ Len(u) = r - 1
    BY <1>2, <1>3
  <2>7. /\ b + r = Len(entries) /\ \A i \in 1..b : f.bindings[i].node = entries[i]
        /\ \A i \in 1..r : f.todo[i] = entries[b + i]
    BY <2>1
  <2> HIDE DEF b, r
  <2>2. Len(v) + Len(u) = Len(entries)
    <3>1. Len(v) + Len(u) = (b + 1) + (r - 1)
      BY <2>6
    <3>2. (b + 1) + (r - 1) = b + r
      BY <2>6
    <3> QED
      BY <2>7, <3>1, <3>2
  <2>3. x.node = entries[b + 1]
    BY <2>6, <2>7
  <2>4. ASSUME NEW i \in 1..Len(v)
        PROVE  v[i].node = entries[i]
    <3>1. CASE i \in 1..b
      BY <1>3, <2>7, <3>1 DEF b
    <3>2. CASE i = b + 1
      BY <1>3, <2>3, <3>2 DEF b
    <3> QED
      BY <2>6, <3>1, <3>2
  <2>5. ASSUME NEW i \in 1..Len(u)
        PROVE  u[i] = entries[Len(v) + i]
    <3>1. u[i] = f.todo[i + 1]
      BY <1>2
    <3>3. i + 1 \in 1..r
      BY <2>6
    <3>2. b + (i + 1) = Len(v) + i
      BY <2>6
    <3> QED
      BY <2>7, <3>1, <3>2, <3>3
  <2> QED
    BY <1>5, <2>1, <2>2, <2>4, <2>5 DEF FrameFits, entries
<1>7. ASSUME NEW k \in 1..Len(v)
      PROVE  v[k] = x \/ (k \in 1..Len(f.bindings) /\ v[k] = f.bindings[k])
  BY <1>3
<1>8. Len(d.bindings) = Len(f.bindings) + 1
      /\ \A k \in 1..Len(d.bindings) :
           d.bindings[k] = x \/ (k \in 1..Len(f.bindings) /\ d.bindings[k] = f.bindings[k])
  BY <1>3, <1>5, <1>7
<1> QED
  BY <1>5, <1>6, <1>8 DEF d

\* The innermost directory goes on.
LEMMA TopChanges ==
  ASSUME NEW t, NEW s \in Seq(Frames), StackFits(t, s), s # <<>>,
         NEW f \in Frames, FrameFits(t, f), f.node = s[Len(s)].node,
         f.key = s[Len(s)].key, f.visitKey >= s[Len(s)].visitKey,
         NEW s2 \in Seq(Frames), Len(s2) = Len(s), s2[Len(s)] = f,
         \A i \in 1..(Len(s) - 1) : s2[i] = s[i]
  PROVE  StackFits(t, s2)
<1> DEFINE n  == Len(s)
<1>1. n \in Nat /\ n > 0 /\ s2 \in Seq(Frames) /\ Len(s2) = n /\ s2[n] = f
      /\ \A i \in 1..(n - 1) : s2[i] = s[i]
  OBVIOUS
<1>2. ASSUME NEW i \in 1..n
      PROVE  s[i].key \in Nat /\ s[i].visitKey \in Nat
  <2>1. s[i] \in Frames
    OBVIOUS
  <2> QED
    BY <2>1 DEF Frames
<1>3. f.key \in Nat /\ f.visitKey \in Nat
  BY DEF Frames
<1>4. \A i \in 1..n : s2[i].key = s[i].key /\ s2[i].node = s[i].node
                      /\ s2[i].visitKey >= s[i].visitKey /\ s2[i].visitKey \in Nat
  <2> SUFFICES ASSUME NEW i \in 1..n
               PROVE  s2[i].key = s[i].key /\ s2[i].node = s[i].node
                      /\ s2[i].visitKey >= s[i].visitKey /\ s2[i].visitKey \in Nat
    OBVIOUS
  <2>1. CASE i = n
    BY <1>1, <1>3, <2>1
  <2>2. CASE i \in 1..(n - 1)
    BY <1>1, <1>2, <2>2
  <2> QED
    BY <1>1, <2>1, <2>2
<1>5. s2 # <<>> => s2[1].node = Root
  BY <1>1, <1>4 DEF StackFits
<1>6. ASSUME NEW i \in 1..n
      PROVE  FrameFits(t, s2[i]) /\ s2[i].key <= s2[i].visitKey
  <2>1. s[i].key <= s[i].visitKey /\ FrameFits(t, s[i])
    BY DEF StackFits
  <2>2. FrameFits(t, s2[i])
    BY <1>1, <2>1
  <2> QED
    BY <1>2, <1>4, <2>1, <2>2
<1>7. ASSUME NEW i \in 1..(n - 1)
      PROVE  s2[i].todo # <<>> /\ s2[i].todo[1] = s2[i + 1].node
  BY <1>1, <1>4 DEF StackFits
<1>8. ASSUME NEW i \in 1..n, NEW j \in 1..n, i < j
      PROVE  s2[i].key < s2[j].key /\ s2[i].visitKey <= s2[j].visitKey
  <2>1. s[i].key < s[j].key /\ s[i].visitKey <= s[j].visitKey
    BY <1>8 DEF StackFits
  <2>2. i \in 1..(n - 1) /\ s2[i].visitKey = s[i].visitKey
    BY <1>1, <1>8
  <2> QED
    BY <1>2, <1>4, <2>1, <2>2
<1>9. StackFits(t, s2)
  BY <1>1, <1>5, <1>6, <1>7, <1>8 DEF StackFits
<1> QED
  BY <1>9

\* A directory inside the innermost one.
LEMMA Pushed ==
  ASSUME NEW t, NEW s \in Seq(Frames), StackFits(t, s), s # <<>>,
         s[Len(s)].todo # <<>>,
         NEW f \in Frames, FrameFits(t, f), f.node = s[Len(s)].todo[1],
         f.key > s[Len(s)].key, f.key = f.visitKey, f.visitKey >= s[Len(s)].visitKey
  PROVE  Append(s, f) \in Seq(Frames) /\ StackFits(t, Append(s, f))
<1> DEFINE n  == Len(s)
           s2 == Append(s, f)
<1>1. n \in Nat /\ n > 0 /\ s2 \in Seq(Frames) /\ Len(s2) = n + 1 /\ s2[n + 1] = f
      /\ \A i \in 1..n : s2[i] = s[i]
  OBVIOUS
<1>2. ASSUME NEW i \in 1..n
      PROVE  s[i].key \in Nat /\ s[i].visitKey \in Nat
  <2>1. s[i] \in Frames
    OBVIOUS
  <2> QED
    BY <2>1 DEF Frames
<1>3. f.key \in Nat /\ f.visitKey \in Nat
  BY DEF Frames
<1> HIDE DEF s2
<1>4. s2 # <<>> => s2[1].node = Root
  BY <1>1 DEF StackFits
<1>5. ASSUME NEW i \in 1..(n + 1)
      PROVE  FrameFits(t, s2[i]) /\ s2[i].key <= s2[i].visitKey
  <2>1. CASE i \in 1..n
    BY <1>1, <2>1 DEF StackFits
  <2>2. CASE i = n + 1
    BY <1>1, <1>3, <2>2
  <2> QED
    BY <1>1, <2>1, <2>2
<1>6. ASSUME NEW i \in 1..n
      PROVE  s2[i].todo # <<>> /\ s2[i].todo[1] = s2[i + 1].node
  <2>1. CASE i \in 1..(n - 1)
    <3>1. s2[i] = s[i] /\ s2[i + 1] = s[i + 1]
      BY <1>1, <2>1
    <3> QED
      BY <2>1, <3>1 DEF StackFits
  <2>2. CASE i = n
    BY <1>1, <2>2
  <2> QED
    BY <1>1, <2>1, <2>2
<1>7. ASSUME NEW i \in 1..(n + 1), NEW j \in 1..(n + 1), i < j
      PROVE  s2[i].key < s2[j].key /\ s2[i].visitKey <= s2[j].visitKey
  <2>1. i \in 1..n /\ s2[i] = s[i]
    BY <1>1, <1>7
  <2>2. CASE j \in 1..n
    BY <1>1, <1>7, <2>1, <2>2 DEF StackFits
  <2>3. CASE j = n + 1
    <3>1. s[i].key <= s[n].key /\ s[i].visitKey <= s[n].visitKey
      <4>1. CASE i = n
        BY <1>2, <2>1, <4>1
      <4>2. CASE i < n
        <5>1. n \in 1..n
          BY <1>1
        <5>2. s[i].key < s[n].key /\ s[i].visitKey <= s[n].visitKey
          BY <2>1, <4>2, <5>1 DEF StackFits
        <5> QED
          BY <1>2, <2>1, <5>1, <5>2
      <4> QED
        BY <1>1, <2>1, <4>1, <4>2
    <3>2. s2[j] = f /\ n \in 1..n
      BY <1>1, <2>3
    <3> QED
      BY <1>2, <1>3, <2>1, <3>1, <3>2
  <2> QED
    BY <1>1, <2>2, <2>3
<1>8. Len(s2) - 1 = n
  BY <1>1
<1>9. StackFits(t, s2)
  BY <1>1, <1>4, <1>5, <1>6, <1>7, <1>8 DEF StackFits
<1> QED
  BY <1>1, <1>9 DEF s2

\* The directories around the innermost one.
LEMMA Popped ==
  ASSUME NEW t, NEW s \in Seq(Frames), StackFits(t, s), s # <<>>
  PROVE  /\ Front(s) \in Seq(Frames) /\ StackFits(t, Front(s))
         /\ Len(Front(s)) = Len(s) - 1
         /\ \A i \in 1..(Len(s) - 1) : Front(s)[i] = s[i]
<1> DEFINE n  == Len(s)
           s2 == SubSeq(s, 1, n - 1)
<1>1. n \in Nat /\ n > 0
  OBVIOUS
<1>2. Front(s) = s2
  BY DEF Front
<1>3. /\ s2 \in Seq(Frames) /\ Len(s2) = n - 1
      /\ \A i \in 1..(n - 1) : s2[i] = s[i]
  <2> DEFINE m == n - 1
  <2>1. m \in Int /\ 1 \in Int /\ m - 1 + 1 = m /\ m >= 0
    BY <1>1
  <2>2. \A i \in 1..m : s[i] \in Frames /\ 1 + i - 1 = i
    BY <1>1
  <2> HIDE DEF m
  <2>3. /\ SubSeq(s, 1, m) \in Seq(Frames)
        /\ Len(SubSeq(s, 1, m)) = IF 1 <= m THEN m - 1 + 1 ELSE 0
        /\ \A i \in 1..(m - 1 + 1) : SubSeq(s, 1, m)[i] = s[1 + i - 1]
    BY <2>1, <2>2, SubSeqProperties
  <2>4. Len(SubSeq(s, 1, m)) = m /\ \A i \in 1..m : SubSeq(s, 1, m)[i] = s[i]
    BY <2>1, <2>2, <2>3
  <2> QED
    BY <2>3, <2>4 DEF m
<1> HIDE DEF s2
<1>4. s2 # <<>> => s2[1].node = Root
  BY <1>1, <1>3 DEF StackFits
<1>5. \A i \in 1..(n - 1) : FrameFits(t, s2[i]) /\ s2[i].key <= s2[i].visitKey
  BY <1>1, <1>3 DEF StackFits
<1>6. ASSUME NEW i \in 1..(n - 2)
      PROVE  s2[i].todo # <<>> /\ s2[i].todo[1] = s2[i + 1].node
  <2>1. s2[i] = s[i] /\ s2[i + 1] = s[i + 1] /\ i \in 1..(n - 1)
    BY <1>1, <1>3
  <2> QED
    BY <2>1 DEF StackFits
<1>7. \A i, j \in 1..(n - 1) : i < j => /\ s2[i].key < s2[j].key
                                        /\ s2[i].visitKey <= s2[j].visitKey
  BY <1>1, <1>3 DEF StackFits
<1>8. Len(s2) - 1 = n - 2
  BY <1>1, <1>3
<1>9. StackFits(t, s2)
  BY <1>3, <1>4, <1>5, <1>6, <1>7, <1>8 DEF StackFits
<1> QED
  BY <1>2, <1>3, <1>9

\* The next entry is a node of the tree.
LEMMA NextEntry ==
  ASSUME NEW t \in Trees, NEW f \in Frames, FrameFits(t, f), f.todo # <<>>
  PROVE  Head(f.todo) = f.todo[1] /\ f.todo[1] \in DOMAIN t
<1> DEFINE entries == EntriesIn(t, f.node)
           b == Len(f.bindings)
           r == Len(f.todo)
<1>1. f.todo \in Seq(Nat) /\ f.bindings \in Seq(Bindings)
  BY DEF Frames
<1>2. Head(f.todo) = f.todo[1] /\ r \in Nat /\ r > 0 /\ b \in Nat
  BY <1>1
<1>3. /\ f.node \in DOMAIN t /\ b + r = Len(entries)
      /\ \A i \in 1..r : f.todo[i] = entries[b + i]
  BY DEF FrameFits
<1>4. entries \in Seq(DOMAIN t)
  BY <1>3, TreeFacts
<1> HIDE DEF entries, b, r
<1>5. 1 \in 1..r /\ b + 1 \in 1..(b + r)
  BY <1>2
<1> QED
  BY <1>2, <1>3, <1>4, <1>5

LEMMA MessagesMore ==
  ASSUME NEW ms, NEW ms2, NEW message, NEW id, Puts(ms, ms2, message, id)
  PROVE  \A m : m \in MessagesOf(ms2) <=> m \in MessagesOf(ms) \/ m = message
BY DEF Puts, MessagesOf

\* What was bound stays, and the object that is shipped is found under its binding.
LEMMA ReachesMore ==
  ASSUME NEW ms, NEW ms2, NEW message, NEW id, Puts(ms, ms2, message, id), NEW x,
         \/ Reaches(ms, x)
         \/ x.module = id /\ x.key = message.key /\ x.node = message.node
  PROVE  Reaches(ms2, x)
<1>1. CASE Reaches(ms, x)
  <2>1. PICK i \in DOMAIN ms : /\ ms[i].id = x.module
                               /\ \E m \in ToSet(ms[i].messages) :
                                    m.key = x.key /\ m.node = x.node
    BY <1>1 DEF Reaches
  <2>2. /\ i \in DOMAIN ms2 /\ ms2[i].id = ms[i].id
        /\ ToSet(ms[i].messages) \subseteq ToSet(ms2[i].messages)
    BY DEF Puts
  <2> QED
    BY <2>1, <2>2 DEF Reaches
<1>2. CASE x.module = id /\ x.key = message.key /\ x.node = message.node
  BY <1>2 DEF Reaches, Puts
<1> QED
  BY <1>1, <1>2

\* A message whose own bindings lead to objects spoils none of the others.
LEMMA BindingsShipped ==
  ASSUME NEW t, NEW s, NEW ms, NEW ms2, NEW srg, BindingsFit(t, s, ms, srg),
         NEW message, NEW id, Puts(ms, ms2, message, id), message.node \in DOMAIN t,
         Len(message.bindings) = Len(EntriesIn(t, message.node)),
         \A k \in 1..Len(message.bindings) :
           /\ message.bindings[k].node = EntriesIn(t, message.node)[k]
           /\ Reaches(ms, message.bindings[k])
  PROVE  BindingsFit(t, s, ms2, srg)
<1>1. \A x : Reaches(ms, x) => Reaches(ms2, x)
  BY ReachesMore
<1>2. \A i \in 1..Len(s) : \A k \in 1..Len(s[i].bindings) : Reaches(ms2, s[i].bindings[k])
  BY <1>1 DEF BindingsFit
<1>3. ASSUME NEW m \in MessagesOf(ms2)
      PROVE  /\ m.node \in DOMAIN t /\ Len(m.bindings) = Len(EntriesIn(t, m.node))
             /\ \A k \in 1..Len(m.bindings) : /\ m.bindings[k].node = EntriesIn(t, m.node)[k]
                                              /\ Reaches(ms2, m.bindings[k])
  <2>1. CASE m = message
    BY <1>1, <2>1
  <2>2. CASE m \in MessagesOf(ms)
    BY <1>1, <2>2 DEF BindingsFit
  <2> QED
    BY <2>1, <2>2, MessagesMore
<1>4. srg # None => srg.node = Root /\ Reaches(ms2, srg)
  BY <1>1 DEF BindingsFit
<1> QED
  BY <1>2, <1>3, <1>4 DEF BindingsFit

\* A node is shipped.
LEMMA ShipFacts ==
  ASSUME tree \in Trees, BInv(builder), NEW n \in DOMAIN tree, NEW key \in Nat,
         NEW bindings \in Seq(Bindings), Ship(n, key, bindings)
  PROVE  /\ BInv(builder')
         /\ Binding(n, key, bindings) \in Bindings
         /\ Binding(n, key, bindings).node = n /\ Binding(n, key, bindings).key = key
         /\ Puts(builder.modules, builder'.modules, Message(n, key, bindings),
                 Binding(n, key, bindings).module)
         /\ Message(n, key, bindings).node = n /\ Message(n, key, bindings).key = key
         /\ Message(n, key, bindings).bindings = bindings
<1> DEFINE message == Message(n, key, bindings)
           id == BoundModule(builder, tree[n].wish, message)
<1>1. /\ n \in Nat /\ tree[n].kind \in Kinds /\ tree[n].size \in Nat \ {0}
      /\ tree[n].wish \in Wishes
  BY TreeFacts
<1>2. message \in MessageSet /\ message.node = n /\ message.key = key
      /\ message.bindings = bindings
  <2>1. tree[n].size + Len(bindings) \in Nat \ {0}
    BY <1>1
  <2> QED
    BY <1>1, <2>1 DEF Message, MessageSet
<1> HIDE DEF message
<1>3. /\ BInv(builder') /\ Puts(builder.modules, builder'.modules, message, id)
  BY <1>1, <1>2, AddedTakes DEF Ship, message
<1>4. id \in Nat
  <2>1. PICK i \in DOMAIN builder'.modules : builder'.modules[i].id = id
    BY <1>3 DEF Puts
  <2>2. builder'.modules \in Seq(ModuleSet)
    BY <1>3 DEF BInv, BuilderSet
  <2>3. builder'.modules[i] \in ModuleSet
    BY <2>1, <2>2
  <2> QED
    BY <2>1, <2>3 DEF ModuleSet
<1> HIDE DEF id
<1>5. /\ Binding(n, key, bindings) \in Bindings
      /\ Binding(n, key, bindings).node = n /\ Binding(n, key, bindings).key = key
      /\ Binding(n, key, bindings).module = id
  BY <1>1, <1>4 DEF Binding, Bindings, id, message
<1> QED
  BY <1>2, <1>3, <1>5 DEF message

\* Keys are numbers, and bindings are bindings.
LEMMA MessageKeys ==
  ASSUME NEW b, BInv(b), NEW m \in MessagesOf(b.modules)
  PROVE  m.key \in Nat /\ m.bindings \in Seq(Bindings)
<1>1. PICK i \in DOMAIN b.modules : m \in ToSet(b.modules[i].messages)
  BY DEF MessagesOf
<1>2. b.modules \in Seq(ModuleSet)
  BY DEF BInv, BuilderSet
<1>3. b.modules[i].messages \in Seq(MessageSet)
  <2>1. b.modules[i] \in ModuleSet
    BY <1>1, <1>2
  <2> QED
    BY <2>1 DEF ModuleSet
<1>4. m \in MessageSet
  BY <1>1, <1>3 DEF ToSet
<1> QED
  BY <1>4 DEF MessageSet

\* The innermost directory.
LEMMA TopFacts ==
  ASSUME VInv, stack # <<>>
  PROVE  /\ Len(stack) \in Nat \ {0} /\ Top = stack[Len(stack)]
         /\ Top \in Frames /\ FrameFits(tree, Top)
         /\ Top.key \in Nat /\ Top.visitKey \in Nat /\ Top.key <= Top.visitKey
         /\ Top.node \in DOMAIN tree /\ Top.bindings \in Seq(Bindings)
         /\ Top.todo \in Seq(Nat)
         /\ \A i \in 1..Len(stack) : /\ stack[i] \in Frames
                                     /\ stack[i].key \in Nat /\ stack[i].visitKey \in Nat
                                     /\ stack[i].key <= Top.key
                                     /\ i # Len(stack) => stack[i].key < Top.key
                                     /\ stack[i].visitKey <= Top.visitKey
<1>1. stack \in Seq(Frames) /\ StackFits(tree, stack)
  BY DEF VInv
<1>2. Len(stack) \in Nat \ {0} /\ Top = stack[Len(stack)] /\ Top \in Frames
      /\ Len(stack) \in 1..Len(stack)
  BY <1>1 DEF Top, Last
<1>3. /\ Top.key \in Nat /\ Top.visitKey \in Nat /\ Top.bindings \in Seq(Bindings)
      /\ Top.todo \in Seq(Nat)
  BY <1>2 DEF Frames
<1>4. FrameFits(tree, Top) /\ Top.key <= Top.visitKey
  BY <1>1, <1>2 DEF StackFits
<1>5. Top.node \in DOMAIN tree
  BY <1>4 DEF FrameFits
<1>6. ASSUME NEW i \in 1..Len(stack)
      PROVE  /\ stack[i] \in Frames /\ stack[i].key \in Nat /\ stack[i].visitKey \in Nat
             /\ stack[i].key <= Top.key /\ (i # Len(stack) => stack[i].key < Top.key)
             /\ stack[i].visitKey <= Top.visitKey
  <2>1. stack[i] \in Frames
    BY <1>1
  <2>2. stack[i].key \in Nat /\ stack[i].visitKey \in Nat
    BY <2>1 DEF Frames
  <2>3. CASE i = Len(stack)
    BY <1>2, <1>3, <2>1, <2>2, <2>3
  <2>4. CASE i < Len(stack)
    <3>1. stack[i].key < Top.key /\ stack[i].visitKey <= Top.visitKey
      BY <1>1, <1>2, <2>4 DEF StackFits
    <3> QED
      BY <1>3, <2>1, <2>2, <3>1
  <2> QED
    BY <1>2, <2>3, <2>4
<1> QED
  BY <1>2, <1>3, <1>4, <1>5, <1>6

LEMMA VInvInit == Init => VInv
<1> SUFFICES ASSUME Init PROVE VInv
  OBVIOUS
<1> DEFINE f == Frame(Root, 0)
           entries == EntriesIn(tree, Root)
<1>1. tree \in Trees /\ stack = <<f>> /\ builder = NewBuilder /\ srgIOR = None
  BY DEF Init
<1>2. Root \in DOMAIN tree /\ Root \in Nat /\ entries \in Seq(DOMAIN tree)
      /\ entries \in Seq(Nat)
  <2>1. Root \in DOMAIN tree /\ entries \in Seq(DOMAIN tree) /\ DOMAIN tree \subseteq Nat
    BY <1>1, TreeFacts
  <2> HIDE DEF entries
  <2> QED
    BY <2>1 DEF Root
<1>3. /\ f \in Frames /\ f.node = Root /\ f.key = 0 /\ f.visitKey = 0
      /\ f.todo = entries /\ f.bindings = <<>>
  <2> DEFINE g == [node |-> Root, key |-> 0, visitKey |-> 0, todo |-> entries,
                   bindings |-> <<>>]
  <2>1. f = g
    BY DEF Frame, Entries
  <2> HIDE DEF entries
  <2>2. /\ g \in Frames /\ g.node = Root /\ g.key = 0 /\ g.visitKey = 0
        /\ g.todo = entries /\ g.bindings = <<>>
    BY <1>2 DEF Frames
  <2> QED
    BY <2>1, <2>2
<1>4. FrameFits(tree, f)
  <2> HIDE DEF f
  <2> QED
    BY <1>2, <1>3 DEF FrameFits
<1> HIDE DEF f
<1>5. stack \in Seq(Frames) /\ Len(stack) = 1 /\ stack[1] = f
  BY <1>1, <1>3
<1>6. StackFits(tree, stack)
  BY <1>3, <1>4, <1>5 DEF StackFits
<1>7. /\ builder \in BuilderSet /\ builder.modules = <<>> /\ builder.byWish = <<>>
      /\ builder.byType = [k \in Kinds |-> 0]
  <2>1. <<>> \in WishTables
    <3>1. <<>> \in [{} -> Nat] /\ {} \in SUBSET Wishes
      OBVIOUS
    <3> QED
      BY <3>1 DEF WishTables
  <2> HIDE DEF WishTables
  <2> QED
    BY <1>1, <2>1 DEF NewBuilder, BuilderSet
<1>8. IsFiniteSet(DOMAIN builder.byWish) /\ DOMAIN builder.byWish = {}
      /\ DOMAIN builder.modules = {}
  BY <1>7, FS_EmptySet
<1>9. BInv(builder)
  BY <1>7, <1>8 DEF BInv, SizesFit
<1>10. MessagesOf(builder.modules) = {}
  BY <1>8 DEF MessagesOf
<1>11. KeysFit(stack, builder.modules)
  BY <1>10 DEF KeysFit
<1>12. BindingsFit(tree, stack, builder.modules, srgIOR)
  BY <1>1, <1>3, <1>5, <1>10 DEF BindingsFit
<1>13. srgIOR \in Bindings
  BY <1>1 DEF None, Bindings
<1> QED
  BY <1>1, <1>5, <1>6, <1>9, <1>11, <1>12, <1>13 DEF VInv

\* A file or stream event is shipped.
LEMMA VInvVisitLeaf == VInv /\ VisitLeaf => VInv'
<1> SUFFICES ASSUME VInv, VisitLeaf PROVE VInv'
  OBVIOUS
<1> DEFINE n    == Len(stack)
           node == Head(Top.todo)
           key  == Top.visitKey + 1
           x    == Binding(node, key, <<>>)
           f    == Done(Top, key, x)
           ms   == builder.modules
           message == Message(node, key, <<>>)
<1>1. /\ stack # <<>> /\ Top.todo # <<>> /\ tree[node].kind # "dir" /\ Ship(node, key, <<>>)
      /\ stack' = [stack EXCEPT ![n] = f] /\ tree' = tree /\ srgIOR' = srgIOR
  BY DEF VisitLeaf, Top, Last
<1>2. /\ tree \in Trees /\ stack \in Seq(Frames) /\ BInv(builder) /\ srgIOR \in Bindings
      /\ StackFits(tree, stack) /\ KeysFit(stack, ms)
      /\ BindingsFit(tree, stack, ms, srgIOR)
  BY DEF VInv
<1>3. /\ n \in Nat \ {0} /\ Top = stack[n] /\ Top \in Frames /\ FrameFits(tree, Top)
      /\ Top.key \in Nat /\ Top.visitKey \in Nat /\ Top.key <= Top.visitKey
      /\ \A i \in 1..n : stack[i].key \in Nat /\ stack[i].key <= Top.key
  BY <1>1, TopFacts
<1>4. node = Top.todo[1] /\ node \in DOMAIN tree
  BY <1>1, <1>2, <1>3, NextEntry
<1>5. key \in Nat /\ key > Top.visitKey /\ <<>> \in Seq(Bindings) /\ Len(<<>>) = 0
      /\ EntriesIn(tree, node) = <<>>
  BY <1>1, <1>2, <1>3, <1>4, TreeFacts
<1> HIDE DEF node, key
<1>6. /\ BInv(builder') /\ x \in Bindings /\ x.node = node /\ x.key = key
      /\ Puts(ms, builder'.modules, message, x.module)
      /\ message.node = node /\ message.key = key /\ message.bindings = <<>>
  BY <1>1, <1>2, <1>4, <1>5, ShipFacts DEF Ship, Binding, Message
<1> HIDE DEF x, message
<1>7. /\ f \in Frames /\ FrameFits(tree, f) /\ f.node = Top.node /\ f.key = Top.key
      /\ f.visitKey = key /\ Len(f.bindings) = Len(Top.bindings) + 1
      /\ \A k \in 1..Len(f.bindings) :
           \/ f.bindings[k] = x
           \/ k \in 1..Len(Top.bindings) /\ f.bindings[k] = Top.bindings[k]
  BY <1>1, <1>3, <1>4, <1>5, <1>6, EntryDone
<1> HIDE DEF f
<1>8. /\ stack' \in Seq(Frames) /\ Len(stack') = n /\ StackFits(tree, stack')
      /\ stack'[n] = f /\ \A i \in 1..(n - 1) : stack'[i] = stack[i]
  <2>1. /\ f.node = stack[n].node /\ f.key = stack[n].key
        /\ f.visitKey >= stack[n].visitKey
    BY <1>3, <1>5, <1>7
  <2>2. /\ stack' \in Seq(Frames) /\ Len(stack') = n
        /\ stack'[n] = f /\ \A i \in 1..(n - 1) : stack'[i] = stack[i]
    BY <1>1, <1>2, <1>3, <1>7
  <2> QED
    BY <1>1, <1>2, <1>7, <2>1, <2>2, TopChanges
<1>9. \A i \in 1..n : stack'[i].key = stack[i].key
  BY <1>3, <1>7, <1>8
<1>10. \A m \in MessagesOf(ms) : m.key <= Top.visitKey
  BY <1>2, <1>3 DEF KeysFit
<1>11. \A m : m \in MessagesOf(builder'.modules) <=> m \in MessagesOf(ms) \/ m = message
  BY <1>6, MessagesMore
<1>15. \A m \in MessagesOf(ms) : m.key \in Nat
  BY <1>2, MessageKeys
<1>12. KeysFit(stack', builder'.modules)
  <2>1. \A m \in MessagesOf(ms) : m.key # key /\ m.key <= key
    BY <1>3, <1>5, <1>10, <1>15
  <2>2. \A m, p \in MessagesOf(builder'.modules) : m.key = p.key => m = p
    BY <1>2, <1>6, <1>11, <2>1 DEF KeysFit
  <2>3. \A i \in 1..n : stack[i].key # key
    BY <1>3, <1>5
  <2>4. \A m \in MessagesOf(builder'.modules), i \in 1..n :
          m.key # stack'[i].key /\ m.key <= stack'[n].visitKey
    BY <1>2, <1>5, <1>6, <1>7, <1>8, <1>9, <1>11, <2>1, <2>3 DEF KeysFit
  <2> QED
    BY <1>8, <2>2, <2>4 DEF KeysFit
<1>13. BindingsFit(tree, stack, builder'.modules, srgIOR)
  BY <1>2, <1>4, <1>5, <1>6, BindingsShipped
<1>14. BindingsFit(tree, stack', builder'.modules, srgIOR)
  <2>1. Reaches(builder'.modules, x)
    BY <1>6, ReachesMore
  <2>2. ASSUME NEW i \in 1..n, NEW k \in 1..Len(stack'[i].bindings)
        PROVE  Reaches(builder'.modules, stack'[i].bindings[k])
    <3>1. CASE i \in 1..(n - 1)
      BY <1>8, <1>13, <3>1 DEF BindingsFit
    <3>2. CASE i = n
      BY <1>3, <1>7, <1>8, <1>13, <2>1, <3>2 DEF BindingsFit
    <3> QED
      BY <1>3, <3>1, <3>2
  <2> QED
    BY <1>8, <1>13, <2>2 DEF BindingsFit
<1> QED
  BY <1>1, <1>2, <1>6, <1>8, <1>12, <1>14 DEF VInv

\* A directory is entered.
LEMMA VInvEnterDir == VInv /\ EnterDir => VInv'
<1> SUFFICES ASSUME VInv, EnterDir PROVE VInv'
  OBVIOUS
<1> DEFINE n    == Len(stack)
           node == Head(Top.todo)
           key  == Top.visitKey + 1
           g    == [Top EXCEPT !.visitKey = key]
           s    == [stack EXCEPT ![n] = g]
           f    == Frame(node, key)
           ms   == builder.modules
           entries == EntriesIn(tree, node)
<1>1. /\ stack # <<>> /\ Top.todo # <<>> /\ tree[node].kind = "dir"
      /\ tree' = tree /\ builder' = builder /\ srgIOR' = srgIOR
  BY DEF EnterDir
<1>2. stack' = Append(s, f)
  <2>1. stack' = Append([stack EXCEPT ![n].visitKey = key], f)
    BY DEF EnterDir
  <2> QED
    BY <2>1 DEF Top, Last
<1>3. /\ tree \in Trees /\ stack \in Seq(Frames) /\ BInv(builder) /\ srgIOR \in Bindings
      /\ StackFits(tree, stack) /\ KeysFit(stack, ms)
      /\ BindingsFit(tree, stack, ms, srgIOR)
  BY DEF VInv
<1>4. /\ n \in Nat \ {0} /\ Top = stack[n] /\ Top \in Frames /\ FrameFits(tree, Top)
      /\ Top.key \in Nat /\ Top.visitKey \in Nat /\ Top.key <= Top.visitKey
      /\ Top.node \in DOMAIN tree
      /\ \A i \in 1..n : stack[i].key \in Nat /\ stack[i].key <= Top.key
  BY <1>1, TopFacts
<1>5. node = Top.todo[1] /\ node \in DOMAIN tree
  BY <1>1, <1>3, <1>4, NextEntry
<1> HIDE DEF node
<1>6. /\ entries \in Seq(DOMAIN tree) /\ entries \in Seq(Nat) /\ node \in Nat
  <2>1. entries \in Seq(DOMAIN tree) /\ DOMAIN tree \subseteq Nat
    BY <1>3, <1>5, TreeFacts
  <2> HIDE DEF entries
  <2> QED
    BY <1>5, <2>1
<1>7. key \in Nat /\ key > Top.visitKey
  BY <1>4
<1> HIDE DEF key
<1>8. /\ g \in Frames /\ g.node = Top.node /\ g.key = Top.key /\ g.visitKey = key
      /\ g.todo = Top.todo /\ g.bindings = Top.bindings
  BY <1>4, <1>7 DEF Frames
<1>9. /\ f \in Frames /\ f.node = node /\ f.key = key /\ f.visitKey = key
      /\ f.todo = entries /\ f.bindings = <<>>
  <2> DEFINE h == [node |-> node, key |-> key, visitKey |-> key, todo |-> entries,
                   bindings |-> <<>>]
  <2>1. f = h
    BY DEF Frame, Entries
  <2> HIDE DEF entries, f
  <2>2. /\ h \in Frames /\ h.node = node /\ h.key = key /\ h.visitKey = key
        /\ h.todo = entries /\ h.bindings = <<>>
    BY <1>6, <1>7 DEF Frames
  <2> QED
    BY <2>1, <2>2
<1> HIDE DEF f, g
<1>10. FrameFits(tree, f)
  <2> HIDE DEF entries
  <2>1. Len(f.bindings) = 0 /\ Len(f.todo) = Len(entries)
        /\ f.todo = entries /\ Len(entries) \in Nat
    BY <1>6, <1>9
  <2>2. \A i \in 1..Len(f.todo) : f.todo[i] = entries[Len(f.bindings) + i]
    BY <2>1
  <2> QED
    BY <1>5, <1>9, <2>1, <2>2 DEF FrameFits, entries
<1>11. FrameFits(tree, g)
  BY <1>4, <1>8 DEF FrameFits
<1>12. /\ s \in Seq(Frames) /\ Len(s) = n /\ s[n] = g
       /\ \A i \in 1..(n - 1) : s[i] = stack[i]
  BY <1>3, <1>4, <1>8
<1> HIDE DEF s
<1>13. StackFits(tree, s)
  <2>1. g.node = stack[n].node /\ g.key = stack[n].key /\ g.visitKey >= stack[n].visitKey
    BY <1>4, <1>7, <1>8
  <2> QED
    BY <1>1, <1>3, <1>8, <1>11, <1>12, <2>1, TopChanges
<1>14. stack' \in Seq(Frames) /\ StackFits(tree, stack')
  <2>1. /\ s # <<>> /\ s[Len(s)].todo # <<>> /\ f.node = s[Len(s)].todo[1]
        /\ f.key > s[Len(s)].key /\ f.visitKey >= s[Len(s)].visitKey
    BY <1>1, <1>4, <1>5, <1>7, <1>8, <1>9, <1>12
  <2> QED
    BY <1>2, <1>9, <1>10, <1>12, <1>13, <2>1, Pushed
<1>15. /\ Len(stack') = n + 1 /\ stack'[n + 1] = f /\ stack'[n] = g
       /\ \A i \in 1..(n - 1) : stack'[i] = stack[i]
  BY <1>2, <1>4, <1>9, <1>12
<1>16. \A i \in 1..n : stack'[i].key = stack[i].key /\ stack'[i].bindings = stack[i].bindings
  BY <1>4, <1>8, <1>15
<1>17. KeysFit(stack', ms)
  <2>1. \A m \in MessagesOf(ms) : m.key \in Nat
    BY <1>3, MessageKeys
  <2>2. \A m \in MessagesOf(ms) : m.key <= Top.visitKey
    BY <1>4 , <1>3 DEF KeysFit
  <2>3. \A m \in MessagesOf(ms) : m.key < key
    BY <1>4, <1>7, <2>1, <2>2
  <2>4. ASSUME NEW m \in MessagesOf(ms), NEW i \in 1..(n + 1)
        PROVE  m.key # stack'[i].key /\ m.key <= stack'[n + 1].visitKey
    <3>1. m.key < key /\ m.key \in Nat
      BY <2>1, <2>3
    <3>2. stack'[n + 1].visitKey = key
      BY <1>9, <1>15
    <3>3. CASE i \in 1..n
      BY <1>3, <1>7, <1>16, <3>1, <3>2, <3>3 DEF KeysFit
    <3>4. CASE i = n + 1
      BY <1>7, <1>9, <1>15, <3>1, <3>4
    <3> QED
      BY <1>4, <3>3, <3>4
  <2> QED
    BY <1>3, <1>15, <2>4 DEF KeysFit
<1>18. BindingsFit(tree, stack', ms, srgIOR)
  <2>1. ASSUME NEW i \in 1..(n + 1), NEW k \in 1..Len(stack'[i].bindings)
        PROVE  Reaches(ms, stack'[i].bindings[k])
    <3>1. CASE i \in 1..n
      BY <1>3, <1>16, <3>1 DEF BindingsFit
    <3>2. CASE i = n + 1
      BY <1>9, <1>15, <3>2
    <3> QED
      BY <1>4, <3>1, <3>2
  <2> QED
    BY <1>3, <1>15, <2>1 DEF BindingsFit
<1> QED
  BY <1>1, <1>3, <1>14, <1>17, <1>18 DEF VInv

\* A directory is shipped, and bound where it is an entry or as the root.
LEMMA VInvLeaveDir == VInv /\ LeaveDir => VInv'
<1> SUFFICES ASSUME VInv, LeaveDir PROVE VInv'
  OBVIOUS
<1> DEFINE n     == Len(stack)
           node  == Top.node
           key   == Top.key
           x     == Binding(node, key, Top.bindings)
           outer == Front(stack)
           ms    == builder.modules
           ms2   == builder'.modules
           message == Message(node, key, Top.bindings)
           entries == EntriesIn(tree, node)
<1>1. /\ stack # <<>> /\ Top.todo = <<>> /\ Ship(node, key, Top.bindings) /\ tree' = tree
      /\ IF outer = <<>>
         THEN stack' = <<>> /\ srgIOR' = x
         ELSE /\ stack' = [outer EXCEPT ![Len(outer)] =
                             Done(outer[Len(outer)], Top.visitKey, x)]
              /\ srgIOR' = srgIOR
  BY DEF LeaveDir, KeyAfterDir
<1>2. /\ tree \in Trees /\ stack \in Seq(Frames) /\ BInv(builder) /\ srgIOR \in Bindings
      /\ StackFits(tree, stack) /\ KeysFit(stack, ms)
      /\ BindingsFit(tree, stack, ms, srgIOR)
  BY DEF VInv
<1>3. /\ n \in Nat \ {0} /\ Top = stack[n] /\ Top \in Frames /\ FrameFits(tree, Top)
      /\ key \in Nat /\ Top.visitKey \in Nat /\ key <= Top.visitKey
      /\ node \in DOMAIN tree /\ Top.bindings \in Seq(Bindings)
      /\ \A i \in 1..n : /\ stack[i] \in Frames
                         /\ stack[i].key \in Nat /\ stack[i].visitKey \in Nat
                         /\ i # n => stack[i].key < key
                         /\ stack[i].visitKey <= Top.visitKey
  BY <1>1, TopFacts
<1>4. /\ BInv(builder') /\ x \in Bindings /\ x.node = node /\ x.key = key
      /\ Puts(ms, ms2, message, x.module)
      /\ message.node = node /\ message.key = key /\ message.bindings = Top.bindings
  BY <1>1, <1>2, <1>3, ShipFacts DEF Ship, Binding, Message
<1> HIDE DEF x, message
<1>5. /\ Len(Top.bindings) = Len(entries)
      /\ \A k \in 1..Len(Top.bindings) : Top.bindings[k].node = entries[k]
  <2>1. Len(Top.bindings) \in Nat /\ Len(Top.todo) = 0
    BY <1>1, <1>3
  <2>2. Len(Top.bindings) + Len(Top.todo) = Len(entries)
        /\ \A k \in 1..Len(Top.bindings) : Top.bindings[k].node = entries[k]
    BY <1>3 DEF FrameFits
  <2> QED
    BY <2>1, <2>2
<1>6. \A k \in 1..Len(Top.bindings) : Reaches(ms, Top.bindings[k])
  BY <1>2, <1>3 DEF BindingsFit
<1>7. BindingsFit(tree, stack, ms2, srgIOR)
  <2>1. /\ message.node \in DOMAIN tree
        /\ Len(message.bindings) = Len(EntriesIn(tree, message.node))
        /\ \A k \in 1..Len(message.bindings) :
             /\ message.bindings[k].node = EntriesIn(tree, message.node)[k]
             /\ Reaches(ms, message.bindings[k])
    BY <1>3, <1>4, <1>5, <1>6
  <2> QED
    BY <1>2, <1>4, <2>1, BindingsShipped
<1>8. Reaches(ms2, x)
  BY <1>4, ReachesMore
<1>9. \A m : m \in MessagesOf(ms2) <=> m \in MessagesOf(ms) \/ m = message
  BY <1>4, MessagesMore
<1>10. \A m \in MessagesOf(ms) : m.key # key /\ m.key <= Top.visitKey
  BY <1>2, <1>3 DEF KeysFit
<1>11. \A m, p \in MessagesOf(ms2) : m.key = p.key => m = p
  BY <1>2, <1>4, <1>9, <1>10 DEF KeysFit
<1>12. /\ outer \in Seq(Frames) /\ StackFits(tree, outer) /\ Len(outer) = n - 1
       /\ \A i \in 1..(n - 1) : outer[i] = stack[i]
  BY <1>1, <1>2, Popped
<1> HIDE DEF outer
<1>13. CASE outer = <<>>
  <2>1. n = 1 /\ node = Root
    <3>1. Len(outer) = 0
      BY <1>13
    <3>2. n = 1
      BY <1>3, <1>12, <3>1
    <3>3. stack[1].node = Root
      BY <1>1, <1>2 DEF StackFits
    <3> QED
      BY <1>3, <3>2, <3>3
  <2>2. stack' = <<>> /\ srgIOR' = x
    BY <1>1, <1>13
  <2>3. stack' \in Seq(Frames) /\ Len(stack') = 0
    BY <2>2
  <2>4. StackFits(tree, stack') /\ KeysFit(stack', ms2)
    BY <1>11, <2>2, <2>3 DEF StackFits, KeysFit
  <2>5. BindingsFit(tree, stack', ms2, srgIOR')
    BY <1>4, <1>7, <1>8, <2>1, <2>2, <2>3 DEF BindingsFit
  <2> QED
    BY <1>1, <1>2, <1>4, <2>2, <2>3, <2>4, <2>5 DEF VInv
<1>14. CASE outer # <<>>
  <2> DEFINE q == n - 1
             o == outer[q]
             f == Done(o, Top.visitKey, x)
  <2>1. q \in Nat \ {0} /\ Len(outer) = q /\ q \in 1..(n - 1) /\ q + 1 = n /\ o = stack[q]
        /\ q \in 1..n /\ q # n
    BY <1>3, <1>12, <1>14
  <2>2. stack' = [outer EXCEPT ![q] = f] /\ srgIOR' = srgIOR
    BY <1>1, <1>14, <2>1
  <2> HIDE DEF q
  <2>3. /\ o \in Frames /\ FrameFits(tree, o) /\ o.todo # <<>> /\ o.todo[1] = node
        /\ o.visitKey <= Top.visitKey
    BY <1>2, <1>3, <2>1 DEF StackFits
  <2> HIDE DEF o
  <2>4. /\ f \in Frames /\ FrameFits(tree, f) /\ f.node = o.node /\ f.key = o.key
        /\ f.visitKey = Top.visitKey /\ Len(f.bindings) = Len(o.bindings) + 1
        /\ \A k \in 1..Len(f.bindings) :
             \/ f.bindings[k] = x
             \/ k \in 1..Len(o.bindings) /\ f.bindings[k] = o.bindings[k]
    BY <1>3, <1>4, <2>3, EntryDone
  <2> HIDE DEF f
  <2>5. /\ stack' \in Seq(Frames) /\ Len(stack') = q /\ stack'[q] = f
        /\ \A i \in 1..(q - 1) : stack'[i] = outer[i]
    BY <1>12, <2>1, <2>2, <2>4
  <2>6. StackFits(tree, stack')
    <3>1. f.node = outer[q].node /\ f.key = outer[q].key /\ f.visitKey >= outer[q].visitKey
      BY <1>3, <2>3, <2>4 DEF o
    <3> QED
      BY <1>12, <1>14, <2>1, <2>4, <2>5, <3>1, TopChanges
  <2>7. ASSUME NEW i \in 1..q
        PROVE  stack'[i].key = stack[i].key /\ i \in 1..n /\ i # n
    <3>1. i \in 1..n /\ i # n /\ i \in 1..(n - 1)
      BY <1>3, <2>1
    <3>2. CASE i = q
      BY <2>1, <2>4, <2>5, <3>1, <3>2
    <3>3. CASE i \in 1..(q - 1)
      BY <1>12, <2>5, <3>1, <3>3
    <3> QED
      BY <2>1, <3>1, <3>2, <3>3
  <2>8. KeysFit(stack', ms2)
    <3>1. ASSUME NEW m \in MessagesOf(ms2), NEW i \in 1..q
          PROVE  m.key # stack'[i].key /\ m.key <= stack'[q].visitKey
      <4>1. stack'[i].key = stack[i].key /\ stack[i].key < key /\ stack[i].key \in Nat
            /\ stack'[q].visitKey = Top.visitKey /\ i \in 1..n
        BY <1>3, <2>4, <2>5, <2>7
      <4>2. CASE m = message
        BY <1>3, <1>4, <4>1, <4>2
      <4>3. CASE m \in MessagesOf(ms)
        BY <1>2, <1>10, <4>1, <4>3 DEF KeysFit
      <4> QED
        BY <1>9, <4>2, <4>3
    <3> QED
      BY <1>11, <2>5, <3>1 DEF KeysFit
  <2>9. BindingsFit(tree, stack', ms2, srgIOR)
    <3>1. ASSUME NEW i \in 1..q, NEW k \in 1..Len(stack'[i].bindings)
          PROVE  Reaches(ms2, stack'[i].bindings[k])
      <4>1. i \in 1..n
        BY <2>7
      <4>2. CASE i \in 1..(q - 1)
        <5>1. stack'[i] = stack[i]
          BY <1>12, <2>1, <2>5, <4>2
        <5> QED
          BY <1>7, <4>1, <5>1 DEF BindingsFit
      <4>3. CASE i = q
        <5>1. o = stack[i]
          BY <2>1, <4>3
        <5> QED
          BY <1>7, <1>8, <2>4, <2>5, <4>1, <4>3, <5>1 DEF BindingsFit
      <4> QED
        BY <2>1, <4>2, <4>3
    <3> QED
      BY <1>7, <2>5, <3>1 DEF BindingsFit
  <2> QED
    BY <1>1, <1>2, <1>4, <2>2, <2>5, <2>6, <2>8, <2>9 DEF VInv
<1> QED
  BY <1>13, <1>14

-----------------------------------------------------------------------------
(* Theorems.                                                                *)

\* Typing, and all that the builder and the visit keep true together: it is inductive.
THEOREM Inductive == Spec => []VInv
<1>1. VInv /\ [Next]_vars => VInv'
  <2>1. VInv /\ UNCHANGED vars => VInv'
    BY DEF vars, VInv
  <2> QED
    BY <2>1, VInvVisitLeaf, VInvEnterDir, VInvLeaveDir DEF Next
<1> QED
  BY <1>1, VInvInit, PTL DEF Spec

\* No two modules have the same id (ObjectCarouselBuilder).
THEOREM UniqueIds == Spec => []ModuleIdsAreUnique
<1>1. VInv => ModuleIdsAreUnique
  BY DEF VInv, BInv, ModuleIdsAreUnique, Modules
<1> QED
  BY <1>1, Inductive, PTL

\* No two objects have the same key (FSDir and the visitors).
THEOREM UniqueKeys == Spec => []KeysAreUnique
<1>1. VInv => KeysAreUnique
  BY DEF VInv, KeysFit, KeysAreUnique, Messages, MessagesOf, Modules
<1> QED
  BY <1>1, Inductive, PTL

\* A module larger than OPT_MODULE_SIZE has one message (hasRoom and __addNode).
THEOREM SizesBounded == Spec => []ModulesAreNotTooLarge
<1>1. VInv => ModulesAreNotTooLarge
  BY DEF VInv, BInv, SizesFit, ModulesAreNotTooLarge, Modules
<1> QED
  BY <1>1, Inductive, PTL

\* Every binding in a directory message or the SRG_IOR file leads to its object.
THEOREM BindingsLead == Spec => []BindingsLeadToObjects
<1>1. VInv => BindingsLeadToObjects
  <2> SUFFICES ASSUME VInv PROVE BindingsLeadToObjects
    OBVIOUS
  <2> DEFINE ms == builder.modules
  <2>1. /\ tree \in Trees /\ BInv(builder) /\ KeysFit(stack, ms)
        /\ BindingsFit(tree, stack, ms, srgIOR)
    BY DEF VInv
  <2>2. Messages = MessagesOf(ms)
    BY DEF Messages, MessagesOf, Modules
  <2>3. ASSUME NEW x, Reaches(ms, x)
        PROVE  {f.node : f \in Found(x)} = {x.node}
    <3>1. PICK i \in DOMAIN ms : /\ ms[i].id = x.module
                                 /\ \E m \in ToSet(ms[i].messages) :
                                      m.key = x.key /\ m.node = x.node
      BY <2>3 DEF Reaches
    <3>2. PICK m \in ToSet(ms[i].messages) : m.key = x.key /\ m.node = x.node
      BY <3>1
    <3>3. m \in Messages
      BY <2>2, <3>1, <3>2 DEF MessagesOf
    <3>4. m \in Found(x)
      BY <3>1, <3>2, <3>3 DEF Found, Modules
    <3>5. \A f \in Found(x) : f = m
      BY <2>1, <2>2, <3>2, <3>3 DEF Found, KeysFit
    <3> QED
      BY <3>2, <3>4, <3>5
  <2>4. ASSUME NEW m \in Messages
        PROVE  /\ [i \in DOMAIN m.bindings |-> m.bindings[i].node] = Entries(m.node)
               /\ \A i \in DOMAIN m.bindings :
                    {f.node : f \in Found(m.bindings[i])} = {m.bindings[i].node}
    <3> DEFINE entries == EntriesIn(tree, m.node)
    <3>1. /\ m.node \in DOMAIN tree /\ Len(m.bindings) = Len(entries)
          /\ \A k \in 1..Len(m.bindings) : /\ m.bindings[k].node = entries[k]
                                           /\ Reaches(ms, m.bindings[k])
      BY <2>1, <2>2 DEF BindingsFit
    <3>2. m.bindings \in Seq(Bindings)
      BY <2>1, <2>2, MessageKeys
    <3>3. DOMAIN m.bindings = 1..Len(m.bindings)
      BY <3>2
    <3>4. entries \in Seq(DOMAIN tree)
      BY <2>1, <3>1, TreeFacts
    <3> HIDE DEF entries
    <3>5. entries = [i \in 1..Len(entries) |-> entries[i]]
      BY <3>4
    <3>6. [i \in DOMAIN m.bindings |-> m.bindings[i].node] = entries
      BY <3>1, <3>3, <3>5
    <3> QED
      BY <2>3, <3>1, <3>3, <3>6 DEF entries, Entries
  <2>5. srgIOR # None => {f.node : f \in Found(srgIOR)} = {Root}
    BY <2>1, <2>3 DEF BindingsFit
  <2> QED
    BY <2>4, <2>5 DEF BindingsLeadToObjects
<1> QED
  BY <1>1, Inductive, PTL

=============================================================================
