--------------------------- MODULE CarouselBuilder ---------------------------
(***************************************************************************)
(* tools/oc2sec/file2mod.py: walks a directory tree, depth first, and puts *)
(* one BIOP message for each file, stream event and directory into the     *)
(* modules of an object carousel.  A directory message names its entries   *)
(* by module id and object key, and the service gateway IOR names the root *)
(* in the same way: that is all a receiver has to find an object.          *)
(*                                                                         *)
(* A file next to an object (its .descriptors) may ask for a module of a   *)
(* given id.  The text of that file is what the code compares; two texts   *)
(* can stand for one number, as with and without a newline.                *)
(***************************************************************************)
EXTENDS Naturals, Sequences, SequencesExt, FiniteSetsExt

CONSTANTS
  Trees,    \* the directory trees to marshal
  OptSize   \* OPT_MODULE_SIZE

ASSUME CarouselBuilderAssumption == OptSize \in Nat \ {0}

\* A tree numbers its nodes, the root being 1.  Of each node there are its parent (0 for
\* the root), its kind, the size of its message and the text that asks for a module id.
Kinds   == {"fil", "ste", "dir"}
NoWish  == [id |-> 0, plain |-> FALSE]
Wishes  == [id : Nat, plain : BOOLEAN]
Root    == 1

\* The entries of node n of tree t, sorted (os.listdir).
EntriesIn(t, n) == SelectSeq([m \in DOMAIN t |-> m], LAMBDA m : t[m].parent = n)

\* Only directories have entries, and no message is empty.
ASSUME TreesAssumption ==
  \A t \in Trees :
    /\ t \in Seq([parent : Nat, kind : Kinds, size : Nat \ {0}, wish : Wishes])
    /\ Root \in DOMAIN t /\ t[Root].kind = "dir"
    /\ \A n \in DOMAIN t :
         /\ EntriesIn(t, n) \in Seq(DOMAIN t)
         /\ t[n].kind # "dir" => EntriesIn(t, n) = <<>>

VARIABLES
  tree,     \* the directory to marshal
  stack,    \* the directories being visited, the innermost one last
  builder,  \* theObjectCarouselBuilder
  srgIOR    \* the binding of the root in the SRG_IOR file, None before it is written

vars == <<tree, stack, builder, srgIOR>>

None == [node |-> 0, module |-> 0, key |-> 0]

Entries(n) == EntriesIn(tree, n)

\* FSDir: a directory with its key, the last key given out in it, the entries still to
\* visit and the bindings of those that were visited.
Frame(n, key) ==
  [node |-> n, key |-> key, visitKey |-> key, todo |-> Entries(n), bindings |-> <<>>]

Top == Last(stack)

-----------------------------------------------------------------------------
(* ObjectCarouselBuilder: the next module id, the modules asked for by text, *)
(* the open module of each type, and the modules in the order of the DII,    *)
(* each with its messages.  A module is referred to by its place there.      *)

NewBuilder ==
  [nextId |-> 1, byWish |-> <<>>, byType |-> [k \in Kinds |-> 0], modules |-> <<>>]

\* Does a reserved module have this id?
IsReserved(b, id) == [id |-> id, plain |-> TRUE] \in DOMAIN b.byWish

\* __nextModule: an empty module is added; MODULE_ID is the next id not reserved.
NextModule(b, id) ==
  [b EXCEPT !.modules = Append(@, [id |-> id, size |-> 0, messages |-> <<>>]),
            !.nextId = Min({k \in (id + 1)..(id + 1 + Cardinality(DOMAIN b.byWish)) :
                              ~IsReserved(b, k)})]

\* hasRoom: anything goes into an empty module.
HasRoomNotCounted(m, size) == m.size <= OptSize  \* mutated: the message is not counted
HasRoom(m, size) == m.size = 0 \/ m.size + size <= OptSize

\* ModuleBuilder.write: a message more in module m ...
With(m, message) == [m EXCEPT !.messages = Append(@, message), !.size = @ + message.size]

\* ... which is the one at place i.
Written(b, i, message) == [b EXCEPT !.modules[i] = With(@, message)]

\* A module id is free for a wish when it is past MODULE_ID.
CanReserveUsed(b, wish) == wish.id + 1 >= b.nextId  \* mutated: one off
CanReserve(b, wish) == wish.id > b.nextId

\* A wish more in the table of the modules asked for.
Extended(table, wish, i) ==
  [w \in DOMAIN table \cup {wish} |-> IF w = wish THEN i ELSE table[w]]

\* __addNode, for a node that asks for a module nobody asked for before: it is opened.
Reserved(b, wish, message) ==
  LET opened == NextModule(b, wish.id)
      i      == Len(opened.modules)
  IN  Written([opened EXCEPT !.byWish = Extended(@, wish, i)], i, message)

\* __addNode, for a node without a wish or with one that cannot be met: the open module
\* of its type takes it, or a new one does.
Unreserved(b, message) ==
  LET i == b.byType[message.kind]
  IN  IF i # 0 /\ HasRoom(b.modules[i], message.size)
      THEN Written(b, i, message)
      ELSE LET opened == NextModule(b, b.nextId)
               j      == Len(opened.modules)
           IN  Written([opened EXCEPT !.byType[message.kind] = j], j, message)

\* __addNode: which of the three cases it is ...
WishCase(b, wish, size) ==
  CASE wish = NoWish                                   -> "none"
    [] wish # NoWish /\ wish \notin DOMAIN b.byWish    ->
         IF CanReserve(b, wish) THEN "reserve" ELSE "in use"
    [] wish \in DOMAIN b.byWish                        ->
         IF HasRoom(b.modules[b.byWish[wish]], size) THEN "join" ELSE "full"

\* ... what becomes of the modules ...
Added(b, wish, message) ==
  CASE WishCase(b, wish, message.size) = "reserve" -> Reserved(b, wish, message)
    [] WishCase(b, wish, message.size) = "join"    -> Written(b, b.byWish[wish], message)
    [] OTHER                                       -> Unreserved(b, message)

\* ... and the module id the node is bound to.
BoundModuleAsWished(b, wish, message) ==  \* mutated: a wish not met is not forgotten
  IF wish # NoWish THEN wish.id
  ELSE LET c == Unreserved(b, message) IN c.modules[c.byType[message.kind]].id
BoundModule(b, wish, message) ==
  IF WishCase(b, wish, message.size) \in {"reserve", "join"} THEN wish.id
  ELSE LET c == Unreserved(b, message) IN c.modules[c.byType[message.kind]].id

\* The message of a node.
Message(n, key, bindings) ==
  [node |-> n, key |-> key, kind |-> tree[n].kind, bindings |-> bindings,
   size |-> tree[n].size + Len(bindings)]

-----------------------------------------------------------------------------
(* The visit.                                                               *)

Init ==
  /\ tree \in Trees
  /\ stack = << Frame(Root, 0) >>
  /\ builder = NewBuilder
  /\ srgIOR = None

\* Node n is shipped with its message, which gives its binding.
Ship(n, key, bindings) ==
  builder' = Added(builder, tree[n].wish, Message(n, key, bindings))
Binding(n, key, bindings) ==
  [node |-> n, key |-> key,
   module |-> BoundModule(builder, tree[n].wish, Message(n, key, bindings))]

\* The next entry of a directory is done, with the last key that was given out.
Done(frame, key, binding) ==
  [frame EXCEPT !.visitKey = key, !.todo = Tail(@), !.bindings = Append(@, binding)]

\* A file or a stream event of the innermost directory.
VisitLeaf ==
  /\ stack # <<>> /\ Top.todo # <<>>
  /\ LET n   == Head(Top.todo)
         key == Top.visitKey + 1
     IN  /\ tree[n].kind # "dir"
         /\ Ship(n, key, <<>>)
         /\ stack' = [stack EXCEPT ![Len(stack)] = Done(@, key, Binding(n, key, <<>>))]
  /\ UNCHANGED <<tree, srgIOR>>

\* A directory of it.
EnterDir ==
  /\ stack # <<>> /\ Top.todo # <<>>
  /\ LET n   == Head(Top.todo)
         key == Top.visitKey + 1
     IN  /\ tree[n].kind = "dir"
         /\ stack' = Append([stack EXCEPT ![Len(stack)].visitKey = key], Frame(n, key))
  /\ UNCHANGED <<tree, builder, srgIOR>>

\* The last key given out below a directory is where its parent goes on.
KeyAfterDirNotKept(parent, child) == parent.visitKey  \* mutated
KeyAfterDir(parent, child) == child.visitKey

\* A directory is complete: it is shipped, and bound in its parent or the SRG_IOR file.
LeaveDir ==
  /\ stack # <<>> /\ Top.todo = <<>>
  /\ Ship(Top.node, Top.key, Top.bindings)
  /\ LET binding == Binding(Top.node, Top.key, Top.bindings)
         outer   == Front(stack)
     IN  IF outer = <<>>
         THEN stack' = <<>> /\ srgIOR' = binding
         ELSE /\ stack' = [outer EXCEPT ![Len(outer)] =
                             Done(@, KeyAfterDir(@, Top), binding)]
              /\ UNCHANGED srgIOR
  /\ UNCHANGED tree

Next == VisitLeaf \/ EnterDir \/ LeaveDir

Spec == Init /\ [][Next]_vars

-----------------------------------------------------------------------------
(* Properties.                                                              *)

Modules  == builder.modules
Messages == UNION {ToSet(Modules[i].messages) : i \in DOMAIN Modules}

\* No two modules have the same id: they would be the same file, opened twice for
\* writing, and the same module of the DII.  Ids come from a counter and from the
\* .descriptors files, which may name any id at any time.
ModuleIdsAreUnique ==
  \A i, j \in DOMAIN Modules : Modules[i].id = Modules[j].id => i = j

\* No two objects have the same key (a receiver names files by module and key), although
\* each directory counts the keys below it on its own.
KeysAreUnique == \A m, n \in Messages : m.key = n.key => m.node = n.node

\* A module is larger than OPT_MODULE_SIZE only when a single message is.
ModulesAreNotTooLarge ==
  \A i \in DOMAIN Modules : Modules[i].size <= OptSize \/ Len(Modules[i].messages) = 1

\* The message that a receiver finds under a binding, among the modules of the DII.
Found(binding) ==
  {m \in Messages : /\ m.key = binding.key
                    /\ \E i \in DOMAIN Modules : /\ Modules[i].id = binding.module
                                                 /\ m \in ToSet(Modules[i].messages)}

\* Every binding that was written leads to the message of its node, in whatever module
\* that was put, and a directory message has all the entries of its directory.
BindingsLeadToObjects ==
  /\ \A m \in Messages :
       /\ [i \in DOMAIN m.bindings |-> m.bindings[i].node] = Entries(m.node)
       /\ \A i \in DOMAIN m.bindings :
            {f.node : f \in Found(m.bindings[i])} = {m.bindings[i].node}
  /\ srgIOR # None => {f.node : f \in Found(srgIOR)} = {Root}

=============================================================================
