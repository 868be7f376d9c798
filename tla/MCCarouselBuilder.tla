-------------------------- MODULE MCCarouselBuilder --------------------------
(* Small trees for CarouselBuilder.                                         *)
EXTENDS CarouselBuilder

\* Nothing, the id 1 that is next at first, or the id 3 in two spellings.
MCWishes == {NoWish, [id |-> 1, plain |-> TRUE], [id |-> 3, plain |-> TRUE],
             [id |-> 3, plain |-> FALSE]}

\* A small or a large file, or one of the other kinds.
MCObjects == {[kind |-> "fil", size |-> 1], [kind |-> "fil", size |-> 3],
              [kind |-> "ste", size |-> 1], [kind |-> "dir", size |-> 1]}

\* The nodes that may have number n.
NodeAt(n, objects, wishes) ==
  {[parent |-> p, kind |-> o.kind, size |-> o.size, wish |-> w]
     : p \in 1..(n - 1), o \in objects, w \in wishes}

RootNode == [parent |-> 0, kind |-> "dir", size |-> 1, wish |-> NoWish]

\* Parents are directories.
IsTree(t) == \A n \in 2..Len(t) : t[t[n].parent].kind = "dir"

\* All trees of four nodes, and those of five without stream events and with one wish.
FourNodes ==
  {t \in {<<RootNode, a, b, c>> : a \in NodeAt(2, MCObjects, MCWishes),
                                  b \in NodeAt(3, MCObjects, MCWishes),
                                  c \in NodeAt(4, MCObjects, MCWishes)} : IsTree(t)}
FiveNodes ==
  LET objects == {o \in MCObjects : o.kind # "ste"}
      wishes  == {w \in MCWishes : w.id = 0 \/ (w.id = 3 /\ w.plain)}
  IN  {t \in {<<RootNode, a, b, c, d>> : a \in NodeAt(2, objects, wishes),
                                         b \in NodeAt(3, objects, wishes),
                                         c \in NodeAt(4, objects, wishes),
                                         d \in NodeAt(5, objects, wishes)} : IsTree(t)}

MCTrees == FourNodes \cup FiveNodes

=============================================================================
