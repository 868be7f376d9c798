----------------------------- MODULE MCPackaging -----------------------------
(* Streams of groups of an I, a P and a B picture for Packaging.           *)
EXTENDS Packaging

Pic(ref, b) == [kind |-> "pic", ref |-> ref, b |-> b]
Data(n) == [j \in 1..n |-> [kind |-> "data", at |-> j]]
Sequence == <<[kind |-> "seq"]>>
GroupOf(i, p, b) ==
  Sequence \o <<Pic(0, FALSE)>> \o Data(i) \o <<Pic(2, FALSE)>> \o Data(p)
           \o <<Pic(1, TRUE)>> \o Data(b)

\* A group, and another whose header has n tokens between it and its picture, if it has one.
Verbose(n, end) == GroupOf(2, 1, 1) \o Sequence \o Data(n) \o end

Sizes == 1..4
MCVideoFiles ==
  {<<[fifo |-> f, stream |-> GroupOf(i, p, b) \o GroupOf(i, b, p)]>> :
      f \in BOOLEAN, i \in 2..5, p \in Sizes, b \in Sizes}
  \cup {<<[fifo |-> f, stream |-> GroupOf(i, 2, 1)],
          [fifo |-> g, stream |-> GroupOf(1, p, 2)]>> :
      f \in BOOLEAN, g \in BOOLEAN, i \in {3, 5}, p \in Sizes}
  \cup {<<[fifo |-> FALSE, stream |-> FlattenSeq([j \in 1..n |-> GroupOf(i, 1, 1)])]>> :
      n \in 3..5, i \in 1..2}
  \cup {<<[fifo |-> f, stream |-> Verbose(n, end)]>> :
      f \in BOOLEAN, n \in 0..3, end \in {<<>>, <<Pic(0, FALSE)>> \o Data(1)}}

\* A video of n frames of 10 units with the audio that fits it, in frames of 49 / 6.  That of
\* 9 frames leaves no room for what the bit rate has too little.
AudioOf(n, known) ==
  [frames |-> (60 * n - 1) \div 49, video |-> 10 * n, length |-> IF known THEN 10 * n ELSE 0]
MCAudioFiles ==
  {<<AudioOf(n, known)>> : n \in 3..9, known \in BOOLEAN}
  \cup {<<AudioOf(n, x), AudioOf(n, y)>> : n \in 3..9, x \in BOOLEAN, y \in BOOLEAN}
  \cup {<<AudioOf(n, FALSE), AudioOf(o, FALSE)>> : n \in 3..9, o \in 3..9}

=============================================================================
