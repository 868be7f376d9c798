----------------------------- MODULE EsVideo2Pes -----------------------------
(***************************************************************************)
(* tools/esvideo2pes: cuts an MPEG-2 video elementary stream in PES        *)
(* packets of a frame, with the times of presentation and decoding.  And   *)
(* tools/pes2es, which takes the headers away again.                       *)
(*                                                                         *)
(* A stream is a sequence of tokens: sequence headers, picture headers     *)
(* with their temporal reference, and the data between them.  The header   *)
(* of a PES packet is one token, or two when there is a DTS.               *)
(***************************************************************************)
EXTENDS Integers, Sequences, SequencesExt

CONSTANTS
  PtsStep,  \* 3600: that of 25 frames a second, whatever the sequence header says,
            \* for its code is looked for in the last byte of the start code, B3
  PtsMax,   \* 2^33
  PtsLimit, \* pts_limit, 0 for none
  HeaderRoom  \* the tokens that header_buffer has room for

\* What there is in a stream, and a stream that is packed at all.
StreamTokens ==
  [kind : {"seq"}] \cup [kind : {"pic"}, ref : Nat, b : BOOLEAN] \cup [kind : {"data"}, at : Nat]
IsStream(es) == es \in Seq(StreamTokens) /\ es # <<>> /\ es[1].kind = "seq"

ASSUME TimesAssumption == PtsStep \in Nat \ {0} /\ PtsMax \in Nat \ {0} /\ PtsLimit \in Nat
ASSUME HeaderAssumption == HeaderRoom \in Nat \ {0, 1}

\* PES headers; most are sent with both times, those of B pictures with a PTS only.
PtsToken(pts, both) == [kind |-> "pes", pts |-> pts % PtsMax, both |-> both]
DtsToken(dts) == [kind |-> "dts", dts |-> dts % PtsMax]
Header(pts, dts) == <<PtsToken(pts, TRUE), DtsToken(dts)>>

\* The state before the first token; ref is the temporal reference that was read last.
PesStart ==
  [pc |-> "first", dts |-> 0, base |-> 0, ref |-> 0, first_gop |-> 0, a_gop |-> 0,
   held |-> <<>>, frames |-> 0, out |-> <<>>]

\* The presentation time of a picture, from the decoding time of its group.
Presented(base, ref) == base + ref * PtsStep + PtsStep

\* A sequence header comes first.  Its header is written before the first picture is seen,
\* as if that had the temporal reference 0.
First(v, t) ==
  [v EXCEPT !.pc = "skip", !.frames = 1, !.out = Header(PtsStep, 0) \o <<t>>]

\* The first picture is only counted.
Skip(v, t) ==
  [v EXCEPT !.out = Append(@, t),
            !.dts = IF t.kind = "pic" THEN @ + PtsStep ELSE @,
            !.pc = IF t.kind = "pic" THEN "scan" ELSE @]

\* A picture inside a group.
Picture(v, t) ==
  LET pts == Presented(v.base, t.ref)
      header == IF t.b THEN <<PtsToken(pts, FALSE)>> ELSE Header(pts, v.dts)
  IN  [v EXCEPT !.out = @ \o header \o <<t>>, !.dts = @ + PtsStep, !.frames = @ + 1,
                !.ref = t.ref]

TooLongAlready(v, pts) ==  \* mutated: only the groups before are looked at
  PtsLimit > 0 /\ v.first_gop > 0 /\ v.a_gop > 0 /\ pts > v.first_gop /\ pts >= PtsLimit
\* One more group would not end before pts_limit; known from the fourth group on.
TooLong(v, pts) ==
  /\ PtsLimit > 0 /\ v.first_gop > 0 /\ v.a_gop > 0 /\ pts > v.first_gop
  /\ v.first_gop <= PtsLimit /\ pts + v.a_gop >= PtsLimit

\* The tokens from a sequence header to the first picture of its group are held until that
\* is read.  When they fill header_buffer, the program exits with an error.
TooVerbose(v) == Len(v.held) + 1 >= HeaderRoom
Group(v, t) ==
  LET pts == Presented(v.dts, t.ref)
  IN  IF TooLong(v, pts) THEN [v EXCEPT !.pc = "done"]
      ELSE [v EXCEPT !.pc = "scan", !.base = v.dts, !.dts = @ + PtsStep,
                     !.frames = @ + 1, !.held = <<>>, !.ref = t.ref,
                     !.out = @ \o Header(pts, v.dts) \o v.held \o <<t>>,
                     !.first_gop = IF @ = 0 /\ pts > PtsStep THEN v.dts ELSE @,
                     !.a_gop = IF v.first_gop > 0 /\ @ = 0 THEN v.dts - v.first_gop ELSE @]

PesStep(v, t) ==
  CASE v.pc = "first" -> First(v, t)
    [] v.pc = "skip" -> Skip(v, t)
    [] v.pc = "scan" /\ t.kind = "seq" -> [v EXCEPT !.pc = "look", !.held = <<t>>]
    [] v.pc = "scan" /\ t.kind = "pic" -> Picture(v, t)
    [] v.pc = "scan" /\ t.kind = "data" -> [v EXCEPT !.out = Append(@, t)]
    [] v.pc = "look" /\ TooVerbose(v) -> [v EXCEPT !.pc = "exit"]
    [] v.pc = "look" /\ ~TooVerbose(v) /\ t.kind = "pic" -> Group(v, t)
    [] v.pc = "look" /\ ~TooVerbose(v) /\ t.kind # "pic" -> [v EXCEPT !.held = Append(@, t)]
    [] v.pc \in {"done", "exit"} -> v

Scanned(es) ==
  LET v[i \in 0..Len(es)] == IF i = 0 THEN PesStart ELSE PesStep(v[i - 1], es[i])
  IN  v[Len(es)]

\* A stream that ends before the picture that is looked for is packed as if one came, with
\* the temporal reference that was read last; what is written of it is a stray byte.
Closed(es) ==
  LET v == Scanned(es)
  IN  IF v.pc = "look" THEN Append(es, [kind |-> "pic", ref |-> v.ref, b |-> FALSE]) ELSE es

\* The last three bytes of the stream stay in the buffer, unless a picture is looked for.
Cut(t) == [t EXCEPT !.kind = "cut"]

\* The PES packets of a stream, and the length that is printed at the end.
Packed(es) == Scanned(Closed(es))
PesOf(es) ==
  LET v == Packed(es)
  IN  IF v.pc \in {"done", "exit"} THEN v.out ELSE Append(Front(v.out), Cut(Last(v.out)))
Length(es) == Packed(es).frames * PtsStep

\* pes2es.
IsHeader(t) == t.kind \in {"pes", "dts"}
EsOf(pes) ==
  LET es[i \in 0..Len(pes)] == IF i = 0 THEN <<>>
                               ELSE IF IsHeader(pes[i]) THEN es[i - 1]
                               ELSE Append(es[i - 1], pes[i])
  IN  es[Len(pes)]

-----------------------------------------------------------------------------
(* Properties.                                                              *)

\* pes2es gives back what esvideo2pes was given, but for the last bytes, from its beginning
\* up to the limit, or to a header that does not fit in header_buffer; from the fourth group
\* on the limit is kept, when groups are of one size.
KeepsStream(es) ==
  LET out == EsOf(PesOf(es))
      n == Len(out)
      end == Packed(es).pc
      Beginning == out = SubSeq(es, 1, n)
  IN  CASE end = "done" -> Beginning /\ Length(es) <= PtsLimit
        [] end = "exit" -> /\ Beginning /\ n + HeaderRoom - 1 <= Len(es)
                           /\ es[n + 1].kind = "seq"
                           /\ \A i \in n + 1..n + HeaderRoom - 1 : es[i].kind # "pic"
        [] OTHER -> n = Len(Closed(es)) /\ Front(out) = Front(Closed(es))

=============================================================================
