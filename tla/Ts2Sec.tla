-------------------------------- MODULE Ts2Sec --------------------------------
(***************************************************************************)
(* tools/ts2sec: extracts the sections of one PID from a transport stream. *)
(* The payloads are one stream of bytes; pusi only tells that the first    *)
(* byte of a payload is a pointer field, which is dropped.                 *)
(***************************************************************************)
EXTENDS Naturals, Sequences

CONSTANTS
  GarbageSize  \* the size found in a header made of bytes of several sections

\* A section has at least its header.
ASSUME Ts2SecAssumption == GarbageSize \in Nat /\ GarbageSize > 3

VARIABLES
  buffer,   \* what add_payload has not consumed of the payload it was given
  section,  \* section[0 .. section_len - 1]: the bytes gathered so far
  out       \* the sections written to standard output

receiverVars == <<buffer, section, out>>

ReceiverInit == buffer = <<>> /\ section = <<>> /\ out = <<>>

\* main: a packet of the PID is read, and its payload, after the pointer field if it has
\* one, is handed to add_payload.
ReadPacket(p) ==
  /\ buffer = <<>>
  /\ buffer' = p.bytes
  /\ UNCHANGED <<section, out>>

\* add_payload: one byte of a section header.  Once three are there a first byte 0xff
\* turns out to be padding and is dropped.
DropPaddingNever(s) == s  \* mutated
DropPadding(s) == IF Len(s) = 3 /\ s[1].sec = 0 THEN Tail(s) ELSE s

HeaderByte ==
  /\ buffer # <<>> /\ Len(section) < 3
  /\ section' = DropPadding(Append(section, Head(buffer)))
  /\ buffer' = Tail(buffer)
  /\ UNCHANGED out

\* The size in the header of a section (sz gives the sizes the sender wrote).
HeaderSize(s, sz) ==
  IF s[1].sec # 0 /\ \A i \in 1..3 : s[i] = [sec |-> s[1].sec, off |-> i - 1]
  THEN sz[s[1].sec]
  ELSE GarbageSize

\* add_payload: as much payload as the section still needs; a section that is complete
\* is output.
PayloadBytes(sz) ==
  /\ buffer # <<>> /\ Len(section) >= 3
  /\ LET missing == HeaderSize(section, sz) - Len(section)
         n       == IF missing >= Len(buffer) THEN Len(buffer) ELSE missing
         s       == section \o SubSeq(buffer, 1, n)
     IN  /\ buffer' = SubSeq(buffer, n + 1, Len(buffer))
         /\ IF n = missing THEN section' = <<>> /\ out' = Append(out, s)
            ELSE section' = s /\ UNCHANGED out

=============================================================================
