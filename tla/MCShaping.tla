------------------------------ MODULE MCShaping ------------------------------
(* Files and inputs for Shaping.                                           *)
EXTENDS Shaping

\* A packet: of the video (1), of a table (2), of the carousel (3), a null packet (9) or
\* the rest of memory (0).
P(pid, pcr) == [pid |-> pid, cc |-> 0, pcr |-> pcr]
MCNull == P(9, NoPcr)
MCUnset == P(0, NoPcr)

MCTimeQueue == <<[name |-> "pat", repeat_time |-> 2], [name |-> "pmt", repeat_time |-> 3]>>
MCCountQueue == <<[name |-> "carousel", mandatory |-> TRUE],
                  [name |-> "ip", mandatory |-> FALSE]>>
MCFileOf == [pat |-> <<P(2, NoPcr)>>, pmt |-> <<P(2, NoPcr)>>,
             carousel |-> <<P(3, NoPcr), P(3, NoPcr)>>, ip |-> <<P(3, NoPcr)>>]

\* Streams with a PCR in each of the packets at the places given.
Stream(n, pcrs) == [k \in 1..n |-> P(1, IF k \in DOMAIN pcrs THEN pcrs[k] ELSE NoPcr)]
MCInputs ==
  [tsnullfiller |-> {Stream(n, [k \in {1, 3, 4} |-> 5]) : n \in 3..5},
   tsvbr2cbr    |-> {Stream(8, [k \in {1, 3, 5, 7} |-> 7 + (k - 1) * 3]),   \* steady
                     Stream(5, [k \in {1, 3, 5} |-> 7 + (k - 1) * 3]),   \* ends with a PCR
                     Stream(5, [k \in {1, 3, 4} |-> 7 + k * k]),         \* varying
                     Stream(4, [k \in {1, 3} |-> 9 - k]),                \* goes back
                     Stream(6, [k \in {1, 3, 5} |-> 48 + k * 3]),        \* at base 2^32
                     Stream(7, [k \in {1} |-> 1])},                      \* too long a wait
   nulls        |-> {<<>>}]

=============================================================================
