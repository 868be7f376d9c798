# A verification development for OpenCaster

OpenCaster is a set of small programs that make, loop, multiplex, shape and
receive MPEG-2 transport streams, sections and DSM-CC object carousels.
Each program is a single-threaded filter; what they form together through
pipes, fifos and files is a concurrent system. This directory holds TLA+ models
of the programs that keep state, TLC runs that check them on small instances and
TLAPS proofs about most of those. Paths below are relative to `src/`.

Contents: [inventory](#inventory) · [modules](#modules) · [runs](#runs) ·
[fairness](#fairness) · [proofs](#proofs) · [divergences](#divergences-found) ·
[only model-checked](#only-model-checked) · [not modelled](#not-modelled) ·
[plan](#plan)

## Inventory

| component | state | operations | what is hard | what makes it correct |
|---|---|---|---|---|
| receiver, `tools/dsmcc-receive` | `car->modules` (version, blocks left, blocks got), DDB cache, `completed`, `got_dsi`, files | a DSI, DII or DDB is read; the cache is replayed; a module is saved, rejected or deleted | any order of sections, loss, damage, editions that follow each other, a finite cache | files are those of an edition that was broadcast and never go back; `completed` only on a consistent carousel; it gets there in the end |
| builder, `tools/oc2sec/file2mod.py` | modules by type and by asked id, next id, keys | a node is visited, put in a module, bound | ids asked for by files collide with the counter; modules fill up; recursion hands on keys | ids and keys unique, every binding leads to its object |
| sections, `tools/oc2sec/mod2sec.py`, `libs/dvbobjects` | none beyond files | modules are cut into DDBs, DII and DSI made | order of the file | each block once per repetition |
| `oc-update.sh` | the looped file | it is truncated and a new edition is written to it | the file is being read | – |
| `tools/sec2ts` | packet being filled, section, pending padding | a section is taken, packed, padded | off-by-ones where sections end near packet ends | pointer fields, nothing lost |
| `tools/ts2sec` | section being gathered | payload is consumed | headers split over packets, padding, lost packets | sections whole, in order |
| `tools/tsloop` | two counter tables per PID, file and place | a packet is restamped; a file ends | double packets, ends of files | no gap and no false double for a decoder |
| `tools/tsfixcc`, `tools/tsccc` | counter table | a packet is restamped / checked | double packets | – |
| `tools/tscbrmuxer` | packets output per input, counter tables shared by the inputs | the input with the least share is chosen; its file ends | proportion, PIDs sharing tables | each input has its bitrate and is looped as by tsloop |
| `tools/tsnullfiller`, `tsnullshaper`, `tsvbr2cbr` | bit counters, time queue, buffer | null packets are added or replaced | carried remainders, a clock that goes back, files that end or are away | the rate that was asked for, every file sent in time, the stream in step with its PCRs |
| `tools/tsudpsend`, `tstimedwrite`, `tstcpsend` | bits sent, clock | packets are sent when due; received in parts | clock that is set, short reads, loss | never ahead of the bitrate, whole packets |
| `tools/tsinputswitch`, `tsoutputswitch`, `tstimeout`, `tsdoubleoutput` | choice, partly read packet, stability | a datagram changes the choice; input goes silent | timeout in the middle of a packet, choices at any moment, fifos without a reader | whole packets, seamless change, something always on air |
| `tools/tspcrstamp`, `tsstamp`, `pesclock`, `tspcrmeasure` | packet count and base | a PCR is stamped, measured | wrap-around, rebasing | clocks in step with the place in the stream |
| `tools/pes*2ts`, `es*2pes`, `ts2pes`, `pes2es`, `vbv` | look-ahead buffer, packet being filled, model of the receiver's buffer, running times | a header is found, a packet is filled, sent, held back by null packets; a file ends | frames that end anywhere in a packet, files that end, loop, are fifos or missing; wrap of the clock | no byte lost, buffer holds, times run on, audio with its video |
| other filters and printers | none, or one packet | – | – | – |

Interaction: `file2mod` writes modules and specs, `mod2sec` makes section files
of them, `oc-update.sh` concatenates those through `sec2ts` (and `tsfixcc`) into
one file, `tsloop` repeats it, `tscbrmuxer` mixes such files; on the other side
`ts2sec` feeds `dsmcc-receive`. Elementary streams go through `esvideo2pes` and
`pesvideo2ts` (or the audio tools) to such a multiplex; it is filled up by
`tsnullfiller` or `tsvbr2cbr`, its null packets are replaced by `tsnullshaper`, its
PCRs stamped by `tspcrstamp`, and the network senders, receivers and switches
carry it away. All communication is by bytes in files and pipes;
the only shared state is the looped file, rewritten in place, and the files that
`tsnullshaper` opens again and again.

`PROJECT.json` lists the components with what is modelled of each, and the
hazards with their lines.

## Modules

| module | models | correspondence |
|---|---|---|
| `DsmccReceiver` | `dsmcc-receive/carousel.c`, `module.c`, `table.c`, the effect of `biop.c` | `modules`, `cache`, `completed`, `gotDsi`, `stop` are the fields of the same names; `replay` is the index of the loop that replays the cache; `disk` abstracts the files. `ReceiveDDB`, `ReceiveDII`, `ReceiveDSI`, `EndOfInput` are the branches of the main loop. |
| `CarouselStore` | abstract: what a reader of the files may rely on | implemented by `DsmccReceiver` (`ImplementsStore`) |
| `CarouselBroadcast` | `DataCarousel.py`, `oc-update.sh`, `tsloop` as the environment of the receiver | `pos` is the place of tsloop in the file, `filled` how much of the edition on air is in it; `Transmit`, `Lose` and `Damage` move one section, `Reopen` and `Exit` are the end of the file, `TruncateFile` and `FillFile` are `oc-update.sh` |
| `Sec2Ts`, `Ts2Sec` | `sec2ts.c`, `ts2sec.c` | `size`, `at`, `needPad`, `padded`, `pkt` are `section_size`, `section_bytes`, `ts_needtopad`, `ts_padded_did_not_output_next_header` and the packet of which `ts_bytes` are written |
| `SectionPipe`, `SectionLink` | abstract pipe of sections; both tools with the stream between them | `ImplementsPipe` |
| `Continuity` | the restamping shared by `tsloop.c` and `tscbrmuxer.c`, and `tsfixcc.c`, `tsccc.c` | `Stamp`, `FixedFile`, `Check` |
| `TsLoop`, `CheckedLoop` | `tsloop.c`; its output read by a decoder and by `tsccc` | |
| `CbrMuxer` | `tscbrmuxer.c` | `packets` is `output_packets`; implements one `TsLoop` per input |
| `CarouselBuilder` | `file2mod.py` | `stack` is the recursion of `FSDir.visit`, `builder` is `theObjectCarouselBuilder` |
| `NullFiller`, `Vbr2Cbr` | `tsnullfiller.c`, `tsvbr2cbr.c` | `icounter`, `ocounter` are the counters of the code divided by the bits of a packet; `pc` of `Vbr2Cbr` says whether the buffer is filled or flushed |
| `NullShaper` | `tsnullshaper.c` with the host's clock, files and descriptors | `time` is the next time of each entry of `g_fd_time_queue`, `handles` what each descriptor number stands for |
| `PcrStamp` | `tspcrstamp.c`, `tspcrmeasure.c` | `count`, `rounding` are `ts_packet_count`, `pcr_index_rounding` |
| `Shaping` | the pipe of these tools | a tool reads when the one before has written |
| `PacedSender` | `tsudpsend.c`, `tstcpsend.c`, `tstimedwrite.c` | `start`, `packetTime` are `time_start`, `packet_time` |
| `Switches`, `TsTimeout` | `tsinputswitch.c`, `tsoutputswitch.c`, `tsdoubleoutput.c`; `tstimeout.c` | operators from the state of a switch to the next, one per line that may wait; `index`, `stable` are those of `tstimeout` |
| `Playout` | both with the network, receivers, clock and operator | set-ups "paths" and "timeout"; `readers` says of each fifo of `tsoutputswitch` whether its reader reads, saw the end and leaves, is gone, or waits for the fifo to be opened |
| `EsVideo2Pes`, `PesPackets` | `esvideo2pes.c`, `pes2es.c`; `pesdata2ts.c`, `ts2pes.c` | functions from sequences of tokens to sequences of tokens, as recursive functions of a record of the tool's variables |
| `PesVideo2Ts`, `PesAudio2Ts` | `pesvideo2ts.c`; `pesaudio2ts.c`, `esaudio2pes.c` | `look`, `data`, `es`, `m`, `c` group the variables of the look-ahead buffer, the packet, the bytes read, the receiver's buffer and the times |
| `Packaging` | the chain of these tools and back | |
| `MC*` | small instances for TLC | |
| `DsmccReceiverProofs`, `SectionLinkProofs`, `CheckedLoopProofs`, `CbrMuxerProofs`, `CarouselBuilderProofs`, `ShapingProofs`, `PlayoutProofs`, `PackagingProofs` | proofs | see [proofs](#proofs) |

Abstractions worth knowing:

- A section is what the receiver tells apart: table, module, version, block, and
  whether it is damaged. The version byte wraps at 256 in the code and editions
  are taken to be fewer. Module id and download id are one value.
- `ProcessBiop` has three outcomes for a damaged module (saved, rejected with
  nothing written, rejected after something was written), because what the bytes
  of a damaged module mean is unknown; a sound module is always saved.
- `ReceiveDDB` chooses `processed` in a disjunction whose halves exclude each
  other (the module is known at that version, or not).
- A step of the receiver is one section, or one slot of the replay: nothing
  interferes between them, but the broadcast goes on.
- The size of a packet in `Sec2Ts` is a parameter: all cases of the code are
  comparisons of a number of bytes with what is left of a packet. With `-s`,
  sections near 4096 bytes are outside of the model (their stuffing does not fit
  the tool's buffer).
- The counters of `Continuity` are modulo `CcMod` (16 in the code).
- The comparison of shares in `CbrMuxer` is exact, in the code in doubles.
- In `CarouselBuilder` a message has a size; a directory's grows with its
  bindings. `.descriptors` files are a wish: an id and its spelling, because the
  code compares texts when it looks for a reserved module and numbers elsewhere.
- `NullFiller` and `NullShaper` count packets: every counter of the code is a
  multiple of the bits of one. `Vbr2Cbr` guesses a bitrate of whole bits; the code
  truncates a double in the same way. It reads a PCR as the code does (`ReadPcr`): the
  first byte is shifted as a 32-bit int, which loses the highest bit of the base and
  extends the next one as a sign (`tsvbr2cbr.c:167`).
- The clock of `NullShaper` and `PacedSender` is read once per packet; between two
  readings it may go on, or be set back. `open` returns the lowest free number.
- In `PacedSender` a read returns what there is, up to the size that is asked for,
  and is counted as that size. `Due` is one comparison modulo 2^64.
- The bytes of video are tokens: a sequence header, a picture header, a piece of
  data, a time. A PES header is one token, or two with a DTS, as in the code a
  look-ahead buffer holds the longer header and more than the shorter one.
  The bytes of a packet are `Room` tokens. A stream begins with a sequence header
  (`IsStream`): `esvideo2pes` gives up on any other (`esvideo2pes.c:177`). Its
  `header_buffer` has room for `HeaderRoom` tokens, and it exits when they are full
  (`TooVerbose`). At the end of a file it writes what it holds as if a picture had come
  (`Closed`), with a byte that was not read.
- `pesvideo2ts` sends packets at a constant rate, so that time is counted in
  packets: `Period` for a frame, `PcrPackets` between PCRs, `WrapPackets` to the wrap.
- `pesaudio2ts` is the arithmetic of packets and times, with the divisions of the
  code: `bitrate` is in whole bits (`pesaudio2ts.c:329`) and is what all places of the
  null packets are computed from. How a frame is put in its packets is as in
  `PesPackets`. What of a frame waits for the next header (`Held`) is a parameter.
- `None`, `HasDouble`, `WellFormed` and the decoder are environment, marked
  external in the map or read only by properties.

## Runs

| run | instance | shows |
|---|---|---|
| `DsmccReceiver` | 2 modules of 1 or 2 blocks, 3 editions that resize them, 2 cache slots, 1 damaged block | bookkeeping exact, files never older, completion consistent, `CarouselStore` implemented |
| `Broadcast` | 2 editions of which the second drops a module and resizes the other, the file truncated and filled at any moment, 1 slot, 1 loss, 1 damaged block | the receiver ends with what is on air, or with a stale block in its cache, part of the dropped module, or the end of `tsloop`; the cyclic broadcast gives the fairness that `DsmccReceiver` assumes |
| `Broadcast_stale_cache` (violation) | 2 editions of the same modules, no loss, no damage, 1 slot | `GetsCompleteFileSystem` fails |
| `SectionLink` | packets of 5 payload bytes, up to 3 sections of 4..9 bytes or too big, with and without `-s`, 1 loss | pointer fields, section starts, lossless pipe, all delivered |
| `CheckedLoop` | all well-formed files of up to 3 packets (two files: up to 2), 2 PIDs, counters modulo 3, and files made by `tsfixcc` | decoder and checker see no error |
| `CbrMuxer` | 3 inputs with bitrates 2:3:1, files of 1 or 2 packets, 7 packets of each at most | proportion, each input a loop |
| `CbrMuxer_twopids` (violation) | one input with two PIDs | a decoder loses a packet |
| `CarouselBuilder` | all trees of 4 nodes and most of 5, modules of size 4, wishes for ids 1 and 3 (two spellings) | ids and keys unique, bindings right |
| `Shaping` | rates 2:5 and up to 5, buffers of 3 and 6 packets, inputs of 3 to 8 packets with steady, varying, backward and missing PCRs; 2 timed and 2 untimed files, time to 4, one fault; counts rebased at 4 packets, PCR modulo 100 from 93 | rates, times, PCRs, no starving |
| `Shaping_hang` (violation) | the same | `tsvbr2cbr` writes null packets for ever |
| `Playout` | 3 packets of 2 bytes, datagrams of 2 packets, one packet per unit of time, pipes of 4 bytes, time to 4, one fault, one choice; readers of two fifos that may leave when these are closed | pacing, seamless change, no mixed packets, on air unless killed by SIGPIPE |
| `Packaging` | groups of I, P and B frames of 1 to 5 tokens, headers of up to 3 tokens where 4 do not fit, streams that end in a header, one or two files, looped or not, fifos or not; audio of 3 to 9 video frames, known lengths or not, 4 files | nothing lost on the way through `pesvideo2ts`, or by `esvideo2pes` and `pesdata2ts`; buffer holds, times run on, audio in time |

Why the bounds are enough. Three editions and two slots let a cached block be
two editions old while two others are downloaded, which is all the versions an
entry, a cache slot and the disk can differ by; with one module of two blocks
and one of one block, modules are complete, half complete and empty at once. One
damaged block reaches every branch of `ProcessBiop`, including a restart that is
followed by good blocks. In `Broadcast` the update may come when any part of the dropped
module is there, cached or missing. In `SectionLink` sizes 4 to 9 cover each residue modulo
the payload with and without pointer field, twice over; three sections make one
that begins and one that ends in the packets of a third. Counters modulo 3 wrap
within a file; files of one packet, of doubles and of packets without payload
occur. In `CbrMuxer` with 7 packets each the proportion 2:3:1 repeats twice.
Trees of four nodes fill, overflow, reserve and rejoin modules; five add a
second level of directories with something after it.

In `Shaping` three packets of input take 7 or 8 of output, so that the remainder
of a null packet differs from buffer to buffer; the two timed files are due at the
same time and at different ones; one fault is a clock set back or a file away,
each at any moment, and the files end and are opened again after one or two
packets. From 93 the PCR wraps within an input, also at a rebase. In `Playout`
datagrams are larger and connections' reads smaller than a packet, and all four
bytes of a pipe hold two packets, so that both paths and the switch are at
different packets; a second fault only repeats this. In `Packaging` four tokens of
room and frames of one to five tokens with headers of one or two end a frame at
each place in a packet and on each place of the look-ahead buffer; the receiver's
buffer holds three packets, so that it is full and empty; times wrap at 16 and
the clock after 20 packets, more than once per input.

Deadlock is checked in the endless systems (`CheckedLoop*`). The other systems really
stop: the receiver at the end of its input, in `Broadcast*` after `tsloop` met an empty
file, the section
link when all is delivered, the builder when the tree is visited, the muxer at
the bound `MaxPackets`, and the streams of `Shaping`, `Playout` and `Packaging` when
their input ends.

Named bounds: `LastEdition`, `MaxDamage`, `MaxLost`, `MaxSections`, `MaxPackets`,
`MaxTime`, `MaxFaults`, `MaxShaped`, `PipeBytes`, `MaxChoices`, `MaxOpens`, `MaxFiles`.

Each property of a passing run has a mutant in `PROJECT.json`: a definition with
a plausible bug (marked `mutated` in the modules and used nowhere else) with
which TLC finds the property violated.

## Fairness

- `CarouselBroadcast`: weak fairness of `Transmit`, `Reopen`, `FillFile`, `InputEnds`
  and `ReplayCache`. `tsloop` is an endless loop that only waits for its output to be
  read, an update that truncated the file goes on to fill it, and the receiver waits for
  nothing but input, of which it meets the end when `tsloop` has exited. Loss, damage,
  the beginning of an update and the exit itself are not fair and bounded.
- `DsmccReceiver!Fairness` (strong fairness of each section on air) is not
  assumed in any checked property: `FairToTheReceiver` shows that the cyclic
  broadcast provides it.
- `SectionLink`: weak fairness of each tool, two processes on a pipe.
- `Shaping`: weak fairness of each tool, and a file that is away comes back.
  Neither the clock nor the faults are fair. `EndsOnSoundPcrs`, `Ends` and
  `ReadsItsOwnFileAgain` need it.
- `Playout`: weak fairness of `tstimeout` (its select returns after the timeout at
  the latest), of `tsoutputswitch`, and of the reader of each of its fifos: one that saw
  the end leaves, and the next one comes; without a reader `open` waits for ever, which is
  what a fifo does. The live input, the
  operator and the network are not fair.
- `Packaging`: weak fairness of the only process.
- Nothing else needs fairness.

## Proofs

All theorems are checked by TLAPS from nothing, for every value of the constants
that satisfies the named assumptions of the modules (no empty module, tree or file,
positive bitrates, sizes and times, a counter modulus above one, a packet with room for
more than a pointer field, sections of three bytes at least, an output faster than the
input). `FillerAssumption` is a definition that `Shaping` assumes of its instance of
`tsnullfiller`, and that the theorems have as a hypothesis. The assumptions say what an
input is; what a theorem needs beyond that is a hypothesis of its own and is named below.

| property | theorem | further hypothesis |
|---|---|---|
| `TypeOK`, `OneEntryPerModule`, `BlocksLeftIsExact`, `DownloadedIsOnDisk`, `OnlyDamageSpoilsFiles`, `NeverOlder`, `CompletedOnlyWhenOnDisk`, `ImplementsStore` | in `DsmccReceiverProofs` | |
| `PointerFieldIsRight`, `SectionsStartOnBoundaries`, `ImplementsPipe` | `PointersAreRight`, `SectionsOnBoundaries`, `Refinement` | |
| `CheckerIsSilent`, `DecoderLosesNothing` | `NoWarnings`, `NothingLost` | |
| `InProportion` (and `TypeOK` of the multiplexer, in no run) | in `CbrMuxerProofs` | |
| `ImplementsLoops` | `Refinement` | each input has one PID, which no other has |
| `ModuleIdsAreUnique`, `KeysAreUnique`, `ModulesAreNotTooLarge`, `BindingsLeadToObjects` | in `CarouselBuilderProofs` | |
| `NullsFitBuffer` | `BufferAndRate`, `FillerFitsBuffer` | `NoWrap` |
| `NotTooOften` | `NeverTooOften` | |
| `NoTimedFileFallsBehind` | `NoneFallsBehind` | `NotTooMuch`: the files do not ask for more than a packet per unit of time |
| `PcrFollowsPosition` | `ClockFollowsPosition` | `FastEnough` |
| `OutputKeepsStep` | `StaysInStep` | `SteadyInput`: steady inputs begin with a PCR, and their PCRs are below 2^31 * 300 |
| `NeverTooFast` | `Paced` | `NoWrap` |
| `OnlyTimeoutsMixPackets` | `TimeoutsMixPackets` | the file is a stream of packets |
| `SeamlessSwitch` | `Seamless` | `WholePackets`: the file is a stream of packets with numbers and not empty, and datagrams hold whole packets, as `tsudpsend.c:101` makes them |
| `NothingIsLost`, `ReceiverBufferHolds` | `EveryByteArrives`, `TheBufferHolds` | |
| `FilesAreKept` | `EveryFileIsKept` | `EvenGroups`: pictures are in groups of one size and three groups end before `pts_limit` |
| `DecodingTimesGoOn` | `TimesGoOn` | `SecondIsReference`: the second picture of the first file is not a B picture, and sequence headers before it fit the header buffer |
| `InTime` | `AudioIsInTime` | `TwoFrames` (the first file has the two frames the step is learned from), `ShortFrames` (an audio frame is shorter than a video frame), `LengthsSuffice` (no file is longer than its `.length` says) |
| `InStepWithVideo` | `AudioKeepsStep` | `TwoFrames`, and `FitsVideo`: audio ends less than a video frame before its video, and lengths are those of the video |

`DsmccReceiverProofs` proves for any carousel, number of editions, cache size and
amount of damage: `TypeOK`, `OneEntryPerModule`, `BlocksLeftIsExact`,
`DownloadedIsOnDisk`, `OnlyDamageSpoilsFiles`, `NeverOlder`,
`CompletedOnlyWhenOnDisk`, and the refinement of `CarouselStore`. None of these
is inductive. The invariant `IInv` adds
- `NotBehindDisk`: what is on disk is not newer than the entry of its module
  (else saving a module could replace newer files). A DDB never makes an entry,
  only a DII of the edition on air does, and a deleted entry can only come back
  at that edition: this is why a stale cached block is harmless to the files,
  although it is not harmless to progress;
- `DiskWasBroadcast`: no file is newer than the edition on air;
- `SavedWhenDownloaded`: an entry without missing blocks is on disk;
- `SoundModules`, `WholeFiles` and `GoodCache` as long as nothing was damaged.

Adding a block, replacing a module by its restart and dropping entries are
lemmas of their own; the preservation proof has a step for each action. The
refinement proof uses the invariant at a save (`Store` asks that versions do not
go back) and at the completion (`Declare` asks for one edition on disk).

`SectionLinkProofs` proves the pointer field for any payload, sizes and number of
sections. What the pointer field says is written before the bytes it speaks of, so the
invariant `SInv` says for each phase of a section what the header of the packet being
written promises: `Begun` (nothing packed yet: the section starts where the pointer says,
and it is to be padded just if it ends in the packet), `GoesOn` (in the middle: the pointer
is what is left of the section, and that never leaves exactly one byte in a packet, for
which `OneByteMore` is there), `ToPad` (it ended in this packet, which is right as it is)
and `Over` (it ended with the promise that another one follows). `AddedBytes` and
`PaddingStartsNothing` say where sections start in a packet that got bytes. With `-s` the
invariant `Aligned` says that a section is one octet short of a number of packets, that
what is left of it later is a number of packets, and that the packet being written is
empty between two steps: the case with padding never happens.

The refinement of `SectionPipe` by the two tools relates what `ts2sec` gathered to what
`sec2ts` has still to pack, with the packets of the pipe in between. A `Path` is a sequence
of bytes that leads from a place in the sections (`Places`) to another, with stuffing only
where a section may begin. The invariant `PInv` says that, while nothing is lost, what was
gathered leads from the beginning of the next section to some place, what is left of the
packet being read leads on from there (`Arrived`), and the packets on the way and the one
being packed lead on to where `sec2ts` is (`OnTheWay`). `WriteLeads` shows that each step
of `sec2ts` only makes the end longer; `ReadPacketLeads`, `HeaderByteLeads` and
`PayloadBytesLead` that each step of `ts2sec` takes from the beginning, and that what it
takes for a complete section is the one that is due (`Gathered`). That `ts2sec` may drop
an octet 0xff only when three are there is why `PInv` has to know that a section has
more than two octets. Paths are joined and split by their places, and where a proof would
need an induction over the bytes, it takes the first place that is wrong (`LeastNumber`).

`CheckedLoopProofs` proves, for any list of well-formed files and any counter modulus,
that a decoder loses nothing and that `tsccc` is silent. The invariant `LInv` has `Known`
for each PID, which relates three views of its last packet: the part of the file that was
read, the tables of `tsloop` (of which `previous_cc_table` forgets it at the end of a
file), and the decoder; and it has that `tsccc` knows the counter that `tsloop` wrote last.
`WhatIsNext` splits what a well-formed file may have next: an original, a copy, or a packet
without payload. At the end of a file the counter goes on from the last one written, and
nothing is known of the one read, so that the first packet of the next file is never taken
for a double.

`CbrMuxerProofs` proves `TypeOK` and `InProportion` for any number of inputs, any
positive bitrates and any files. `InProportion` follows from the choice: the
input that gets a packet has no more of its share than any other. Lemmas state
that a stamped counter is a counter and that stamping keeps the tables. The
refinement says that the mux is, for each input, the loop of `tsloop` with that
file alone. `Own` is what the tables hold of some PIDs; `StampOwn` and `ReopenOwn`
show that restamping a packet and opening a file again read and change the entries
of one PID only, so that they commute with `Own` for the input that is written and
cancel for the others. With two PIDs in a file the second one is not reset when the
file is opened again, which is what the run `CbrMuxer_twopids` shows.

`CarouselBuilderProofs` proves the four properties of the builder for any directory tree,
any sizes and any wishes for ids. The invariant `VInv` has a part for each thing that the
recursion hands on: `BInv` of the builder (module ids are below the next one, the tables by
type and by wish lead to modules, a module that is too large has one message), `StackFits`
(what was bound of a directory on the stack and what is left to visit are its entries, the
first of those left being the directory above it), `KeysFit` (keys of messages
and of open directories are different, and none is above the last key given out in the
innermost directory) and `BindingsFit` (a binding written or waiting on the stack leads to
its object, which no later step moves). The `while` over reserved ids in `__nextModule`
(`file2mod.py:215`) never does anything: `NextModuleOpens` shows that every reserved id is
below the next one, because a wish is granted only above the counter and moves it.

`ShapingProofs` has an argument for each tool of the chain, for any inputs.
- `BufferAndRate`: what one input buffer of `tsnullfiller` gives fits the output buffer
  (`NullsFitBuffer`) and the output keeps its rate to one packet (`RateIsKept`), as long as the
  products of the counters do not wrap (`NoWrap`, a hypothesis at every state: at 13 Mbit/s
  they wrap after 30 hours, and then neither holds any longer). `NullsFitBuffer` does not
  follow from the rate alone, for the buffer also takes what was missing from the buffer
  before. The invariant adds `KeptUpAtRead`, which finds the counters at the last read again
  from how much was copied and put out since: less than a packet was missing then.
  `FillerFitsBuffer` carries it over to the whole chain, in which every step of another tool
  leaves `tsnullfiller` alone.
- `NeverTooOften`: the invariant `Times` says that an entry is due after one repetition
  time for each time it was taken, and that the last of these was due by the highest time
  looked at, whatever is done to the clock. This bounds how often a file was put in since the
  start; it does not keep two insertions apart, for times that were missed are made up for
  at once.
- `NoneFallsBehind`: `NotTooMuch` says that in any stretch of `x` units the timed files ask
  for at most `x` packets besides the first of each (which is what a sum of at most 1 of
  the rates comes to). `Owed(t)` is the set of the packets that are to be read up to time
  `t`, and `EnoughNulls` that until `t` there are null packets for them all, but for as many as
  there are files. Taking the entry that has waited longest takes one out of each such set that
  is not empty; and when no entry is due, what is owed later is asked for from then on.
  Counting sets of pairs in the place of sums makes this a matter of injections, so that no
  induction over the queue is needed.
- `ClockFollowsPosition`: `Pcrs` and `References` keep the position from which the last PCR
  was computed, which is the count before it or, where the count began anew, the PCR
  itself. `FastEnough` says that half of `MaxCount` packets take less time than the PCR
  needs to wrap, which is so from 3.6 Mbit/s on: below, a difference of two PCRs
  modulo the range no longer tells how often it wrapped.
- `StaysInStep`: for a steady input, `Keeps` says in each phase of `tsvbr2cbr` (`Filling`,
  `Flushing`, and `Hanging` when the last packet has a PCR and is taken twice) that the
  null packets written and the time carried over make up the PCR exactly, and the time
  carried is less than a packet. `IsReadable` says that `ReadPcr` reads the PCRs as they
  are, which is so below 2^31 * 300, for 6 h 37 min of the clock: beyond it there is
  nothing to prove, as the divergence at `tsvbr2cbr.c:167` shows.

`PlayoutProofs` proves `NeverTooFast` of `tsudpsend` and `tstcpsend` for any bitrate,
sizes of packets and datagrams and any stream, in the whole composition `Playout`: at
any time no more than a packet was sent ahead of the bitrate, also when the clock was
set back to a time after the start. Here too the products must not wrap (`NoWrap`: 21
days at 10 Mbit/s; then the product of what was sent wraps first, and until that of
the time does so as well, every packet is due). The invariant adds that the clock shows at most the latest time it
has shown, that no more bytes were sent than were counted (a short read counts as a
whole packet), and that the last chunk was due when it was sent. The theorem takes a
set of bytes `B` that has those of the file and of an unset buffer.
It also proves `OnlyTimeoutsMixPackets` of `tstimeout` for any stream of packets and any
reads: `Follows` says that what is in the buffer is a part of one packet and that the
input goes on with the rest of it, unless a timeout came in the middle of a packet.

The largest proof is that of `SeamlessSwitch`, of everything between `tsdoubleoutput` and
what `tsinputswitch` writes: any packet size and stream, datagrams of any number of packets,
and pieces of any size over the connection. All places are counted in one stream, `StreamAt`:
the file and its last packet once more, which `tsdoubleoutput` writes at the end. `Part(q, a, b)`
says that `q` is the piece of it from `a` to `b`. `Path1(x)` then says that the input of the UDP path, its
datagrams on the network (`OnNet`) and its pipe are consecutive pieces from `x` to what
`tsdoubleoutput` has written, and `Path2(x)` the same of the TCP path. The heart of the
invariant is `InStep(x)`: at the beginning of a round both inputs are read up to the same
place, and in between one of them is a packet ahead. That needs care at the end only: the TCP
input has ended when all of the stream came through it, and then nothing more can come
from the other, so that a `byte_read` of 0 never makes the switch go on with half a round. `x` is counted in
`writes`, which the switch increments with each packet it writes, so that the packet written as
the n-th is the n-th of the stream: an immediate repetition would show too. A lost datagram and a choice that reads one
input only put the inputs out of step for ever (`odd`), and the property promises nothing
from then on.

`PackagingProofs` has an argument for each tool of the packaging.
- `AudioIsInTime` is about the bitrate in whole bits: the two bounds on a frame are in the code's
  own products, one with `bitrate` and one with `bitrate + 1`, so that what the fraction makes
  over many files (late by at most one bit per second since the start) is part of what is
  proved. `Ahead` is what was sent before the first frame of the file, found from the
  packets and the number of frames at any moment. `StartsInTime` says that this frame is sent
  before its time and at most two packets before; each later frame takes as many packets as its
  time asks for, so that nothing changes until the file ends. There `FileStarts` says that null
  packets bring the next file to the same two bounds, whatever `left_packet` carries over.
- `AudioKeepsStep`: `pts_offset` is always a multiple of a video frame, and so is the end of a
  video; `RoundsToVideo` says that the next video frame after the last audio frame is that end.
- `EveryByteArrives`: `Chunk` is what was read and not sent: the packets that wait, the packet
  being filled and the look-ahead buffer. Each step either adds one token to its end or takes
  from its beginning what it writes (`VideoMoves`). For that, `Chain` has to know which of these
  parts are empty in each phase of the loop, that a header is at the beginning of a packet or in
  the look-ahead buffer, and that a header of two tokens is never split. That the code finds
  each header before it goes to the packet rests on what a file is: `SoundFile`
  says that one header does not follow another and that a file does not end with one.
  `PesIsSound` proves it of everything that `esvideo2pes` writes.
- `TheBufferHolds`: `es_input_bytes` counts headers until they are found, and `Counted` says that
  it is what was read, and those headers. `Filled` says that what was put into the buffer is what
  had been read at the packet before (`es_input_bytes_old`) less what waits, and finds the frames
  that were taken from what left it. The buffer's size then bounds what is in it, one packet at
  a time. This is exact but for two places, where the code is not: the single byte that gets a
  packet of its own, and a frame that is taken to end with the look-ahead buffer, which holds
  more than the shorter header.
- `EveryFileIsKept` is an induction over the tokens of a stream. `Holds` says that what
  `esvideo2pes` has written without the headers, and what it holds back, is what it has read
  (for `Closed`, which has one picture more when a stream ends in a header), and where it
  exited a sequence header follows with no picture near enough;
  `Timely` finds its times from the pictures and sequence headers it has read. `pts_limit` is
  looked at with the size of the second group alone, which is why groups have to be of one size.
  For `pesdata2ts`, `DataSound` says the same of its packets and of the one being filled.
- `TimesGoOn`: until the step is known, `Place` says how much of the first file was sent and that
  `Chunk` is what follows there, so that the first two headers that are sent are those of the
  file (`PlaceMoves`), also when the loop has long gone on to the next file. From then on,
  `Learned` says that `pts_delta` is the step and the last time written is `pts`
  (`SendLearns`), and arithmetic modulo 2^33 does the rest (`NextTime`). That the first two
  headers of a file are a step apart is an induction over the tokens of its stream
  (`StreamSteps`), in which a second picture that is a B picture has to be excluded: its header
  has no decoding time, and `pesvideo2ts` would learn from its presentation time. So is a
  header before it on which `esvideo2pes` exits.

The model computes these things with recursive functions over a stream, of which TLAPS knows
nothing. Here a function with a given step is shown to exist on every interval
(`Recursion`, `EsExists`, `SumExists`), and with it `ScannedIs`, `EsOfIs`, `FlattenIs` and `TotalIs`
unfold the definitions; each induction is over a set of numbers (`Counting`, from the least
number outside of it), so that no theorem with an operator parameter is needed.

## Divergences found

Shown by a violation run, and quoted in `PROJECT.json`:
- a stale cached block keeps the receiver incomplete for ever (`module.c:57`);
- `tscbrmuxer` restarts only one PID of a file (`tscbrmuxer.c:165`);
- `tsvbr2cbr` writes null packets for ever when the PCR goes back, also at its
  wrap, or when the last packet has one (`tsvbr2cbr.c:190`); and a sound PCR is read as
  one that goes back when its base reaches 2^32, for the first byte is shifted as a
  32-bit int (`tsvbr2cbr.c:167`).

Found while the code was modelled, and quoted there without a run of their own:
- a module dropped by an update keeps the receiver incomplete too (`carousel.c:109`);
- `ts2sec` puts out joined sections after a loss (`ts2sec.c:94`);
- `tsccc` accepts one double packet per PID and stream (`tsccc.c:84`);
- `file2mod` calls the next free id in use (`file2mod.py:171`);
- `esvideo2pes` takes every stream for one of 25 frames a second (`esvideo2pes.c:148`);
- `pesvideo2ts` without `loop_on` never ends (`pesvideo2ts.c:592`);
- `esaudio2pes` takes its optional arguments one place too early (`esaudio2pes.c:92`);
- `tsinputswitch` forgets its default choice (`tsinputswitch.c:118`).

Observations without a run: after completion `read_dsi_dii_tables` still lets
DDBs through (`table.c:109`, 0x3C & 0x3B is not zero), so a DDB of the next edition
can delete a module while `completed` stays set until the next DII; "Section too
big skipped" (`sec2ts.c:89`) in fact ends the run, because `main` takes the NULL for
the end of the input (modelled in `Available`).
`tsnullfiller`, `tsnullshaper`, `tspcrstamp` and `tsdoubleoutput` do not look at how much
the last read returned and write old packets again at the end of the input.
`oc-update.sh` leaves the looped file empty for a moment (`oc-update.sh:88`), and
`tsloop` exits when it opens the file then (`tsloop.c:75`). `tsoutputswitch` opens a fifo
again at once after closing it (`tsoutputswitch.c:130`): a reader that is still there
sees the end and may leave afterwards, and the next write kills the switch with SIGPIPE.
A clock set to before the start makes the paced senders send all at once
(`early` in `NeverTooFast`). `tstimeout` mixes a backup packet with a late one when
the timeout comes in the middle of it (`OnlyTimeoutsMixPackets` says that nothing
else does), and is silent once its input has ended. `tsinputswitch` with a choice
that reads one input only gets out of step with the other, and repeats the last
packet for a digit above 3. `esvideo2pes` drops the last bytes of a file and
treats the first picture as if its temporal reference were 0; it exits without printing a
length when what is before a picture fills `header_buffer` (`esvideo2pes.c:272`), and writes
a byte it did not read when a file ends there. `pesvideo2ts` sends
null packets for ever when a frame is larger than the receiver's buffer, takes a
frame from it slightly before its last packet is sent, and learns a step of 0
from a first file with one frame. Its `vbv_diff` (`pesvideo2ts.c:175`) converts a double
that may be negative to an unsigned number, which C leaves undefined, and the product at
`pesvideo2ts.c:167` wraps before the PCR does above about 7.16 Mbit/s; the model has the
wrap of the clock alone. After its two recursive calls `send_current_packet` goes through
lines 388 to 411 once more, which does nothing when a frame takes at least the time of a
packet, and is left out. `pesaudio2ts` cuts its bitrate to whole bits (`pesaudio2ts.c:329`),
so that the places of its null packets are up to one bit a second short of the
rate of its frames; it reads the `.length` file of the
file just closed, sends the end of a file's last frame after the null packets,
and does not restamp padded frames; its reopening of fifos is off by one.
`tspcrstamp` adds `PcrOffset` bytes of time at each rebase.

## Only model-checked

- Liveness, which is out of the prover's reach: `GetsCompleteUnlessStale`,
  `FairToTheReceiver`, `AllDelivered`, `EndsOnSoundPcrs`, `ReadsItsOwnFileAgain`,
  `StaysOnAir`, `EveryFrameIsSent`.
- The files that `tsfixcc` makes are well formed in the run `CheckedLoop`; `FixedFile` is a
  recursion over a file with a table in it, so that the theorems take well-formed files as they are.

## Not modelled

- Bytes: the layouts of tables and descriptors (`libs/dvbobjects`), CRCs, printing.
- `vbv`, `tsstamp` and `pesclock`, which were read. `vbv`
  reports on the buffer of a stream and changes nothing; `tsstamp` moves the times
  of a stream by an offset; `pesclock` has a part that is announced and not written.
- Of `pesaudio2ts`: fifos, whose reopening uses the wrong indices and closes files
  that are not open, and padded frames.
- Short sections in `dsmcc-receive` and short files in `tscbrmuxer`, which need a model
  in bytes. Short reads are modelled in the shaping, playout and packaging tools.
- The wrap of the products in `tsnullfiller` and in the paced senders, whose absence is
  a hypothesis of their proofs.
- The names of files and links that `fs.c` makes, and the DSI's content.
- Packet filters and printers, which keep no state from packet to packet.
- The Java extras: example applications and a vendored parser.

## Plan

Done, in the order of importance: (1) receiver and its abstract specification,
(2) broadcast chain, (3) section link, (4) loops and continuity, (5) multiplexer,
(6) builder, (7) null packet tools, (8) paced senders, (9) switches and timeouts,
(10) PCR stamping, (11) video and audio packaging, with the proofs above.

Next:
12. `CarouselFiles`: `fs.c` and `biop.c` on directories and links, composed with
    `CarouselBuilder`: what was marshalled is what is found. Operators for the
    section numbering of `dvbobjects`.
13. Proofs: that the files of `tsfixcc` are well formed.
14. `tsstamp` behind `PcrStamp`, and the byte-level reader of sections.

The tools are composed several to a run, so that each run stays one question.
