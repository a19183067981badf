# Models of embassy_telemetry_tool

TLA+ models of the fault-injection bench in this repository, checked with TLC
and, for all the safety properties that hold, proved with TLAPS. Every definition is translated
from the code; `PROJECT.json` names the lines each one stands for. Paths below
are relative to `src/`.

## 1. The system

A host program (`host/`) runs campaigns against a fault injector over a serial
line. The injector sends numbered measurements at a fixed cadence, spoils some of
them on purpose, and announces each fault it injects. The host parses the bytes,
runs a detector over the frames *without* looking at the announcements, and
scores the detections against the announcements at the end. A simulated injector
(`--sim`) stands in for the hardware. The firmware (`firmware/`) samples analog
inputs and sends packets, and has a boot sequence, a self-test and a USB link.

| component | state | operations | talks to |
|---|---|---|---|
| wire format (`shared/src/lib.rs` 13-204) | none | encoders, field readers, `crc8` | everybody |
| `FrameParser` (`lib.rs` 207-289) | a buffer of 20 bytes | `push`, `extract` | called once per byte by `parse_stream` and by the simulator |
| detector `Dut` (`host/src/dut.rs`) | last number and time, run of junk, burst flag, detections | `process` | called by the campaign for every frame |
| scorer `score` (`host/src/campaign.rs` 100-198) | a cursor into the detections, counters | match, count | reads the lists of the finished campaign |
| host tasks (`main.rs` 112-213, `campaign.rs` 65-98, `link.rs` 36-56) | two bounded channels, the receiver that changes hands, the result channel | reader, `parse_stream`, `handshake` with its timeout, `campaign::run` | each other, by the channels; the port |
| simulated injector (`link.rs` 58-222) | the campaign engine `SharedCfg` | one pass of the thread: a chunk of control bytes, then one slot | the host, by two bounded channels |
| analog sampler (`firmware/src/analog.rs`, `transport.rs`) | averages, packet, number, clock | one pass of `adc_task` | DMA ring, UART |
| USB link (`firmware/src/usb/mod.rs`) | packet channel, connection, the packet in hand | `host_loop`, `handle_command` | producer of packets, host |
| boot, MPU, canary, self-test (`firmware/src/main.rs`, `mpu.rs`, `canary.rs`, `bist.rs`, `health.rs`, `fault/mod.rs`, `sco/adc_capture.rs`) | protected regions, the words of RAM that are checked, result code | `mpu::init`, `canary::init` and `check`, `bist::run`, `telemetry_loopback`, the command loop | the memory, by address; the host, by the code |
| report, command line, port discovery, timers (`report.rs`, parts of `main.rs`, `digital.rs`) | none | output | - |

What is hard here, and what makes each part correct:

- **Parser.** A stream cut at any byte, a length byte that lies, a buffer of
  bounded size, one outcome per call. Correct: every byte is settled once, in
  order, under the right verdict, and no outcome is left waiting in the buffer.
- **Wire.** Hand-counted offsets on two sides, a check byte that must cover
  length and kind. Correct: fields survive, damage shows, the receiver stays in
  step.
- **Detector.** Junk, unverified frames and foreign kinds between measurements, a
  flag that is set by one frame and tested by a later one, numbers that wrap.
  Correct: one detection for each anomaly, none for anything else.
- **Scorer.** A one-way cursor over detections and a greedy choice. Correct: no
  detection counted twice, none missed that an ordered match would find, totals
  that add up.
- **Host tasks.** Bounded channels in a row, a receiver handed from the
  handshake to the campaign while frames keep coming, a timeout that races the
  answer. Correct: no frame lost or reordered, the handshake ends, an END leads to
  a report.
- **Simulated injector.** Backpressure in the middle of a slot, START and ABORT in
  mid-campaign, the host hanging up. Correct: what is emitted is in order and
  true.
- **Bench.** A dropped, doubled, late or spoiled frame looks to the detector like
  nothing but its effect on numbers and clock. Correct: what it says of replays
  and drops is what the injector did.
- **USB link.** A cable that is pulled at any await, a packet taken out of the queue
  before it is written, a write that returns before the host has the packet,
  commands between packets, errors swallowed in one place and propagated in
  another. Correct: packets in order, at most two losses for each connection that
  ends (in the endpoint and in hand), queries answered by their own replies, a
  pulled cable noticed.
- **Boot and self-test.** Safety features whose order and addresses must fit: a guard
  region, two canaries, a stack that may get deep, checks of which the first
  failure hides the rest. Correct: an alarm is a fault, a fault an alarm, and the
  code names what failed first.
- **Sampler.** Reads of any length, odd ones too, stale averages, readings that
  are left out. Correct: each sample is the average it claims, at the time it
  claims.

`PROJECT.json` lists the hazards one by one, at the line where each bites, with
the properties that would catch it.

## 2. The modules

| module | models | uses |
|---|---|---|
| `Pipe` | abstract: what a chain of queues and tasks promises its two ends | - |
| `FrameOps` | `encode`, `push`, `extract` as operators on byte sequences | - |
| `ByteSplitter` | abstract: what a streaming parser promises over the whole input | `FrameOps` |
| `FrameParser` | the parser under any stream; one action, `Push` | `FrameOps`, `ByteSplitter` (refinement) |
| `Wire` | the encoders and field readers, with the real CRC-8 and byte order | `FrameOps` |
| `SerialLine` | sender, a line that damages a byte, receiver | `Wire` |
| `Resync` | the receiver, given a burst of garbage and one frame | `SerialLine` |
| `DutOps`, `Dut` | `Dut::process`; the detector under any stream of frames and times | - |
| `Score` | both passes of `score` over any two lists | - |
| `InjectorOps` | one slot of `SharedCfg::run_next`: what is sent, how the engine moves on | - |
| `SimLink` | the simulator's thread, its channels and a host that sends anything | `InjectorOps` |
| `Host` | reader, parser task, handshake, campaign task and their channels | `Pipe` (refinement) |
| `Bench` | injector, line and detector together, in time | `InjectorOps`, `DutOps` |
| `SamplerOps`, `Sampler` | averaging and packets; the loop of `adc_task` | - |
| `UsbLink` | the USB task, its queue, the host and the cable | `Pipe` (refinement) |
| `Boot` | `main` from reset to its command loop, `bist::run`, the telemetry loopback | - |
| `FrameParserProofs`, `SerialLineProofs`, `DutProofs`, `ScoreProofs`, `SimLinkProofs`, `HostProofs`, `BenchProofs` | theorems and proofs | their component |
| `FirmwareProofs` | theorems and proofs about the three parts of the firmware | `Boot`, `UsbLink`, `Sampler` |
| `MCFrameParser`, `MCSerialLine`, `MCScore`, `MCSimLink`, `MCHost`, `MCBench`, `MCBoot`, `MCUsbLink`, `MCResync` | values of the constants for TLC | their component |
| `MCSimulator`, `MCEnds`, `MCReceiver`, `MCFirmware` | two or three components in one run (section 3) | the modules above |

How state and actions correspond to the code:

- A variable of a task that lives across an `await` or a blocking call is a
  variable of the model; locals of one call are `LET`s. A bounded channel is a
  sequence with its capacity as a constant, and a send to a full one is not
  enabled. In `Host` and `SimLink` an action is what a task does between two
  points at which it can wait. In `UsbLink` it is a step of the task; what another
  future of the same executor does (`PlugIn`, `Unplug`, `Produce`) happens only while
  the task is at an await (`Suspended`); the host and the endpoint's hardware
  (`HostSends`, `Poll`) do not wait for that. In `Boot` it is a step of `main` or one
  check. In `FrameParser`, `Dut`, `Score` and `Sampler` an
  action is one call of the operation, or one row of the loop.
- Variables marked *history* in a module (`input`, `arrived`, `fed`, `heard`,
  `stream`, `slots`, `lateness`, `packets`, `reads`, `received`, ...) record the past for the properties; no
  guard but a bound reads them.
- Operators under a comment "Mutant of ..." are faulty versions of the definition
  named, one for each property that holds. No specification uses them. Putting one
  in the place of the original makes TLC find its property violated
  (`PROJECT.json`, "mutants").

What is abstracted, by module:

- `FrameParser` leaves alphabet, sync byte, payload bound and check sum open.
- `Dut` sees of a frame the kind, the number and whether it verified; times are
  whole milliseconds.
- `SimLink` and `Bench` draw the kind of a fault nondeterministically from those
  with a weight above zero: the values of the generator `Lcg` are not computed.
  In `SimLink` a chunk is the control frames that verify in it, of any kind. The
  code's own parser lets fewer through: a PING or an ABORT never verifies and a
  START by coincidence only (finding 1), so the model has more behaviours than the
  code and its safety properties cover them.
  The history `stream` of `SimLink` begins with the last START and leaves out the
  PONGs, which belong to no campaign.
- `Host` replaces each byte by what the parser says when it is pushed (`Silent`,
  if nothing). A read may return any number of such bytes up to `MaxChunk`. The
  writer thread of `open_real` only empties the outbound channel and is left out.
  `None => break` (`campaign.rs` 82) and "frame channel closed" (`main.rs` 178) have
  no action: the channel closes only when the parser task ends, and that needs the
  reader to drop its sender, which it holds while the port is open.
- `Bench` gives each frame one of three fates: read, failed its check, or fallen
  apart into junk. Damage to the kind byte is not among them, the junk of a burst
  is one `Garbage`, and the END comes once. The byte that the parser leaves
  behind every frame (finding 1) is one `Garbage`, as in the code. The other half
  of finding 1, that nearly every frame fails its check, is *not* assumed: each
  frame may verify or not, as long as the bound `MaxSpoiled` lasts.
- `Sampler` takes the number that the DMA ring returns for the number of
  measurements read. `SamplePacket` is not in the repository: it is taken to be a
  list of bounded length that ignores a push when full, which is how `analog.rs`
  uses it. `sample_count` wraps, as in a release build (with overflow checks the add
  would panic); only a log line reads it. What becomes of a packet on the UART is ignored by the code and here. A
  count has twelve bits (`ReadAssumption`), as `counts_to_mv` takes for granted.
- `UsbLink` numbers the packets and forgets the rest of them, but for whether they
  fit the 64 bytes of the class: the endpoint refuses those that do not, and any of
  its errors is taken for a disconnection (`usb/mod.rs` 50-54). A write returns once
  the packet is in the endpoint, which holds one; the host polls it from there, and a
  cable that is pulled before loses it. Who fills the channel
  is not in the repository: any producer that waits for room. `read_packet` is taken
  to be awaited; as written (`usb/mod.rs` 128) it is not, and does not compile.
- `Boot` keeps of RAM only the words that somebody reads back, and of a value only
  whether it is the pattern last written. A call of `main` leaves its frames on the
  words down to its depth. A bad word keeps nothing; `enforced` says whether the
  protection unit applies to the code that runs (it does if the switch to
  unprivileged mode in `mpu.rs` 74 has its effect). How many injectors misbehave in
  the stability check is a choice. `main.rs` never calls `bist::run` and nobody
  calls `telemetry_loopback`: both are modelled for a caller that runs them where
  `bist.rs` 3-9 says, or from the loop. That caller goes on after a failure, where
  `bist.rs` 8-9 says that the firmware halts: there is no code to decide it. The
  case `stack_top == 0` of `health.rs` 40-42 is dropped: the linker's symbol is never 0.

## 3. The runs

| run | instance | states | checks |
|---|---|---|---|
| `simulator` | *parser*: 5 byte values, payload up to 2, 7 bytes | 97 656 | `BufferShape HoldsTail SplitsItsInput` |
| | *simulator*: campaigns of 1 and 2 slots, 4 chunks, channels of 2 | 149 891 | `NumbersInOrder NoticeFollowsItsFrames EndIsTrue ReturnsToRecv` |
| `ends` | *serial line*: 12 frames, sent in pairs, 11 masks on any byte | 21 049 | `DamageShowsInCrc FieldsSurvive ReadsKind InStep` |
| | *scorer*: up to 3 truths and 3 detections, two cadences | 265 720 | `EachDetectionOnce GreedyIsComplete MissedWereTaken EveryFaultCounted` |
| `receiver` | *host*: channels of 1, reads of 1 or 2, 5 items of traffic | 330 544 | `CampaignFollowsPong EveryFrameAccounted StopsAtFirstEnd NothingLost EndIsReported` |
| | *detector*: numbers modulo 3, on time and late, 5 frames | 579 195 | `DetectionsExact DetectionsInOrder FlagHidesNoBurst RemembersLastMeasurement` |
| `bench` | 3 slots of 6 kinds, stalls of 0, 19 or 20 ms, 2 spoiled frames | 1 201 567 | `ReplaysExact ReplaysAreInjected DropsAreCovered TruthsAreTrue LatesHaveACause` |
| `firmware` | *boot*: 2 depths of `main`, 3 of a call, 4 words, 12 readings | 169 232 | `NoFalseAlarm CodeNamesFirstFailure` |
| | *USB link*: a channel of 2, 4 packets of which 1 is too long, 3 commands, 2 disconnections | 132 855 | `GapsOnlyAcrossUnplug TwoLossesPerUnplug DeliversInOrder UnplugNoticed CommandServesQueue` |
| | *sampler*: packets of 2, 4 reads of 0 to 3 counts | 54 241 | `SamplesTraceable OverScaleOnlyOdd` |
| `round_trip` | *serial line* as above, no damage | 52 | `RoundTrip`: **violated** |
| `resyncs` | the garbage of the test, with and without its last byte | 41 | `ResyncsAfterGarbage`: **violated** |
| `sim_ends` | one START, capacities of the code | 23 | `CampaignEnds`: **violated** |
| `delays_late` | *bench* with no stall and nothing spoiled | 59 | `DelaysAreLate`: **violated** |
| `fault_is_overflow` | *boot* as above | 6 146 | `FaultIsOverflow`: **violated** |
| `overflow_shows` | *boot* as above | 127 961 | `OverflowShows`: **violated** |
| `nominal_reading` | *boot* as above | 15 382 | `NominalReadingPasses`: **violated** |

Components that share no state are checked two or three to a run: `MCSimulator`,
`MCEnds`, `MCReceiver` and `MCFirmware` let each move while the others rest where they
start, so that a run's states are those of its components added up, and no
behaviour of any of them is lost. The states of a violated run are those seen up to
the violation.

What each says in words stands above its definition in the module.

Why the bounds are enough:

- *Parser.* The longest frame is 5 bytes, so 7 bytes hold a whole frame with junk
  on either side, or a rejected length and a frame. As in the code
  (0x7E > 16), SYNC is itself an absurd length (3 > 2), and there is an absurd
  length that is not SYNC. The proofs cover every other instance.
- *Serial line.* The second frame of a pair shows the state that the first left
  the parser in. The fields are at the ends of their ranges, and some frames are
  there for their check byte: one whose last payload byte equals its check sum, two
  that end in the sync byte, one that contains it.
- *Detector.* Modulo 3 a number can be equal to the last, the one expected or
  another, and wraps. Five frames hold two runs of junk with frames around them.
  The delays are just below and just at the late budget of 9 ms.
- *Scorer.* Numbers modulo 16 make a circle on which two numbers can be at most
  two, or more than two, apart, on either side of the wrap. Three truths and three
  detections are the smallest lists on which a greedy choice can go wrong twice.
- *Simulator.* Channels of 2 fill up within the three sends of a replayed slot.
  Four chunks allow a campaign, an ABORT or second START in it, and its end.
- *Host.* Channels of 1 block at once; longer ones only block later. Five items
  hold a PONG, a notice, a frame and two ENDs.
- *Bench.* Three slots are the least with a fault between two good measurements;
  two spoiled frames can hide both neighbours of a fault. At a cadence of 5 ms a
  stall of 20 ms brings a measurement to the late budget of 25 ms, one of 19 ms just
  misses it, unless the slot is delayed too. The proofs cover every other bound.
- *Sampler.* Counts 0 and 4095 give the zero reading and full scale; reads of 0 to
  3 give none, stale, even and odd. The clock counts modulo 800 and each measurement
  takes 100, so that it wraps within four reads in some runs and not in others.
- *USB link.* Two disconnections hit two of: an idle read, a packet, a reply. A
  channel of 2 holds one packet behind the one in hand and fills up; 4 packets and 3
  commands let a connection end with packets in the endpoint, in hand, queued and
  still to come, and the second packet is refused. The proofs cover every other
  bound.
- *Boot.* `main` may run inside the guarded kilobyte or below it; a call may reach
  nothing new, the canary of the self-test, or all of RAM. The readings are on both
  sides of every limit of the loopback.

Deadlock is not checked where the modelled system may stop (the stream ends, the
process exits, the scorer is done); each `.cfg` says which.

**Fairness.** `SimLink` assumes weak fairness of the thread and of the parser task
together with their schedulers: an OS thread and a tokio task that can run do run.
It assumes nothing of the host's sending. `Host` assumes weak fairness of the
parser task, the main task and the campaign task, and that a second passes
(`HandshakeTimeout`); nothing is assumed of the port, so no property says that an
answer or an END arrives. `UsbLink` assumes weak fairness of the USB task, which its
executor polls when it is woken, and of `Poll`: a host that stays connected takes what
the endpoint holds. Nothing is assumed of commands, packets and the cable. The other
specifications are safety only.

## 4. What the runs show about the code

Seven things that the repository states are **violated** by its code:

1. **`RoundTrip`** (`shared/src/lib.rs` 269). The parser waits for `3 + plen`
   bytes where a frame has `4 + plen`, and compares the last payload byte (or the
   kind, if there is no payload) with the check sum. A frame put in whole comes
   out as `BadCrc` and its check byte as `Garbage`, unless the two bytes happen to
   be equal. The header of the file and the test `encode_decode_sensor_roundtrip`
   (303-326) say that it comes out as a frame. `ReadsKind` and `InStep` state what
   does hold: the kind is still read, and the parser gets back in step unless the
   check byte is 0x7E. The proofs about `FrameParser` are about the parser as it is:
   "framed" in `ByteSplitter` means as long as the *parser* takes a frame to be.
2. **`ResyncsAfterGarbage`** (`lib.rs` 265). A SYNC at the end of the garbage takes the
   SYNC of the next frame for its length, which no payload has, and both are dropped:
   the rest of the frame is garbage. The test `parser_resyncs_through_garbage`
   (329-342) ends its garbage in a SYNC and asks that the frame behind it be found.
   It is not, verified or not. `SplitsItsInput` holds all the same: `ByteSplitter` counts
   such a pair as junk, as the code does, and its comment says so.
3. **`CampaignEnds`** (`host/src/link.rs` 89). The simulator runs one slot for each
   chunk it receives and waits for the next chunk; the host sends no chunk after
   START. A simulated campaign of any length never sends its END. (The model starts
   from a START that verifies. In the code hardly any does, by finding 1.)
4. **`DelaysAreLate`** (`host/src/dut.rs` 90). A delayed measurement comes three
   cadences after the one before it, and the late budget is four cadences and 5 ms:
   an injected delay is not flagged. The comment (`dut.rs` 86-88) says that delayed
   frames hop six cadences, far above the budget. `LatesHaveACause` states what does
   hold; by the theorem `LateMeansStalled` no delay is ever flagged by itself.
5. **`FaultIsOverflow`** (`firmware/src/main.rs` 50). `mpu.rs` 67 makes the last
   kilobyte of RAM inaccessible, and that is where `main`'s stack begins and where
   `canary.rs` writes. With the guard in force the firmware faults with no overflow;
   `mpu.rs` 36 has the guard detect overflows, and `main.rs` 20-51 goes on with guard
   and canary. By the theorem `GuardStopsBoot` that is so on every board: a firmware
   that reaches its command loop has no guard.
6. **`OverflowShows`** (`canary.rs` 6, `health.rs` 47). A self-test that runs behind an
   overflow which both canaries were in place for passes, and main's canary is
   intact. The canary of `main` is above the stack, and that of the self-test is
   written by the check that reads it. `canary.rs` 1 and `health.rs` 35-38 say that
   each detects an overflow; here neither does. By the theorem `CanariesSeeNoStack`
   neither ever does: an alarm is a bad word.
7. **`NominalReadingPasses`** (`sco/adc_capture.rs` 57). The loopback computes its
   temperature from the reference voltage: the nominal reading of `adc_capture.rs`
   3-7 gives -155 degrees and fails. By the theorem `LoopbackNeverPlausible` no
   reading passes both tests.

Properties that **hold** and that a reader of the comments may not expect:

- `MissedWereTaken` and `GreedyIsComplete`: the scorer's one-way cursor misses what
  only a match *out of order* would find. On the lists of the test
  `all_faults_detected_in_calibration_set` (`campaign.rs` 221-245), where two
  detections are out of the order of their injections, that makes six of seven; the
  test asks for all of them.
- `TwoLossesPerUnplug`: a pulled cable may lose a packet whose write has returned, and
  the one in hand with it.
- `GapsOnlyAcrossUnplug`: a packet of more than 64 bytes is lost with the cable in, and
  ends `host_loop`.
- `UnplugNoticed` and `CommandServesQueue`: what a silent host receives are packets
  that a drain behind a failed read writes when the cable is back, and no others,
  though the channel be full (`usb/mod.rs` 128). A cable that is pulled
  is noticed by a failing write only: with an empty queue the task turns for ever
  without an await that suspends it.

## 5. What is proved

All for every value of the constants that satisfies the named assumptions.

**`FrameParserProofs`**, from `FrameAssumption` (bytes are naturals, SYNC is
one of them, the payload bound is a natural; nothing about the check sum) and
`MaxBytesAssumption`. The inductive invariant is
`Inv == TypeOK /\ BufferShape /\ HoldsTail`. `BufferShape` is what makes the
parser work: an open buffer is shorter than a frame (`OpenIsShort`), so `push`
never drops a byte (`NeverFull`), and contains nothing to report
(`NeverOwes`). `HoldsTail` ties the buffer to the input. A push then has three
outcomes, those of `ByteSplitter` (`PushCases`), and `SplitsInput` proves that the
parser implements it, with the cut placed at `Len(input) - Len(buf)`.

**`DutProofs`**, from `ModulusAssumption` and `DutAssumption` (kinds are bytes other
than 255, which `parse_stream` gives to junk). The relation `Extends` says that one
frame only appends detections, all of that frame; it holds of `Record`, `CloseRun`
and `Measure` and so of `process` (`ProcessExtends`). The invariant `DutInv` adds
to the properties that every detection is of a frame that has come (needed for
`DetectionsInOrder`) and that the set of measurements seen has a last one
(`HasLast`, needed because `LastBefore` chooses it). Proved: `TypeOK`,
`DetectionsInOrder`, `FlagHidesNoBurst`, `RemembersLastMeasurement`, and
`DetectionsExact` from the invariant `ExactInv`: the list of detections holds
each element of the set `Deserved` once (`Lists`), junk is pending as long as the
newest frame is junk, and the look at the past is well defined at every frame.
`Deserved` is split into what each frame deserves (`DeservedByFrame`); a frame that
comes changes nothing for the earlier ones (`DeservedStays`), which is why a
list that was exact stays so, and adds what `process` records for it (`ExactNext`).

**`ScoreProofs`**, from `ScoreAssumption`. `CursorBehindMatches` gives
`EachDetectionOnce`. For `GreedyIsComplete` the invariant `KeepsUp` says of *every*
match in order that the cursor has not yet passed the detection it has for any
truth to come: the first detection that fits is never behind the one that match
would use, so the greedy choice leaves at least as much room. `MissedWereTaken` is
inductive beside `CursorBehindMatches`, which keeps the cursor at the last credit.
`EveryFaultCounted` speaks of the end of the second pass only; `CountInv` says of
every row of it that the totals and the row of each kind are those of the rows
counted so far, that counting begins after matching, and that no physical fault
is ever matched.

**`HostProofs`**, from `HostAssumption`, for channels of any capacity. `TypeOK`
says what the channels carry; the rest of the invariant ties the steps of the two
tasks to each other (`Alone`), to what was heard (`PongSplits`), sent (`Sent`) and
consumed (`EndsOnce`), and to the result (`OneResult`), without which `Report` could
come before the campaign is over. Proved: `CampaignFollowsPong`, `StopsAtFirstEnd`,
and `EveryFrameAccounted`, which states what went to the detector by the ranks of
the frames consumed (`ForDetector`, `Noticed`): it is inductive with the types of
the two lists, because a frame's rank does not change with the frames behind it.
`HostLosesNothing` is the refinement of `Pipe`: what was put is the frames of all
bytes read, what is inside is the frames queued, those of the chunk in hand and those
of the chunks queued, what was taken is what the tasks consumed. The mapping filters
and flattens, so it needs facts about data of any length: that filtering distributes
over concatenation (`FramesOfConcat`), that flattening takes chunks off the front and
adds them at the back (`BytesOfHead`, `BytesOfAppend`). They are proved by induction,
stated of a set of naturals (`SetInduction`, from the least element that
`Least` takes from the well-foundedness of `<`), and `Recursion` says that the
recursive functions they are about exist. `FlightInv` adds to `Inv`
that a task that can still consume has not dropped the receiver. Each step of the
port, the parser and the tasks is then a `Put`, a `Take`, a `Close` or a stutter
(`PipeStep`).

**`SimLinkProofs`**, from `SimAssumption` (channels of at least one place; a chunk is
any sequence of control frames, a START with any configuration). A slot is sent
frame by frame while its counters have already moved on, so the properties are
stated of `Emitted`, what was sent and what the thread has yet to send.
The inductive invariant says that while a campaign runs the counters of the
engine are those of what it emitted (`Knows`: the numbers 0 to `seq - 1`, as many
notices as `fault_id`, no END yet), that it is the campaign of the last START, and
the three properties themselves. A step that emits appends the frames of one slot
(`SlotFrames`) or an END. Proved: `NumbersInOrder`, `NoticeFollowsItsFrames`,
`EndIsTrue`.

**`BenchProofs`**, from `BenchAssumption` (a campaign of less than 65536 slots, as its
16-bit field allows, any cadence, mix of faults, stalls and number of spoiled
frames). The invariant has two halves. `LineInv`: the engine has counted the slots
and their faults (`Engine`); what is still to arrive is of the slot being sent, its
notice last (`Arriving`), a second measurement of it only in a replay
(`SecondIsReplay`); measurements are read in order (`ReadInOrder`); the detector
compares with the last one read, at the time of its slot (`Compares`), which is what
junk, failed checks and notices in between must not disturb (`Keeps`); gaps,
replays and delays are flagged for exactly the measurements that show them.
`TruthInv`: the notices heard are true and behind the engine. Proved:
`ReplaysExact`, `ReplaysAreInjected`, `DropsAreCovered`, `TruthsAreTrue`, and
`LatesHaveACause` from the stronger `LateIsStall`: a measurement in turn is flagged as
late only if its slot stalled.

**`SerialLineProofs`**, from `LineAssumption`: the fields of what is sent have the
widths of their types in the code, and damage is the exclusive or with a byte that is
not 0. Any number of frames and of damaged ones. The properties rest on four groups of
facts. *Bytes*: the exclusive or is one-to-one in either of its arguments
(`XorCancels`, bit by bit), a shift of the check sum is (`ShiftIsOneToOne`, its
polynomial is odd), hence its table is (`CrcOfByteIsOneToOne`). *Sums*: `crc8` is the
last of a sequence of partial sums (`CrcExists`), and of two sequences of bytes that
differ in one place it makes different sums (`CrcTells`), because the partial sums
differ from there on. *Frames*: each encoder makes a sequence of bytes from which the
field readers get back every value (`Word16`, `Word32`, `MessagesWellFormed`), and
this gives `FieldsSurvive`. *Parser*: of a frame it keeps every beginning shorter than what it takes
for a frame (`ExtractBeginning`), says one thing at the last but one byte
(`PushFrame`), and finds itself empty at the check byte (`PushCheckByte`). The
invariant says what is on the line, the rest of the frame or the frame with one byte
changed (`OnLine`), and what the parser holds and has said after each byte of an
undamaged frame that began in step (`InParser`). Proved: `DamageShowsInCrc`,
`FieldsSurvive`, `ReadsKind`, `InStep`.

**`FirmwareProofs`**, three parts.

*UsbLink*, from `UsbAssumption`, for any number of packets, commands and
disconnections. The invariant places every packet: received, in the endpoint, in
hand or queued, in rising order, the queue without a gap (`Queued`,
`InEndpointLast`); a gap behind the last one received is made of refused packets, or
a connection has ended since (`LastReceived`). For `TwoLossesPerUnplug` it says that
while the task has not noticed a pulled cable yet, the losses so far are fewer than
two for each connection that ended (`LossesPaid`): the endpoint's packet is lost at
once, the one in hand only when the write fails. `PacketsInOrder` proves the refinement
of `Pipe`: each step of the task, the producer, the host and the cable is a `Put`, a
`Take`, a `Lose` or a stutter.

*Boot*, from `BootAssumption` (where `main`'s frame and the words of the
RAM test may be), for any depth of the stack. `GuardedNeverRuns` says that a guard in
force is followed by a fault before the canary is placed; it is inductive and gives
`GuardStopsBoot`. `CanaryStays` says that no step changes `main`'s canary once it is
placed, because the stack is below it (`StackKeepsCanary`); with it `AlarmsAreBadWords` is
inductive, and gives `CanariesSeeNoStack` and `NoFalseAlarm`. For the self-test's code
the invariant `Progress` says of each step of `bist::run` that the checks before it
passed; `FirstFailure` restates the property of the set of what is broken. The
loopback's arithmetic is that of `PlausibleIsCold`. These theorems say that what
`FaultIsOverflow`, `OverflowShows` and `NominalReadingPasses` find in one behaviour is so
of every board, depth and reading.

*Sampler*, from `SamplerAssumption` and `ReadAssumption`, for packets of any size and
reads of any length. The sum over one input is bounded by full scale for each of its
positions (`SumBound`), and an odd read has one more position of the first input than
it is divided by: hence `AverageBound`, and `OverScaleOnlyOdd` with `HeldInv`, which
says that the sampler holds the averages of the last read of at least two
measurements. `SamplesTraceable` is inductive with that and with `ClockInv`: while the clock
has not wrapped it is the sum of the lengths read, and a read that left readings has
ended by now, so the readings of the next are new. What a pass adds to the readings
that are due (`DueGrows`) is then compared with what it adds to those kept
(`FilledIs`, `KeptFlush`): they differ by the second reading only, and only if the
first has completed the packet. The property says nothing once the clock
has wrapped: two samples may then be the same record, and `Cardinality` does not count
them twice.

Three modules need the induction over naturals that `HostProofs` describes, and each
states it for itself (`SetInduction`, `Recursion`).

Only model-checked:

- liveness, which this prover does not do: `ReturnsToRecv`, `EndIsReported`,
  `UnplugNoticed`, `CommandServesQueue`;
- the seven properties of section 4 that are violated.

## 6. What is not modelled

- `report.rs`, the command line, port discovery, `digital.rs`: output and set-up,
  no state of their own.
- The values of `Lcg`; the CSV rows and the average latency of a report.
- `crc8_frame` and `CampaignConfig::clean`, which nothing in the host calls.
- `firmware/`: its `main.rs` names a `crypto` module and items of `shared` that are
  not in the repository (`SamplePacket`, the injectors of `shared::fault`), and
  `sco/trigger.rs`, `alignment.rs`, `export.rs` are empty. Of the commands, what they
  do with UART, ADC, TRNG and the fault pin is left out; `mpu::verify` and
  `canary::demo_corrupt` have no caller. The set-up of the USB device is left out.
- Wrap of the 16-bit campaign numbers inside a campaign: the models have the
  arithmetic (`Modulus`), the instance of `Bench` does not reach it; `Dut` and `Score`
  do.
- A lost END: the campaign then waits for ever, by the design of its loop, and no
  comment promises otherwise.

## 7. Plan

Done, in this order: parser with its abstract splitter, wire, detector, scorer,
simulator, host, bench, sampler; USB link and boot; the abstract pipe that host and
USB link implement; proofs of every safety property of the passing runs; the
properties that the repository states and its code violates.

What could follow: an abstract campaign that `SimLink` implements, which would turn
`NumbersInOrder` and `EndIsTrue` into one refinement; a data path from `Sampler`
into `UsbLink` once the repository has the task that connects them (today
`adc_task` sends to the UART, although `usb/mod.rs` 4 speaks of the ring buffer).
