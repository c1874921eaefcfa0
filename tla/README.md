# TLA+ verification of eSpDR

eSpDR streams 80 Msps of I/Q samples from an ESP32-S3 through an FPGA to a USB
host, without a gap or with an exactly accounted one. This directory holds TLA+
models of the parts that make that true, TLC configurations that check them on
small instances, and TLAPS proofs of what holds for every size. Paths below are
relative to the repository.

## 1. Inventory

```
 ESP32-S3                     FPGA                                             host
 dump writer -> 4 banks       link_lane x2 -> reorder -> encoder -> packer     FT600 -> Receiver thread
 core 0 / core 1 -> lanes ->  -> async_fifo -> ddr_ring -> async_fifo -> usb_tx -> StreamDecoder -> file/serve
        ^ USB serial                 ^ UART (control_port, iqstream_top)             |
        +----------------------------+---------------- ControlPort, run_capture -----+
```

| Component | State | Operations | Hard because | Correct when |
|---|---|---|---|---|
| ESP acquisition, `esp32s3/src/capture.c` | four sample banks, writer register, per-bank `start/valid/busy/epoch`, stop flags, two cores' locals | `capture_run`, `lane_loop`, `fail`, probes, descriptor, transmit | two cores and a DMA-like writer without a lock; hard real time; flags reused between runs | one core owns the writer; the writer never enters a bank being sent; every pair written is sent once; both lanes carry equally many units; a run ends |
| ESP command loop, `esp32s3/src/main.c` | request buffer, high half of an argument, `outputs_enabled`, time of last command | parse, resynchronise, execute, reply, idle release | any byte stops a run; partial requests of a process that died | a request is executed once with its own argument; outputs are off when nobody commands |
| ESP radio, `esp32s3/src/radio.c`, `lo_plan.h` | settings and what they replaced, receiver status, registers | `radio_init`, `radio_set`: release, tune, scan, configure, undo | each of five steps may fail, and so may the undoing | a setting that fails leaves the previous state in force; what is reported is so |
| Link transmitter and receiver, `transmit.S`, `link_lane.v`, `link_unpack.v` | cycle counter, fragment and group, pairs of a group | send; find marker, header, payload, trailer; emit pairs | the receiver counts the cycles of assembly code; damaged units of any layout | every byte is read while it is held; exactly the unit's pairs come out; a damaged unit costs at most one more |
| Reorder, `reorder.v` | two pair queues, two unit queues, merge state, `next_sequence`, `last_end` | select, decide, drain, gap, skip, drop | units lost or misread on either lane, queues filling, a view registered a clock earlier | every pair leaves at its true position; only misread units are dropped; never stuck |
| Clock crossing, `async_fifo.v`, `snapshot.v` | pointers, synchronizers; request/acknowledge toggles | write, read, reset; copy | metastability, unrelated clocks | levels err safely, FIFO order; copies never torn |
| Encoder, `encoder.v` | three block banks, capture/score/emit stages | take, close, skip, score, emit | stages rotate independently; flush and skip close blocks | each pair is in one record with the right index |
| End of stream, `stream.v`, `packer.v` | idle and drained counters, END state, partial beat | append, END, padding | END must come last | one END record, whole transfers |
| DDR ring, `ddr_ring.v` | five pointers, the write in flight, burst, turn, clear | take, commands, commit, arbitration, answers, clear | controller accepts command and data separately and answers late; clears in the middle | FIFO of whole records, never overruns, bursts never starve |
| USB transmitter, `usb_tx.v` | pads, block, transfer counters | start, launch, accept, underrun | five clock phases around TXE | words accepted in order, whole transfers |
| FPGA control, `control_port.v`, `iqstream_top.v` | one pending request, armed/open/fault | ARM, STOP, RELEASE, status | two clock domains, clock faults | one stream at a time |
| Host ports and session, `serial.cpp`, `capture.cpp` | sequence number, receiver thread, run state | `request`, `receive`, `run_capture` | timeouts, stale replies, crashes, errors at any step | success means the whole run; devices left safe |
| Stream decoder, `decoder.cpp` | job queue, result queue, totals, error | `add`, `submit_batch`, `finish`, worker, writer, destructor | n workers and a writer on one condition variable | ordered, exact output or an error; nothing hangs |
| Server, `serve.cpp` | wish to run, settings asked for, published state; viewer window, frames in flight | capture loop, web callbacks, acknowledgements, FPGA poll | two threads, devices that fail, browsers that replace each other, slow viewers | runs are what they are labelled, follow the wish, with the settings accepted; the page shows what is so; bounded data in flight |
| Web server, `web.cpp` | connections: input, output, stage, closing, draining | accept, receive, respond, upgrade, frames, close, time out, reap | a connection may end inside any step of its own handling | every message counts once, handlers hear open, texts, close in order, closing ends |
| Spectrum, `spectrum.cpp` | queue of batches, settings and their version, carry, frame | add, lose, configure, take, transform | batches dropped, settings and runs changing under the engine | no block joins samples that do not follow each other; no whole period is skipped |
| Record codec, `iq_record.cpp` | none | encode, inspect, decode | wrapped differences, escapes, four modes | every block comes back |
| The rest: JSON, options, load test, browser, clocks, platform, calibration | | | arithmetic, parsing, I/O | not modelled, see section 8 |

Interaction is by data (units on the lanes, pairs, records, beats, words), by
control requests (host to ESP and to FPGA) and by a few shared levels (stop
flags, clear). Every boundary that is modelled has its other side as an
environment, restricted only to what the neighbouring source guarantees.

The hazards the code is exposed to are listed, at their lines, in
`PROJECT.json`.

## 2. Plan

Order, most important behaviour first; the modules written so far are marked.

| | Module | Composes with | Properties aimed at |
|---|---|---|---|
| done | `RecordFifo`, `DdrRing`, `DdrRingProofs` | packer and memory controller as environment | FIFO of whole records, reservation, bursts, clears |
| done | `Acquisition`, `AcquisitionProofs` | writer and link as environment | writer ownership, exact units, even lanes, end of run |
| done | `Reorder`, `ReorderProofs` | lane receivers as environment | positions, drops, gaps, overflow, progress |
| done | `RecordOrder`, `StreamDecoder`, `HostPartsProofs` | caller as environment | order, totals, errors, lost wakeups |
| done | `ClockedFifo`, `AsyncFifo`, `FpgaPartsProofs` (of `AsyncFifo`, `UsbTx` and `StatusPoll`) | two clocks | levels, order, resets |
| done | `Snapshot` | two clocks | whole and fresh copies |
| done | `Session`, `SessionProofs` | host, ESP command loop, FPGA run controls, USB | crashes, closing, verdict, termination |
| done | `SampleStream`, `Encoder`, `StreamTail`, `RingBeats` | reorder and DDR ring as environment | block rotation, gaps, END last, whole transfers, the beats `DdrRing` assumes |
| done | `UsbTx`, `FpgaPartsProofs` | output queue and FT600 as environment | words once and in order, whole transfers, halt on underrun |
| done | `LinkLane` | kernel and receiver of one lane | framing without a clock, layouts, damage |
| done | `ControlPort`, `ControlPortProofs` | three processes, the ESP or the FPGA | resynchronisation, kept argument halves, stale replies |
| done | `Radio` | analog hardware as environment | settings in force, undoing |
| done | `Serve` (extends `Radio`), `ServeProofs` (both) | browsers and `run_capture` as environment | labels, settings, wish, page |
| done | `Viewer`, `WebServer`, `Spectrum`, `HostPartsProofs` (of these and `StreamDecoder`) | the browser, its link, the decoder as environment | window and merging, order of events and closing, frames |
| done | `StatusPoll` (extends `Snapshot`), `FpgaPartsProofs` (both) | the FPGA's counters | 64-bit reads in two words |
| done | `RecordCodec` | | a pure function, over all small blocks |
| next | proofs of `StreamTail` and `LinkLane` | | `BeatsSafe`, `LaneSound` for every bound |

Abstract specifications: `RecordFifo` (a queue of records), `RecordOrder` (jobs
leave in order until the first failure), `ClockedFifo` (a queue that a clear
empties) and `SampleStream` (the samples of a run in records at their places, gaps
exact, END last). `RingBeats` is the contract between two modules: `StreamTail`
shows that every beat it makes is one that `DdrRing` assumes.

## 3. The modules and the code

**DdrRing** (`fpga/rtl/ddr_ring.v`). One step is one clock. `RunClock` is the
running branch with every combination of `app_rdy`, `app_wdf_rdy`, an answer, a
pop and the `deep` input level; it is put together from `TakeBeat`,
`AdvanceWrite`, `Commit`, `Arbitrate`, `IssueReads` and `Store`, the parts of the
always block. `ClearClock` and `ResetClock` are the other branches, `RaiseClear`
and `DropClear` the clear of the stream. Pointers count modulo twice the ring as
in the code. The controller executes commands in order and answers each read
once; beats carry the record boundaries the packer can produce (`BeatsAfter` of
`RingBeats`). `Fifo!Spec` of `RecordFifo` is refined by reading the queue off
the memory, the outstanding answers and the write in flight (`StoredBeat`).

**Acquisition** (`esp32s3/src/capture.c`). Each core has a program counter that
names the steps of `lane_loop`, split wherever the other core or the writer can
interfere: `TakeBank`, `Prepare`, `CheckPrepared`, `Poll`, `Measure`, `Switch`
(with `MoveWriter`), `Locate` (once the pipeline has `Settled`),
`PrepareDescriptor`, `Transmit`, `Release`. `StartRun`, `StartWriter` and
`FinishRun` are core 0 around them, `Join`, `EnterLoop` and `LeaveLoop` core 1.
The writer is a third process, and any core may stall at any point. A sample is
its number in the run, so a sentinel never equals a sample, and time is counted in
samples. The search for a unit's end is the code's binary search. `cuts` and
`line` are ghosts: where units begin and what was sent.

**Reorder** (`fpga/rtl/reorder.v`). `Select` registers the classification that
`Decide` acts on one clock later; `Drain`, `MeasureGap`, `Widen`, `OfferSkip` and
`Drop` are the other states and the per-lane discard; `TakePair` and `FinishSkip`
are the encoder. A lane's unit is announced right, lost or misread (`Announce`,
`LoseHeader`, `MisreadHeader`) and its pairs then come one by one (`Arrive`), as
`link_lane.v` and `link_unpack.v` deliver them. Sequence numbers are plain integers because the
code compares them by the sign of a 32-bit difference.

**Encoder and StreamTail** (`fpga/rtl/encoder.v`, `stream.v`, `packer.v`). One step
is one clock of everything between the reorder and the ingress FIFO. `Encoder` has
the always block of `encoder.v` as `EncoderClock`, put together from `Capture`,
`Score`, `Publish`, `Emit` and `Rotate`; its wires have the names of the code. A
pair is its place in the run. Scoring, which computes the shortest of four modes,
chooses for each pair how many bits its code has, within RAW; so the payload
pipeline and its reservoir see every pattern of lengths. `StreamTail` adds the idle
and drained counters (`CountIdle`, `CountDrained`), the queue of two words, the END
state machine (`EndWait` to `EndDone`) and the packer (`PackWord`), whose reservoir
keeps of each 16-bit unit whether it begins or ends a record. The reorder offers
pairs and gaps at any clock (`NextOffer`), the FIFO may be full at any clock. The
ghosts `position`, `sent`, `record` and `total` are what `SampleStream` speaks of;
`length` and `reserved` are what `DdrRing` keeps of the beats.

**UsbTx** (`fpga/rtl/usb_tx.v`). One step is one period of the FT600's clock, with
the five phases in their order, so that `sampled_txe` and `sampled_wr` are the `txe`
and `wr_pad` the period begins with. `Cycle` is a period without and `ResetCycle`
one with reset; `Starts`, `Ends` and `Halts` are the conditions for a transfer,
`LaunchData` and `LaunchWrite` the pads. The queue in front (`MoveQueue`) gets any
number of blocks in a period. A word is its number in its stream, and `due` is the
one the FT600 has to take next.

**StreamDecoder** (`host/src/decoder.cpp`). Each thread runs from one wait or
lock to the next. Waiting on `changed_` is membership in `asleep`, `notify_all`
empties it, so a missing notification is a thread that sleeps for good. A job
keeps what the checks distinguish (indices, soundness, END, the CRC as the
sequence of jobs it covers).

**AsyncFifo** (`fpga/rtl/async_fifo.v`). Two clocks tick in any order; a
synchronizer that samples a changing pointer takes each bit old or new
(`Sampled`). `show_ahead` selects the mode in which the queue is used
(`link_input.v` uses the plain one, everything else the show-ahead one).

**Snapshot** (`fpga/rtl/snapshot.v`). The request and acknowledge toggles, with a
value of separately sampled parts.

**Session** (`host/src/capture.cpp`, `serial.cpp`, `ft600.cpp`,
`esp32s3/src/main.c`, `fpga/rtl/iqstream_top.v`, the end of `stream.v`).
`pc` is where `run_capture` is. Requests to the ESP are queued and answered in
order, RUN only after the acquisition; an exchange with the FPGA is one step with
three outcomes (answered, lost before or after it was executed). `ProcessDies` may happen
anywhere, `Open` starts the next process with whatever was left: requests and
replies on the port, an acquisition, an open stream, data in the FPGA and the
FT600. A unit of samples carries the run it belongs to, which the code cannot see.
The order of the checks inside one turn of a waiting loop is not fixed.

**LinkLane** (`esp32s3/src/capture.c` `prepare_descriptor`, `transmit.S`,
`fpga/rtl/link_lane.v`, `link_unpack.v`). `Bank` and `GroupsOf` are what the ESP
sends of a unit, `WriteCycles` when each byte is written, in the constants by which
`tests/link_wave.cpp` states the timing of the kernel. The receiver takes one byte a
step (`TakeHeader`, `Prepare`, `TakePayload`, `TakeTrailer`), at the cycle it has
computed, and reads it only if no line changes then (`OnLine`), for any phase of the
line and either half of the 120 MHz clock. The two sides compute the fragments
separately, as the code does. A damaged unit may lose its marker, fail in its header
or trailer, or show another layout and keep the receiver reading into the next unit
(`overrun`). `Reorder` assumes of a lane what `LaneSound` says: as many pairs as
were announced, and one last one.

**ControlPort** (`host/src/serial.cpp`, `esp32s3/src/main.c`,
`fpga/rtl/control_port.v`). Bytes, one a step, in both directions. `Open`, `Ask`,
`StopRun`, `Write`, `Read`, `Parse` are a process of the host, which `Close`s or
dies at any byte; `Byte`, `EspResyncs` and `EspExecutes` the ESP, with the high half
of an argument kept between two requests; `FpgaReceives`, `FpgaTakes`, `FpgaAnswers`
the FPGA, which holds one request while it works on another.

**Radio** (`esp32s3/src/radio.c`, `lo_plan.h`). `RadioSet` begins a setting;
`Release`, `Tune`, `Configure` and `SelectMode` are the functions of
`reconfigure`, each of which may fail (`Outcomes`), and `Conclude` what follows,
the undoing included. `hw` is the analog hardware, `settings` and `receiver` what
the code keeps and reports. `Scan` is the search for the middle of the longest run
of capacitor codes that lock.

**Serve** (`host/src/serve.cpp` 194-560, `receiver.cpp`). The capture thread
is `pc`: `Open`, `ReadReceiver`, `TakeRequests`, `Request` and `Answered` one by
one, `Look`, `Wait`, `BeginRun`, `EndRun`, and the way out of an error
(`DropRequests`, `PublishLost`). The web thread handles `OnOpen`, `OnClose`,
`OnSet`, `OnRun`, wakes (`OnWake`, `Broadcast`) and ticks; `Greet` is the first
status of a new browser. Each step takes the mutex once. `Radio` is on the other
side, so a setting is made by its real sequence, with its failures.

**Viewer** (`host/src/serve.cpp` 91-134, 545-685). `Offer` merges a frame with the
one that waits, `TrySend` holds to the window, `Tick` expires frames in flight,
`Acknowledge` pays for all that a number covers, modulo the sequence numbers.

**StatusPoll** (`host/src/serve.cpp` 213-231) reads a statistic of `Snapshot` in
four requests while the copy is renewed between any two.

**WebServer** (`host/src/web.cpp`). A connection goes through `Connect`, `Receive`,
item by item through `Respond`, `Upgrade`, `Control` or `Data`, and is removed in
`Reap`; `HangUp`, `TimeOut` and `Writable` are the other events. The peer may say
anything, in any pieces, and end or reset the connection while its input is handled.

**Spectrum** (`host/src/spectrum.cpp`). `NewRun`, `AddBatch` and `Lose` are the decoder's
thread, `ConfigureSpectrum` the web thread, and `Take`, `Skip`, `Transform` and `KeepTail` the engine between two looks at the queue. A sample is its run and
index.

**RecordCodec** (`protocol/iq_record.cpp`). `Encode`, `Inspected` and `Decode` on
sequences of bits, for every mode and parameter, on blocks that grow pair by pair.

## 4. The runs

Modules that do not share state are checked in one run: each has its value of
`part`, and only the actions of that part are taken in a behaviour.

| Run | Question | Bounds |
|---|---|---|
| `ddr_ring` | Safety of the ring, its refinement of `RecordFifo`, progress | ring of 4 beats, reservation and bursts of 2, 2 reads in flight, an output queue of 5, quanta of 2 |
| `acquisition` | Safety over runs that follow each other, termination | banks of 8, threshold 4, groups of 2, a run of 17 samples, a writer overrun of up to 9 |
| `link_units` | Is every unit read as it was sent; what may the merge drop, does it overflow, does it go on? | lane: groups of 4 pairs in 10 bytes, a ring of 16, every place and counts of 9 to 12, 3 units, four phases of the line, 3 layouts for damaged units. Merge: 4 units of 2 to 3 pairs on a ring of 4, 2 lost, 1 misread so that the merge can recognise it |
| `links` | Positions under loss and misreading; requests of processes that die; the codec; the spectrum | merge: 4 units of 1 or 2 pairs on a ring of 3, 1 lost, 1 misread by -4, 4 or 8. Port: frames of 3 bytes, 3 processes, 4 requests. Codec: components of 3 bits, five values of one and two of the other, quotients up to 2, blocks of up to 3 pairs. Spectrum: batches of 1 and 3, indices up to 6, 2 runs, 1 change, three settings |
| `reorder_tail` | Does the merge report a loss at the end of a run? (no) | 3 units, 1 lost |
| `decoder` | Order, totals, errors, wakeups | 2 workers, 3 jobs, 2 queued |
| `stream_tail` | The stream of a run, its end, the beats for the ring | 2 banks of 3 pairs, words of 2 units of 2 bits, codes of 1 or 3 bits, transfers of 4 beats, 5 pairs, gaps and arrivals, 1 new run with one of them |
| `fpga_parts` | The words the FT600 takes; levels, order and arrival in both modes of the FIFO; copies and 64-bit reads of statistics | USB: blocks of 4 words, transfers of 6 blocks, a queue of 4, 15 blocks (two transfers and a half). FIFO: 4 words. Copies: two parts, values rising by any steps from 0 to 4, words of one bit |
| `service` | Labels of runs, settings, the wish, the page | 3 acts of browsers, LOs 2402 and 2000 and a front end, 1 failure of a device, 1 failed run before the devices are reopened |
| `host_safety` | What a run receives, what it leaves behind, its verdict; settings in force; order of the web server's events | sessions: 2 processes, 2 runs, 1 unit each, 1 lost exchange. Radio: every setting at any time, 2 failures, four patterns of lock over 7 codes. Web: 2 connections, 4 acts |
| `host_liveness` | Accounts of the viewer; does everything go on? | viewer: 4 frames, a window of 4, 3 in flight, 3-bit numbers. Web: 2 connections, 3 acts. Sessions: 1 process, 1 run |
| `radio_lo` | Is a radio that reports OK at the LO that was set? (no) | as `host_safety` |

Why these bounds are enough. Every queue, ring and bank wraps and fills: the DDR
ring turns over several times because its pointers are modulo, the acquisition
takes each bank more than once, the reorder queues hold one and a half units so
that filling and waiting meet. A ring of the real size would add distance, not
cases, where all comparisons are differences modulo the ring; the theorems of
section 6 cover every size. Two workers give every order of finishing two
neighbouring jobs, three jobs a job in front of, in and behind a failure. Two
processes and two runs give every pair of a run and its predecessor; nothing of a
run survives the next ARM, which `OwnStream` itself shows. Four units let one unit
be lost and the two after it arrive on both lanes. The lane's layouts give every
combination of head, bulk, wrapped bulk and tail that the real sizes have, bulks of
one, two and three groups (the kernel's three cases), and three units show that the
unit after a damaged one is the last to suffer. On the control port a third process
meets what two others left, and frames of three bytes have a first, an inner and a
last one. With two failures the radio fails in a setting and in its undoing. The
viewer's numbers wrap while frames are in flight. Blocks of three pairs meet every
edge of differences, escapes and padding; with so few pairs "center" is never the
cheapest mode, so every mode is also forced.

Scalings that keep relations of the code: `DdrRing` is live if
`Size >= Burst + 2 * Reserve - 2`, which the real ring (2^24 beats against 65536
and 162) exceeds by far; in `Reorder` the level at which a silent lane is given up
is at most the shortest unit, as 12288 is of 15360; `Overrun` exceeds a bank so
that a stalled core meets an index that has wrapped.

In `StreamTail`, END waits for silence alone, so its correctness rests on a number:
`DrainTop` must exceed the longest time the encoder can hold data without offering
a word, the scoring and header of one full block (`TailAssumption`; the run uses
that bound exactly, the code has 8191 against about 1100). The two banks make
capture wait for emit sooner than the code's three; blocks of 3 pairs close full, by
a gap and by a flush. A new run gets one item only: what an earlier run may leave
behind shows in its first record. In `UsbTx` a block of 4 words is the shortest in
which first, middle and last word are different.

In `LinkLane` a group of P pairs has 5P/2 bytes and takes 2 cycles a byte and 11
more, as 16 pairs take 40 bytes and 91 cycles; the costs between fragments are the
code's. `MaxFailures` is 3 in the code.

`CHECK_DEADLOCK FALSE` is set where the system really stops: a ring that counted
an error or a controller that never answers, a merge at the end of its input, a
decoder whose process is gone, sessions, connections, browsers and requests that
have been used up, a server that was shut down.

Findings:

- `reorder_tail` shows that the merge resumes, and so reports a gap, only when a
  later unit is announced; a loss at the end of a run leaves no gap. The README of
  the repository says a lost unit is reported as an exact gap in sample time. The
  host does notice: the pair counts differ and the run fails (`capture.cpp:358`),
  which is `VerdictSound` of `Session`.
- `radio_lo` shows that after a LO setting that failed behind the tuning, and whose
  undoing failed before it tuned back, the next setting of anything else succeeds
  without tuning (`radio.c:414` compares with a LO the PLL is no longer at): the
  radio reports OK at the LO that was refused. `control.h:58-59` and
  `receiver.cpp:126` say the previous one is kept.

Other differences between comments and code, met while modelling and not made runs:
`web.cpp` 376-383 speaks of a draining connection that is closed or written to
again, which dies at once (line 433); `serve.cpp` 258-259 says settings are refused
while the devices are lost, but those that arrive between the swap and the
publication are kept, and those of a batch that a control error interrupts are
dropped without a notice; a frame sent alone after expiry may meet a link that is
not empty; replies to INFO requests of processes that died quickly may be taken by
the next one for its own first answer, which shifts all its answers by one
(`serial.cpp` 139-140: the numbers restart). `ControlExact` excepts that case.

## 5. Fairness

- `DdrRing`: the clock runs, and the controller and USB eventually serve what is
  asked (`ServingClock`); strong fairness for clocks in which a read is chosen,
  because the controller may be ready only at some clocks. `ExpiringClock` is the
  code's own limit on waiting for the controller in a clear. Nothing is assumed of
  the source.
- `Acquisition`: both cores run and the writer writes. The host is not assumed to
  do anything.
- `LinkLane`: none; only safety is asked of it.
- `Reorder`: the merge, the drops, the consumer and the lanes' arrivals go on.
- `StreamDecoder`: every thread is scheduled; the caller need not call.
- `AsyncFifo`, `Snapshot`: both clocks tick; the writer and reader of the FIFO only
  where a property says that they keep going.
- `StreamTail`: the clock runs, the run is stopped and the ring takes beats, again
  and again - not always, so it may stall for any time in between. After a stop the
  input pauses for less than the idle time until it ends for good: the ESP sends its
  last units without a break.
- `UsbTx`: the clock runs, and the FT600 is ready again and again while the host
  reads. Nothing is assumed of the queue; a transfer that runs dry ends by halting.
- `Session`: the host's threads and clock. No device is assumed to answer: each
  wait ends by an answer or by its limit.
- `Serve`: both threads are scheduled (`CaptureThread`; `Greet`, `OnWake`,
  `Broadcast`, `OnTick`), the ten seconds of grace pass, and the ESP executes what it
  has begun. No browser is obliged to act, no run to fail or to end by itself.
- `Viewer`: the loop ticks, frames in flight grow old, and the link carries what it
  has taken. The browser need not acknowledge anything.
- `WebServer`: the loop goes on (`Reap`, `Handle`, `Receive`), a peer notices that
  it was hung up on, takes what it is sent, and a draining connection times out.

Where parts share a run a weak-fairness condition may join an action of each part:
in a behaviour only one part acts, so it is the condition of each.

## 6. Proofs

TLAPS checks the following for every value of the constants that satisfies the
named assumptions of the module.

- `DdrRingProofs`: `TypeOK`, `PointerOrder`, `NoErrors`, `WholeRecordsReadable`,
  `ReservationHolds`, `BurstBacked`, and `RingSafe`, which the run checks, from the
  last four. The inductive invariant `IInv` adds to the
  types the distances between the pointers (`OrderInv`), that outstanding answers,
  output level and reads agree (`ReadsInv`), and where the incomplete record begins
  and how much of its reservation is left (`RecordInv`). `NoErrors` is not
  inductive: that no record outgrows its reservation needs the reservation of the
  record in progress, and that no answer is lost needs the bound on reads in flight.

  `FifoImplemented` is the refinement of `RecordFifo`. Beyond `IInv` it needs only
  that the write in flight goes to the slot behind the last one written (`InFlight`).
  A step of the ring moves several things at once; `RunMoves` says where the pointers
  go and `RunKeepsBeats` what that does to the beats: each of them keeps its number
  while it goes from the write in flight (`value`) to the memory, to the read queue
  and out. The write lands in a slot no held beat is in because the held beats are
  fewer than the slots (`SlotsApart`). `RunQueue` and `RunRefines` turn this into the
  step of the abstract queue, one case for each pair of a beat taken and a beat
  delivered.
- `AcquisitionProofs`: `TypeOK`, `OneBaton`, `WriterOwned`, `OwnershipUnbroken`,
  `LanesEven`, `SentExactly`. `IInv` says which core may be in which step for each
  parity of the unit counters (`Phases`, `Turns`), which bank the writer is in
  (`WriterInv`), and what `stopped`, `busy` and `valid` mean in each step. The failure
  codes OWNER and REUSE are therefore unreachable for any geometry; TLC reaches all
  others.

  `UnitsExact` proves `SentExactly` from a second invariant, `DataInv`, on what is in
  the banks. Of the bank being filled and of the one just left it says which cells
  hold the unit's pairs, a newer one only where the writer has come round again, and
  that a cell of the guard is written only if the unit reached it (`Kept`); of the
  pair in the pipeline, which bank it is for (`Piped`, `Landed`); of the next bank,
  that its guard is blank (`Prepared`). `SearchFinds` is the binary search: in a set
  of offsets that has a boundary it finds it, by the shortest stretch on which it
  would not. `FindsEnd` then is the heart of it: if the last cell of the guard is
  blank, the writer cannot have come round, and the offset found is the end; otherwise
  the code fails with END. `GroupReads` is the grouping: the moved head and both
  paddings leave every pair to be read, because the longest unit leaves a group's room
  in the ring (`GeometryAssumption`; the comment at `capture.c:208-210` puts it at 96
  pairs). The start of a unit needs no argument about its guard: the code compares
  what it found with the end published for the unit before, and that end is exact.
- `ReorderProofs`: `ViewCurrent`, `SkipFits` and `SkipExact`: the skip is the true
  number of missing pairs whenever the missing units leave less than one ring turn
  of doubt; `GapUnique` is the arithmetic behind it. Then `InPlace`, that every pair
  leaves at the position it was sampled at, and `SkipsLost`, that a gap is as long as
  what was lost, for every ring, unit length and queue. The invariant, `PlaceInv`,
  says of each lane which unit each queued pair belongs to and that nothing between
  two of them is missing (`Numbered`, `Ordered`, `Sorted`, `OfUnits`, `From`, `Rest`),
  what of the unit being sent has arrived (`Current`), that nothing of an untouched
  unit is gone (`Untouched`), and that the merge stands at the cut between two units
  or inside one (`Here`, `InUnit`, `Measured`). Its lemmas are about sequences alone:
  what pushing an announcement or a pair, and popping either, keep (`Arriving`,
  `PopInner`, `PopLast`, `OwnStarts`, `OtherStarts`).

  All of it is under `Sound`: no queue overflowed, no misread unit was taken for a
  good one, and no gap was `ambiguous`, which means that the missing units could
  differ in length by a ring turn or more. It is not enough to bound the number of
  faults. A misread unit that seems ahead within FAR blocks its lane until the merge
  gives up waiting, and the good units behind it are then missed as well: with one
  header lost and one misread the merge can miss three units. With the sizes of the
  code (a ring of 16384 pairs, units of 96 to 1024) a gap is ambiguous from 18
  missing units on, which nothing in `reorder.v` counts.
- `HostPartsProofs`, about the decoder: `TypeOK`, `FinishedWhole` and the refinement of
  `RecordOrder`, for any number of workers, jobs and queue bound. `IInv` relates the
  output to what has left `ordered_` and each job to the one thread that holds it.
  `FinishedRight` proves `FinishedExact`. The totals are specified by a recursive
  function over the jobs; that it exists is shown by the least number it would fail
  for (`PrefixesAgree`, `PrefixExists`), and from then on only its recursion is used
  (`Totals`). `Cut` says that no record behind the END record was submitted.
- `FpgaPartsProofs`, about the USB transmitter: `InOrder` and `WholeTransfers`, together
  `UsbSafe`, for every length of block and
  transfer and any behaviour of TXE. `UsbInv` says that WR is low exactly while the pads
  hold a word not accepted yet (`Launched`), that the word fetched is the one behind
  it (`Fetched`), and where the transfer in progress began (`Counted`). The delicate
  case is the first word: WR falls one period after a transfer starts, and the data
  pads, clocked by TXE, then hold that word already because a transfer starts only
  in a period with TXE low.
- `FpgaPartsProofs`, about status copies: `NeverTorn` and `Fresh`, from an invariant over
  the phases of
  the handshake (`OneToken`: what has not yet followed the request is all at the far
  end), and with them `CopiesSound`: a counter read in two words while it is copied
  again and again is published as a value it had between the beginning and the end of
  the poll, for any width of a word. `ReadSoFar` says what the words read so far have
  to do with the copies of then and now; the argument is that copies only grow, so a
  high word that is the same before and after the low one was the same in between.
- `FpgaPartsProofs`, about the clock-crossing FIFO: `LevelsSafe` and the refinement of
  `ClockedFifo`, for every `AddrBits` from 2 and in both modes. It starts with numbers: the
  powers of two by which bits are cut out of a pointer (`Powers`, `BitsOf`), that the
  decoder undoes the code (`Decoded`), and that the codes of a pointer and of the next
  one differ in one bit, the wrap from the last pointer to 0 included. A register that
  samples a changing pointer bit by bit therefore holds the code of the old or of the
  new pointer and nothing else. `FifoInv` puts all pointers of one direction in order:
  what the other side has synchronized is not ahead of what is on its way to it, nor that of
  the pointer itself, and writer and reader are at most the depth apart. From this the
  level seen by the writer is never too low and the one seen by the reader never too
  high; with what the memory holds between the pointers, a push, a pop and a clear are
  those of the bounded queue. The full test by the codes' top bits is the one by
  distance: half a turn on, exactly the two top bits of a code are inverted.
- `HostPartsProofs`, about the web server: `ServedInOrder`, for any number of
  connections and any number of acts of their peers. `WebInv` is a statement about each
  connection (`SoundRecord`). What has been sent or will be is the wire with the output behind
  it; every outcome of a write, a part, all, an error, moves a part from one to the
  other and leaves the whole alone. While the connection speaks HTTP (`InHttp`) the
  responses, the requests waiting and those on their way add up to what the peer said;
  once it is upgraded (`InFrames`, `TextsCounted`) the calls of the handlers, the messages
  waiting and those on their way do. The sum may fall short only when the server has
  begun to drain, that is, when it has decided to close. So a connection that ends by
  itself has been heard out: its end, once known, lets nothing arrive after it
  (`HeardOut`), and a handler is told of the opening first and of the closing last.
- `HostPartsProofs`, about the spectrum: `FramesInOrder`, for any settings, any sizes of
  the batches, any queue and any number of runs, samples and changes of the settings.
  The samples behind the `Horizon`, the end of what the engine has taken of the run,
  are past; `SpectrumInv` says that every batch in the queue is ahead of it and behind the batches
  before it (`Waiting`), so that a carried tail and a batch that joins it are consecutive samples
  (`FromPlace`), and every block read is whole (`BlockReadIs`). The delicate part is what is
  skipped. A slot without its block (`slot # Len(blocks)`) is evidence
  of a sample of the same period that never reached the engine and never will; when
  the engine stands before what it has, there is a stretch up to `available` nothing of
  which was heard, and that stretch begins before the end of the frame's period. Hence each
  period passed over has lost a sample (`PassedOver`), and a frame whose period was
  heard as a whole has all its blocks (`LastBlock`). That the engine gets ahead of no
  sample it could still use is the last part: between batches its position is less than a
  block before the horizon and not before the tail kept, which is why the tail may be shorter than a
  block by one sample (`KeepTailKeeps`). That frames rise across new settings holds
  because the first frame after them is the first whole period of a batch beyond
  the horizon (`RoundedUp`).
- `HostPartsProofs`, about the viewer: `ViewerExact`, for any frame sizes and levels, any
  limits and any width of the sequence numbers. `ViewerInv` says that the frames
  in flight are numbered backwards from the last one sent, modulo the width
  (`InOrder`), that the bytes counted are their sum, that the window is open while there
  are any, so that the growth of the window never divides by 0, and that the frame that
  waits is the mean or the maximum of those it stands for (`Stands`). The sum over a
  sequence is a recursive function; that it exists and is unique, that a frame sent
  adds its bytes to it, and that frames that leave at the front take theirs away are `SumsExist`,
  `TotalIs`, `TotalAppend` and `TotalCut`. That a merged mean is the mean of one frame
  more is arithmetic on fractions (`MergedStands`); a maximum over a set that grows is
  proved equal to the `Max` of the model by its uniqueness (`MaxIs`). An
  acknowledgement covers some number of frames between none and all of those in flight
  (`CoveredIs`), whatever it names: that it may be late, doubled, or of a frame given up
  needs nothing more.
- `ServeProofs`, about the radio: `InEffect` and `FailedKeeps`, for any sequence of
  requests, any number of failures and any registers, stage table, frequencies and
  lock patterns; `SettingsInForce`, which adds that the PLL is pinned where its lock
  is widest, under the hypothesis `ScanFindsWidest`: that the scan finds the widest
  run of each lock pattern. That is a fact of the recursive function `Scan` alone,
  which TLC checks. `RadioInv` says who a sequence runs for (`ForWhom`), that the
  stages are held exactly from configure to release, with the automatic I/Q register
  kept (`HandedOver`), and when the PLL is where the receiver says (`Tuned`): while
  the stages are held, past tuning, and in a setting that does not tune. A tune that
  fails loses that, and the status it leaves or the undoing that follows makes the
  next sequence tune.
- `ServeProofs`, about the server: `RunAsTagged` and `SettingsAsAsked`, for any
  settings, browsers, failures of devices and failed runs. `ServeInv` contains
  `RadioInv` and says that the radio is idle unless a setting is being made
  (`AtWork`), that what was published is what the radio reports wherever the thread
  relies on it (`Current`), what is left of the batch (`InHand`), and where an
  accepted setting is: in the last request for it, in the batch unless a later
  request overrides it, or in the radio (`Binding`). A setting that is refused, or dropped
  because the devices were lost, does not bind: the page says so.
- `ControlPortProofs`: `ControlExact`, for any size of a frame, any places inside a frame
  at which the magic value may occur, and any number of processes and requests, on the
  ESP and on the FPGA. `ControlInv` looks at two lines of bytes: what is `Ahead` of the
  device (received of a request, on the way, and still unsent by the living process) and
  what is on its way to the host (`ToHost`, what the process has buffered included).
  Each is a `Chain`: a byte is followed by the next one of its frame or by the first one
  of a later request's. A flush, a death between two writes or a reply given up half way
  cuts a chain at an end or joins it to a later frame, and it stays one. So a frame is
  broken only where a later one begins, and a search for the next magic byte may stop
  at one inside a frame but never passes the beginning of a whole one (`NoneSkipped`).
  The FPGA looks for no magic byte inside what it has received; there the line is `Tidy`, every frame on it whole but the last one a process
  died in, because a process opens the port only when the FPGA has dropped the rest of
  it. `InOrder` says that answered, executing, accepted and coming requests follow each
  other in this order, `AwaitedThere` that the request awaited is at one of these places,
  whole; with the two lines too short to hold a frame, it is accepted or executing, which
  is `Heard`. `KeptRight` relates the kept half of an argument to the last request seen
  before the one being received, and is silent while the bytes received are not of one
  frame, for then the CRC clears it. `ProcessKnown` is the numbering:
  once the first answer of a process was the one to its own request, nothing of an earlier
  process is left on the way, and numbers identify; before, only the reply to an equal
  first request can be taken, the case that `OwnReply` excepts. `ControlInv` was
  checked on instances with frames of 1, 2 and 3 bytes before it was proved.
- `SessionProofs`: `OwnStream`, `LeftSafe` and `VerdictSound`, for any number of
  processes, runs, units and lost exchanges and a process that dies anywhere.
  `SessionInv` follows the requests of the process through the line: `Line` says that
  its requests are in order, numbered as it counted, in front of the ESP, in
  it and in the replies; `Awaited` which of them it waits for in each step; `Clean` that
  nothing of another run is in the FPGA's pipeline, the FT600 or the ESP when the
  receiver is armed; `OfRun`, `Over`, `Safe` and `Judged` what then holds of the
  stream, the end of the acquisition, the closing and the verdict.

  The three have a hypothesis, `Identified`: the reply by which a process recognises
  the ESP is the one to its own INFO request. It is needed. Every process numbers its
  requests from 1, so a process whose INFO is answered by the late reply to an earlier
  INFO, one that the flush of the port came too early for, stays one process behind:
  each of its requests is "answered" by the reply to the same request of the process
  before it. TLC then violates each of the three, `OwnStream` in 32 steps with four
  processes (`MaxOpens` 4, `MaxRuns` 3, `MaxUnits` 1, `MaxLosses` 0, `UsbSize` 1). The
  comment at `serial.cpp:139-140`, that replies to other requests "such as a run left
  behind by a previous host process" are skipped, holds under this hypothesis only. In
  practice it takes processes that die within the time the ESP needs to answer. With
  the two processes of `host_safety` the chain cannot come about.

`TypeOK`, `WriterOwned` and `ReservationHolds` are parts of the inductive invariants
and proved; the runs check the properties that follow from them. In each module
`Invariance` (`DataInvariance`, `PlaceInvariant`, `RadioInvariant`, `ServeInvariant`,
`SessionInvariant`, `UsbInvariance`, `CopyInvariance`, `FifoInvariance`,
`WebInvariance`, `ViewerInvariance`, `SpectrumInvariance`, `ControlInvariance`) proves the invariant of the specification from one lemma per
action.

The assumptions on constants are those of the modules: sizes are positive, shortest
units are not longer than longest ones, values that stand for "none" are none of the
values they stand beside; of the acquisition's ring, that it is a whole number of
groups, no smaller than a guard, and at least a group longer than the longest unit
(`GeometryAssumption`: 16384, 16, 1024 and 16288 in the code). The FIFO has at least
four places (`FifoAssumption`), a connection's number is positive (`WebAssumption`), a
frame of a control request has at least one byte (`ControlAssumption`), one of the
spectrum at least one byte on the wire, and sequence numbers have at least two values
(`ViewerAssumption`); a transform and a batch have at least one pair and the queue at
least one place (`SpectrumAssumption`). Where a proof needs the
least element of a set of numbers (`Least` in `SessionProofs` and
`AcquisitionProofs`) or counts up to a bound (`Counting`), it comes from the
well-foundedness of the naturals.

## 7. Only model-checked

Liveness everywhere: it is out of reach of the prover, as is everything with ENABLED.
`OnlyDamagedLost` and the progress of `Reorder`, the refinement of
`SampleStream`, and all of `Encoder`, `StreamTail`, `LinkLane` and
`RecordCodec`; of `Viewer` and `WebServer`, that nothing
stays for ever; the wish and the page of `Serve`; of `Radio`, that the scan finds the widest lock. The library's
induction theorems take the predicate as a parameter, which the provers at hand cannot
instantiate; what a recursive function computes for every input has to be derived from
well-foundedness each time, as it is for the decoder's totals and the search for a
unit's end. That a beat of `StreamTail` is one of `BeatsAfter` is checked, and assumed
by the proofs of `DdrRing`; that a lane passes on as many pairs as it announced is
checked, and assumed by `Reorder`.

Several properties join what belongs together, so that one name in a run stands for
it: `RingSafe`, `OnlyDamagedLost`, `FinishedExact`, `BeatsSafe`, `UsbSafe`,
`CopiesSound`, `AllMoves`, `LaneSound`, `ControlExact`, `SettingsInForce`,
`ViewerExact`, `NothingStuck`, `ServedInOrder`, `FramesInOrder`. Their parts have
names and comments in the modules, and mutants of different parts break them.

## 8. Not modelled, and limits of the models

- `adapt_resolution`, the encoding of frames and statuses, byte rates and notices of
  the server; JSON, options, devices, the load test, the browser: arithmetic,
  parsing and formatting.
- The calibration of sampling phase and delays (`capture.cpp` 394-506) with
  `link_input.v`, whose inputs are analog; clocks and monitors; platform and
  startup; the register sequences and the vendor calibration of the radio.
- The window, transform and statistics of the spectrum; the byte layout of a
  record's header and the END record's contents.
- `Acquisition`: the timer does not wrap; the writer stores one pair per time
  unit; any host byte ends a run, as in the code.
- `LinkLane`: samples do not look like a marker, and the checksum finds every
  damage, as 32 bits nearly do; the cycle counter of 17 bits does not wrap (a unit
  takes less than 94 000 cycles); the delays are calibrated, so all eight lines
  change together and `data_late` is 0. Reset is modelled between two bytes.
- `Reorder`: `OnlyDamagedLost` is checked for units misread so that they can be
  recognised (`Rejected`: behind the ring position expected, or ahead beyond FAR). One
  that seems ahead, too far for its place to be checked but within FAR, blocks its lane, and good units behind it are dropped as
  stale when the merge has gone on without them. A count is never misread; a unit misread within FAR of its place
  can pass for a good one, and its checksum then fails the run - so the
  properties on drops are about misreadings that can be recognised and units
  that arrive one by one (190 us against clocks of 120 MHz).
- `Encoder`: the choice of mode and parameter, the samples' values and every
  checksum; the code's bits are only counted. Scoring and emission read a bank's memory
  through one port, which score and emit never need for the same bank. The
  header's states CRC and DONE are one.
- `StreamTail`: the first piece of padding may be a few bytes; it can begin and end in
  a beat that also ends the record before, and the packer then does not announce its
  start if that beat has to wait (`start_at` holds one place). `BeatsAfter` allows it
  where the ring's reservation of the record before still covers the beat.
- `UsbTx`: timing within a period is taken as the constraints of the design promise
  it. The counters of underruns and stalls are left out.
- `StreamDecoder`: an output callback that throws after the data was written.
- `AsyncFifo`: the bits of a pointer are sampled within one period of each
  other, and a clear is held until both sides are in reset (16 clocks in
  `iqstream_top.v`).
- `Session`: the FPGA answers or an exchange is lost; an answer later than the
  host's two seconds counts as lost. The ESP is not reset during a behaviour. Data
  damaged in the FPGA or on USB is an error of the receiver thread.
- `ControlPort`: a CRC never holds by chance; a process that lives does not pause for
  100 ms inside a request, and the FPGA's port is idle for its byte timeout before
  another process opens it; the bits of the UART are left out.
- `Radio`: a time-out of the PBUS may or may not have had its effect. Registers that
  are only written are one setting.
- `Serve`: `run_capture` is one state that ends by itself, by the wish or by an error.
- `Viewer`: time is abstract; limits of the link and of the rate may hold a frame back
  at any time.
- `WebServer`: a frame that breaks the protocol is one with the close frame that
  answers it; headers, masks, compression and the static files are left out.
- `RecordCodec`: the checksums find every damage; they are not modelled as numbers.
