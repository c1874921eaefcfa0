----------------------------- MODULE Acquisition -----------------------------
(***************************************************************************)
(* Continuous acquisition on the two CPU cores of the ESP32-S3             *)
(* (esp32s3/src/capture.c).  The ADC dump engine, the writer, stores       *)
(* sample pairs into the selected one of four banks, at a ring index that  *)
(* runs on across bank switches.  Core 0 serves banks 0 and 2, core 1      *)
(* banks 1 and 3; they hand the writer to each other and transmit what     *)
(* each of them collected.                                                 *)
(*                                                                         *)
(* No lock protects any of this, so the model makes no assumption about    *)
(* speed: a core may stall for any time between two steps while the writer *)
(* goes on.  A pair is its number since the start of the run; the timer    *)
(* advances with the pairs.  Up to one pair is in the ADC pipeline, stored *)
(* in the bank that was selected when it was taken.                        *)
(***************************************************************************)
EXTENDS Integers, Sequences

CONSTANTS Ring,         \* LINK_RING_PAIRS: pairs in a bank
          Threshold,    \* LINK_THRESHOLD_PAIRS, LINK_MIN_PAIRS
          MaxPairs,     \* LINK_MAX_PAIRS
          StartGuard, EndGuard,     \* sentinels ahead of a predicted start, end
          MaxAge,       \* MAX_BANK_AGE_PAIRS
          Group,        \* pairs of one transmission group (16)
          Duration,     \* duration_ticks, 0 to run until stopped by the host
          Overrun,      \* bound: pairs the writer may store in one bank
          NoBank, NoPair, NoUnit

ASSUME RingAssumption ==
    /\ Ring \in Nat \ {0} /\ Threshold \in Nat /\ MaxPairs \in Nat
    /\ StartGuard \in Nat /\ EndGuard \in Nat /\ MaxAge \in Nat
    /\ Group \in Nat \ {0} /\ Duration \in Nat /\ Overrun \in Nat
    /\ NoBank \notin 0 .. 3 /\ NoPair \notin [bank : 0 .. 3, pair : Nat]

(* The head group and the tail group of a unit never overlap: the longest  *)
(* unit leaves an arc of the ring free.                                    *)
ASSUME GeometryAssumption ==
    /\ Ring % Group = 0 /\ EndGuard <= Ring
    /\ MaxPairs + Group <= Ring

Lanes == {0, 1}
Banks == 0 .. 3
Cells == 0 .. Ring - 1
Codes == {"OK", "OWNER", "REUSE", "LATE_PREPARE", "LATE_POLL", "LATE_SWITCH",
          "END", "START", "LENGTH"}

VARIABLES
    pc, unit,           \* where each core is, and its unit counter
    core1_request, seen, core1_ready, started, core1_done,    \* joining a run
    stopped, stop_requested, stopped_by_host, status, fail_lane,
    busy, valid,        \* the handoff state of each bank
    start, start_probe, end_probe, epoch,
    write_index, switched, last, extent,      \* locals of each core's loop
    running, bank_select, pos, pipeline, bank,    \* the writer and the memory
    cuts,               \* ghost: the pair at which the writer entered each unit
    line                \* ghost: the last unit each lane has transmitted

control  == <<pc, unit>>
joining  == <<core1_request, seen, core1_ready, started, core1_done>>
ending   == <<stopped, stop_requested, stopped_by_host, status, fail_lane>>
handoff  == <<busy, valid>>
edges    == <<start, start_probe, end_probe, epoch>>
locals   == <<write_index, switched, last, extent>>
writer   == <<running, bank_select, pos, pipeline>>
ghosts   == <<cuts, line>>
vars == <<control, joining, ending, handoff, edges, locals, writer, bank, ghosts>>

-----------------------------------------------------------------------------
Masked(i) == i % Ring
Sentinel == -1
Padding == -2
NotFound == -1
Nowhere == [first |-> 0, count |-> 0]

(* b and next of lane_loop.                                                *)
Mine(lane) == IF unit[lane] % 2 = 0 THEN lane ELSE lane + 2
After(b) == (b + 1) % 4
Sequence(lane) == 2 * unit[lane] + lane

Go(lane, to) == pc' = [pc EXCEPT ![lane] = to]

(* fill_sentinels: `count' cells from `at', wrapping.                      *)
Filled(m, at, count) ==
    [i \in Cells |-> IF Masked(i - at) < count THEN Sentinel ELSE m[i]]

(* The binary search of both: the first offset that is not in `low'.       *)
Search(low, from, to) ==
    LET Seek[p \in (from .. to) \X (from .. to)] ==
            LET lo == p[1] hi == p[2] mid == (lo + hi) \div 2
            IN  IF lo >= hi THEN lo
                ELSE IF mid \in low THEN Seek[<<mid + 1, hi>>] ELSE Seek[<<lo, mid>>]
    IN  Seek[<<from, to>>]

(* find_first_written: offset of the first pair after the start probe.     *)
FindFirstWritten(m, probe) ==
    LET blank == {k \in 0 .. StartGuard - 1 : m[Masked(probe + k)] = Sentinel}
    IN  IF StartGuard - 1 \in blank THEN StartGuard ELSE Search(blank, 0, StartGuard - 1)

(* find_end: the index just past the last pair, or NOT_FOUND.              *)
FindEnd(m, origin, index, guard) ==
    LET written == {k \in 0 .. guard - 1 : m[Masked(origin + k)] # Sentinel}
        offset == Masked(index - origin)
    IN  IF offset >= guard \/ guard - 1 \in written THEN NotFound
        ELSE Masked(origin + Search(written, offset, guard - 1))

(* prepare_descriptor: a partial head group moves down to its aligned slot *)
(* and both partial groups are zero-padded in place.                       *)
HeadAt(first) == first - (first % Group)
HeadPairs(first, count) ==
    LET n == (0 - first) % Group IN IF n > count THEN count ELSE n
TailPairs(first, count) == (count - HeadPairs(first, count)) % Group
Grouped(m, first, count) ==
    LET head == HeadPairs(first, count)
        tail == TailPairs(first, count)
        headAt == HeadAt(first)
        tailAt == Masked(first + count - tail)
        padding == (IF head = 0 THEN {} ELSE headAt + head .. headAt + Group - 1)
                   \cup (IF tail = 0 THEN {} ELSE tailAt + tail .. tailAt + Group - 1)
    IN  [i \in Cells |-> IF i \in padding THEN Padding
                         ELSE IF i \in headAt .. headAt + head - 1 THEN m[first + i - headAt]
                         ELSE m[i]]

(* What the kernel reads for the pairs of a unit, group by group.          *)
Read(m, first, count) ==
    [k \in 1 .. count |-> IF k <= HeadPairs(first, count)
                          THEN m[HeadAt(first) + k - 1]
                          ELSE m[Masked(first + k - 1)]]

-----------------------------------------------------------------------------
Init ==
    /\ pc = [lane \in Lanes |-> "idle"] /\ unit = [lane \in Lanes |-> 0]
    /\ core1_request = FALSE /\ seen = FALSE /\ core1_ready = FALSE
    /\ started = FALSE /\ core1_done = FALSE
    /\ stopped = FALSE /\ stop_requested = FALSE /\ stopped_by_host = FALSE
    /\ status = "OK" /\ fail_lane = 0
    /\ busy = [b \in Banks |-> FALSE] /\ valid = [b \in Banks |-> FALSE]
    /\ start = [b \in Banks |-> 0] /\ epoch = [b \in Banks |-> 0]
    /\ start_probe = [b \in Banks |-> 0] /\ end_probe = [b \in Banks |-> 0]
    /\ write_index = [lane \in Lanes |-> 0] /\ switched = [lane \in Lanes |-> 0]
    /\ last = [lane \in Lanes |-> FALSE]
    /\ extent = [lane \in Lanes |-> Nowhere]
    /\ running = FALSE /\ bank_select = NoBank /\ pos = 0 /\ pipeline = NoPair
    /\ bank = [b \in Banks |-> [i \in Cells |-> Sentinel]]
    /\ cuts = <<0>> /\ line = [lane \in Lanes |-> NoUnit]

-----------------------------------------------------------------------------
(* capture_run and core1_main: a run starts, core 1 joins it, it ends.     *)

ClearBusyNot ==     \* mutant: what a failed run left behind stays
    UNCHANGED busy /\ valid' = [b \in Banks |-> b = 0]
ClearHandoff == busy' = [b \in Banks |-> FALSE] /\ valid' = [b \in Banks |-> b = 0]

(* core1_request counts runs; core 1 only compares it, so one bit will do. *)
StartRun ==
    /\ pc[0] = "idle" /\ pipeline = NoPair
    /\ unit' = [lane \in Lanes |-> 0]
    /\ core1_ready' = FALSE /\ started' = FALSE /\ core1_done' = FALSE
    /\ stopped' = FALSE /\ stop_requested' = FALSE /\ stopped_by_host' = FALSE
    /\ status' = "OK" /\ fail_lane' = 0
    /\ ClearHandoff
    /\ start' = [b \in Banks |-> 0] /\ epoch' = [b \in Banks |-> 0]
    /\ start_probe' = [b \in Banks |-> 0]
    /\ end_probe' = [b \in Banks |-> IF b = 0 THEN Threshold ELSE 0]
    /\ bank' = [b \in Banks |-> [i \in Cells |-> Sentinel]]
    /\ pos' = 0 /\ cuts' = <<0>> /\ line' = [lane \in Lanes |-> NoUnit]
    /\ core1_request' = ~core1_request
    /\ Go(0, "joining")
    /\ UNCHANGED <<seen, locals, running, bank_select, pipeline>>

Join ==
    /\ pc[1] = "idle" /\ core1_request # seen
    /\ seen' = core1_request /\ core1_ready' = TRUE
    /\ Go(1, "joining")
    /\ UNCHANGED <<unit, core1_request, started, core1_done, ending, handoff, edges, locals,
                   writer, bank, ghosts>>

StartWriter ==
    /\ pc[0] = "joining" /\ core1_ready
    /\ running' = TRUE /\ bank_select' = 0
    /\ started' = TRUE
    /\ Go(0, "wait")
    /\ UNCHANGED <<unit, core1_request, seen, core1_ready, core1_done, ending, handoff, edges,
                   locals, pos, pipeline, bank, ghosts>>

EnterLoop ==
    /\ pc[1] = "joining" /\ started
    /\ Go(1, "wait")
    /\ UNCHANGED <<unit, joining, ending, handoff, edges, locals, writer, bank, ghosts>>

LeaveLoop ==
    /\ pc[1] = "over"
    /\ core1_done' = TRUE
    /\ Go(1, "idle")
    /\ UNCHANGED <<unit, core1_request, seen, core1_ready, started, ending, handoff, edges, locals,
                   writer, bank, ghosts>>

FinishRun ==
    /\ pc[0] = "over" /\ core1_done
    /\ running' = FALSE /\ bank_select' = NoBank
    /\ Go(0, "idle")
    /\ UNCHANGED <<unit, joining, ending, handoff, edges, locals, pos, pipeline, bank, ghosts>>

-----------------------------------------------------------------------------
(* lane_loop.                                                              *)

(* The locals of an iteration are gone with it.                            *)
ForgetLocals(lane) ==
    /\ write_index' = [write_index EXCEPT ![lane] = 0]
    /\ switched' = [switched EXCEPT ![lane] = 0]
    /\ last' = [last EXCEPT ![lane] = FALSE]
    /\ extent' = [extent EXCEPT ![lane] = Nowhere]

Retry(lane) == Go(lane, "prepare")     \* mutant: no break after fail()
Abandon(lane) == Go(lane, "over")

(* fail: the first failure is recorded; the writer and the run stop.       *)
Fail(lane, code) ==
    /\ status' = IF status = "OK" THEN code ELSE status
    /\ fail_lane' = IF status = "OK" THEN lane ELSE fail_lane
    /\ running' = FALSE /\ bank_select' = NoBank
    /\ stopped' = TRUE
    /\ Abandon(lane)
    /\ ForgetLocals(lane)
    /\ UNCHANGED <<unit, joining, stop_requested, handoff, edges, pos, pipeline, bank, ghosts>>

LeaveStopped(lane) ==       \* the other core has ended the run
    /\ pc[lane] = "wait" /\ stopped
    /\ Go(lane, "over")
    /\ UNCHANGED <<unit, joining, ending, handoff, edges, locals, writer, bank, ghosts>>

TakeBank(lane) ==
    /\ pc[lane] = "wait" /\ ~stopped /\ valid[Mine(lane)]
    /\ valid' = [valid EXCEPT ![Mine(lane)] = FALSE]
    /\ Go(lane, "prepare")
    /\ UNCHANGED <<unit, joining, ending, busy, edges, locals, writer, bank, ghosts>>

(* 1. Sentinels where the next bank's unit is predicted to start and end.  *)
(* Core 0 also looks for a byte from the host, which ends the run.         *)
Prepare(lane, byte) ==
    LET b == Mine(lane)
        next == After(b)
        probe == Masked(start[b] + Threshold)
        endProbe == Masked(probe + Threshold)
    IN  /\ pc[lane] = "prepare"
        /\ IF bank_select # b THEN Fail(lane, "OWNER")
           ELSE IF busy[next] THEN Fail(lane, "REUSE")
           ELSE /\ bank' = [bank EXCEPT ![next] =
                              Filled(Filled(bank[next], probe, StartGuard), endProbe, EndGuard)]
                /\ start_probe' = [start_probe EXCEPT ![next] = probe]
                /\ end_probe' = [end_probe EXCEPT ![next] = endProbe]
                /\ stop_requested' = (stop_requested \/ (lane = 0 /\ byte))
                /\ Go(lane, "check")
                /\ UNCHANGED <<unit, joining, stopped, status, fail_lane, handoff, start, epoch,
                               locals, writer, ghosts>>
        /\ UNCHANGED stopped_by_host

CheckPrepared(lane) ==
    /\ pc[lane] = "check"
    /\ IF Masked(pos - start[Mine(lane)]) >= Threshold
       THEN Fail(lane, "LATE_PREPARE") /\ UNCHANGED stopped_by_host
       ELSE /\ Go(lane, "poll")
            /\ UNCHANGED <<unit, joining, ending, handoff, edges, locals, writer, bank,
                           ghosts>>

(* 2. Wait for the threshold.  Iterations that go on polling are stutters. *)
Poll(lane) ==
    LET b == Mine(lane) IN
    /\ pc[lane] = "poll"
    /\ IF stopped
       THEN /\ Go(lane, "over")
            /\ UNCHANGED <<unit, joining, ending, handoff, edges, locals, writer, bank,
                           ghosts>>
       ELSE IF pos - epoch[b] > MaxAge
       THEN Fail(lane, "LATE_POLL") /\ UNCHANGED stopped_by_host
       ELSE /\ Masked(pos - start[b]) >= Threshold
            /\ write_index' = [write_index EXCEPT ![lane] = Masked(pos)]
            /\ Go(lane, "measure")
            /\ UNCHANGED <<unit, joining, ending, handoff, edges, switched, last, extent, writer,
                           bank, ghosts>>

(* 3. Switch the writer; lane 1 ends the run.  `elapsed' adds up the ticks *)
(* since t0, so it is the time of this switch.                             *)
Expired == Duration # 0 /\ pos >= Duration
EndsEither(lane) == Expired \/ stop_requested     \* mutant: either lane ends the run
Ends(lane) == lane = 1 /\ (Expired \/ stop_requested)
Measure(lane) ==
    LET b == Mine(lane) IN
    /\ pc[lane] = "measure"
    /\ stopped_by_host' = (stopped_by_host \/ (Ends(lane) /\ ~Expired))
    /\ IF pos - epoch[b] > MaxAge
       THEN Fail(lane, "LATE_SWITCH")
       ELSE /\ busy' = [busy EXCEPT ![b] = TRUE]
            /\ switched' = [switched EXCEPT ![lane] = pos]
            /\ last' = [last EXCEPT ![lane] = Ends(lane)]
            /\ Go(lane, "switch")
            /\ UNCHANGED <<unit, joining, stopped, stop_requested, status, fail_lane, valid, edges,
                           write_index, extent, writer, bank, ghosts>>

EndWriting == running' = FALSE /\ bank_select' = NoBank /\ stopped' = TRUE
MoveWriter(lane) ==
    LET next == After(Mine(lane)) IN
    IF last[lane] THEN EndWriting /\ UNCHANGED epoch
    ELSE /\ bank_select' = next /\ epoch' = [epoch EXCEPT ![next] = switched[lane]]
         /\ UNCHANGED <<running, stopped>>

Switch(lane) ==
    /\ pc[lane] = "switch"
    /\ MoveWriter(lane)
    /\ cuts' = Append(cuts, pos)
    /\ Go(lane, "locate")
    /\ UNCHANGED <<unit, joining, stop_requested, stopped_by_host, status, fail_lane, handoff,
                   start, start_probe, end_probe, locals, pos, pipeline, bank, line>>

(* 4. Locate the unit exactly, once the pipeline has settled, and publish  *)
(* its end as the start of the next.                                       *)
SettledAtOnce(lane) == TRUE     \* mutant: does not wait
Settled(lane) == pipeline # NoPair => pipeline.bank # Mine(lane)
Locate(lane) ==
    LET b == Mine(lane)
        next == After(b)
        first == Sequence(lane) = 0
        end == FindEnd(bank[b], end_probe[b], write_index[lane],
                       IF first THEN Ring - Threshold ELSE EndGuard)
        probe == IF first THEN 0 ELSE start_probe[b]
        skip == FindFirstWritten(bank[b], probe)
        begin == Masked(probe + skip)
        count == Masked(end - begin)
        verdict == CASE end = NotFound -> "END"
                     [] end # NotFound /\ (skip >= StartGuard \/ begin # start[b]) -> "START"
                     [] OTHER -> IF count < Threshold \/ count > MaxPairs THEN "LENGTH" ELSE "OK"
    IN  /\ pc[lane] = "locate" /\ Settled(lane)
        /\ IF verdict # "OK"
           THEN Fail(lane, verdict)
           ELSE /\ IF last[lane] THEN UNCHANGED <<start, valid>>
                   ELSE /\ start' = [start EXCEPT ![next] = end]
                        /\ valid' = [valid EXCEPT ![next] = TRUE]
                /\ extent' = [extent EXCEPT ![lane] = [first |-> begin, count |-> count]]
                /\ Go(lane, "group")
                /\ UNCHANGED <<unit, joining, stopped, stop_requested, status, fail_lane, busy,
                               start_probe, end_probe, epoch, write_index, switched, last, writer,
                               bank, ghosts>>
        /\ UNCHANGED stopped_by_host

(* prepare_descriptor and the transmission.                                *)
PrepareDescriptor(lane) ==
    LET b == Mine(lane) IN
    /\ pc[lane] = "group"
    /\ bank' = [bank EXCEPT ![b] = Grouped(bank[b], extent[lane].first, extent[lane].count)]
    /\ Go(lane, "transmit")
    /\ UNCHANGED <<unit, joining, ending, handoff, edges, locals, writer, ghosts>>

Transmit(lane) ==
    /\ pc[lane] = "transmit"
    /\ line' = [line EXCEPT ![lane] =
                   [sequence |-> Sequence(lane),
                    pairs |-> Read(bank[Mine(lane)], extent[lane].first, extent[lane].count)]]
    /\ Go(lane, "release")
    /\ UNCHANGED <<unit, joining, ending, handoff, edges, locals, writer, bank, cuts>>

Release(lane) ==
    /\ pc[lane] = "release"
    /\ busy' = [busy EXCEPT ![Mine(lane)] = FALSE]
    /\ unit' = [unit EXCEPT ![lane] = unit[lane] + 1]
    /\ ForgetLocals(lane)
    /\ Go(lane, "wait")
    /\ UNCHANGED <<joining, ending, valid, edges, writer, bank, ghosts>>

-----------------------------------------------------------------------------
(* The ADC and the dump engine.                                            *)
Stored == IF pipeline = NoPair THEN bank
          ELSE [bank EXCEPT ![pipeline.bank][Masked(pipeline.pair)] = pipeline.pair]

WritePair ==
    /\ running /\ pos - cuts[Len(cuts)] < Overrun
    /\ bank' = Stored
    /\ pipeline' = [bank |-> bank_select, pair |-> pos]
    /\ pos' = pos + 1
    /\ UNCHANGED <<control, joining, ending, handoff, edges, locals, running, bank_select,
                   ghosts>>

LandPair ==
    /\ ~running /\ pipeline # NoPair
    /\ bank' = Stored /\ pipeline' = NoPair
    /\ UNCHANGED <<control, joining, ending, handoff, edges, locals, running, bank_select, pos,
                   ghosts>>

-----------------------------------------------------------------------------
Lane(lane) == \/ LeaveStopped(lane) \/ TakeBank(lane) \/ CheckPrepared(lane)
              \/ (\E byte \in BOOLEAN : Prepare(lane, byte)) \/ Poll(lane) \/ Measure(lane) \/ Switch(lane) \/ Locate(lane)
              \/ PrepareDescriptor(lane) \/ Transmit(lane) \/ Release(lane)
Core0 == StartWriter \/ Lane(0) \/ FinishRun
Core1 == Join \/ EnterLoop \/ Lane(1) \/ LeaveLoop
Writer == WritePair \/ LandPair
Next == StartRun \/ Core0 \/ Core1 \/ Writer

Spec == Init /\ [][Next]_vars
FairSpec == Spec /\ WF_vars(Core0) /\ WF_vars(Core1) /\ WF_vars(Writer)

-----------------------------------------------------------------------------
(* Types.                                                                  *)
Points == {"idle", "joining", "wait", "prepare", "check", "poll", "measure", "switch", "locate",
           "group", "transmit", "release", "over"}
TypeOK ==
    /\ pc \in [Lanes -> Points] /\ unit \in [Lanes -> Nat]
    /\ core1_request \in BOOLEAN /\ seen \in BOOLEAN /\ core1_ready \in BOOLEAN
    /\ started \in BOOLEAN /\ core1_done \in BOOLEAN
    /\ stopped \in BOOLEAN /\ stop_requested \in BOOLEAN /\ stopped_by_host \in BOOLEAN
    /\ status \in Codes /\ fail_lane \in Lanes
    /\ busy \in [Banks -> BOOLEAN] /\ valid \in [Banks -> BOOLEAN]
    /\ last \in [Lanes -> BOOLEAN]
    /\ running \in BOOLEAN /\ bank_select \in Banks \cup {NoBank}
    /\ pos \in Nat

(* A core holds the run from the moment it takes its bank until it has     *)
(* published the next one's start.                                         *)
Holding(lane) == pc[lane] \in {"prepare", "check", "poll", "measure", "switch", "locate"}

(* The cores need no lock because there is one baton: at most one core is  *)
(* between taking a bank and publishing the next, and no bank is on offer  *)
(* while one is.  All calls of fail() and all writes of the bank select    *)
(* register happen there, so they never race.                              *)
OneBaton ==
    /\ ~(Holding(0) /\ Holding(1))
    /\ \A b \in Banks : valid[b] => ~Holding(0) /\ ~Holding(1)
    /\ \A a, b \in Banks : valid[a] /\ valid[b] => a = b

(* The writer is only ever in the bank of the core that holds the baton,   *)
(* or in the bank on offer, never in one that still waits to be sent.      *)
WriterOwned ==
    started /\ running =>
        /\ \A b \in Banks : valid[b] => bank_select = b
        /\ \A lane \in Lanes :
              /\ pc[lane] \in {"prepare", "check", "poll", "measure", "switch"}
                    => bank_select = Mine(lane)
              /\ pc[lane] \in {"locate", "group", "transmit", "release"}
                    => bank_select # Mine(lane)

(* The ownership checks of prepare never fire: however slow a core is, a   *)
(* stall is caught by the timing and sentinel checks.                      *)
OwnershipUnbroken == status \notin {"OWNER", "REUSE"}

(* A transmitted unit holds exactly the pairs that were taken while the    *)
(* writer was in its bank: none is missing at either edge, stale, doubled, *)
(* or overwritten before it was sent, whatever the timing.                 *)
SentExactly ==
    \A lane \in Lanes : line[lane] # NoUnit =>
        LET n == line[lane].sequence
        IN  /\ n + 2 <= Len(cuts)
            /\ line[lane].pairs = [k \in 1 .. cuts[n + 2] - cuts[n + 1] |-> cuts[n + 1] + k - 1]

(* When a run ends without a failure both lanes have carried the same      *)
(* number of units: every unit the writer was in.                          *)
LanesEven ==
    pc[0] = "idle" /\ core1_done /\ status = "OK" =>
        unit[0] = unit[1] /\ Len(cuts) = 1 + unit[0] + unit[1]

(* Every run ends, though the cores wait on each other.                    *)
RunEnds == pc[0] = "joining" ~> pc[0] = "idle"
=============================================================================
