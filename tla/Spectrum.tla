------------------------------ MODULE Spectrum ------------------------------
(***************************************************************************)
(* The spectrum engine (host/src/spectrum.cpp): batches of samples from    *)
(* the decoder are queued, the oldest dropped when the engine is slow, and *)
(* the engine's thread transforms blocks of samples, evenly spaced over    *)
(* periods of sample time, and makes one frame of each period.  Settings   *)
(* and runs change at any time.                                            *)
(*                                                                         *)
(* A sample is its run and its index in it; the transform is left out.  A  *)
(* setting is [size, pairs, averaging]: `pairs' is the sample rate over    *)
(* the frame rate.                                                         *)
(***************************************************************************)
EXTENDS Integers, Sequences, FiniteSets, SequencesExt, FiniteSetsExt

CONSTANTS SpectrumSettings,
          BatchSizes,       \* pairs of a batch
          QueuedBatches,    \* kQueuedBatches (2)
          NoBatch,
          MaxIndex, MaxRuns, MaxChanges     \* bounds: samples of a run, runs, new settings

SpectrumBatches == [run : Nat, first : Nat, samples : Seq(Nat \X Nat)]
Engines == [applied : Nat, run : Nat, size : Nat, frame_pairs : Nat, per_frame : Nat, stride : Nat]
FramesMade == [run : Nat, index : Nat, of : Engines, blocks : Seq(Seq(Nat \X Nat))]

ASSUME SpectrumAssumption ==
    /\ SpectrumSettings \subseteq [size : Nat \ {0}, pairs : Nat, averaging : Nat]
    /\ BatchSizes \subseteq Nat \ {0} /\ QueuedBatches \in Nat \ {0}
    /\ {MaxIndex, MaxRuns, MaxChanges} \subseteq Nat
    /\ NoBatch \notin SpectrumBatches \cup FramesMade

VARIABLES
    run, next,              \* the run, and the index of its next sample
    wanted, version,        \* settings_
    queue,
    current, available,     \* what process() works on, and the first sample it has
    engine,                 \* the engine's own: the settings in use and what they amount to
    carry, carry_first,
    frame, slot,            \* the frame being accumulated and its next block
    blocks,                 \* ghost: the blocks accumulated, as they were read
    heard,                  \* ghost: samples that reached the engine since it was last set up
    made                    \* ghost: the last frame made

producer == <<run, next>>
accumulator == <<frame, slot, blocks, made>>
spectrum == <<producer, wanted, version, queue, current, available, engine, carry, carry_first,
              accumulator, heard>>

SpectrumInit ==
    /\ run = 1 /\ next = 0
    /\ wanted \in SpectrumSettings /\ version = 1
    /\ queue = <<>> /\ current = NoBatch /\ available = 0
    /\ engine = [applied |-> 0, run |-> 0, size |-> 0, frame_pairs |-> 0, per_frame |-> 0, stride |-> 0]
    /\ carry = <<>> /\ carry_first = 0 /\ frame = 0 /\ slot = 0
    /\ blocks = <<>> /\ heard = {} /\ made = NoBatch

-----------------------------------------------------------------------------
(* begin_run, add (which the decoder calls; samples may be missing between *)
(* two batches) and configure.                                             *)
EngineStays == UNCHANGED <<current, available, engine, carry, carry_first, accumulator, heard>>
NewRun ==
    /\ run < MaxRuns /\ run' = run + 1 /\ next' = 0
    /\ UNCHANGED <<wanted, version, queue>> /\ EngineStays
WithRoom(q) == IF Len(q) >= QueuedBatches THEN Tail(q) ELSE q
AddBatch(count) ==
    /\ next + count <= MaxIndex /\ next' = next + count
    /\ queue' = Append(WithRoom(queue), [run |-> run, first |-> next,
                                         samples |-> [i \in 1 .. count |-> <<run, next + i - 1>>]])
    /\ UNCHANGED <<run, wanted, version>> /\ EngineStays
Lose(count) ==
    /\ next + count <= MaxIndex /\ next' = next + count
    /\ UNCHANGED <<run, wanted, version, queue>> /\ EngineStays
ConfigureSpectrum(new) ==
    /\ version <= MaxChanges /\ version' = version + 1 /\ wanted' = new
    /\ UNCHANGED <<producer, queue>> /\ EngineStays

-----------------------------------------------------------------------------
(* work: a batch is taken; with new settings or a new run all starts anew, *)
(* at the first whole period.                                              *)
SetUp(s, of_run) ==
    LET frame_pairs == Max({s.size, s.pairs})
        per_frame == IF s.averaging # 0 THEN s.averaging ELSE Max({1, frame_pairs \div s.size})
    IN  [applied |-> version, run |-> of_run, size |-> s.size, frame_pairs |-> frame_pairs,
         per_frame |-> per_frame,
         stride |-> IF per_frame > 1 THEN (frame_pairs - s.size) \div (per_frame - 1) ELSE 0]
Joins(b) == carry # <<>> /\ carry_first + Len(carry) = b.first
BegunPeriod(first, frame_pairs) == first \div frame_pairs     \* mutant: rounds down
FirstWhole(first, frame_pairs) == (first + frame_pairs - 1) \div frame_pairs
SameVersion == version # engine.applied         \* mutant: a run goes on in the frames of the one before
StartsAnew == version # engine.applied \/ Head(queue).run # engine.run
Take ==
    /\ current = NoBatch /\ queue # <<>>
    /\ current' = Head(queue) /\ queue' = Tail(queue)
    /\ LET b == Head(queue)
           s == SetUp(wanted, b.run)
           indices == {sample[2] : sample \in Range(b.samples)}
       IN  IF StartsAnew
           THEN /\ engine' = s /\ frame' = FirstWhole(b.first, s.frame_pairs)
                /\ slot' = 0 /\ blocks' = <<>> /\ carry' = <<>> /\ available' = b.first
                /\ heard' = indices
           ELSE /\ carry' = IF Joins(b) THEN carry ELSE <<>>
                /\ available' = IF Joins(b) THEN carry_first ELSE b.first
                /\ heard' = heard \cup indices
                /\ UNCHANGED <<engine, frame, slot, blocks>>
    /\ UNCHANGED <<producer, wanted, version, carry_first, made>>

(* process, block by block.                                                *)
FrameStart == frame * engine.frame_pairs
Position == FrameStart + slot * engine.stride
End == current.first + Len(current.samples)
FinishFrame ==
    /\ made' = IF blocks = <<>> THEN made
               ELSE [run |-> engine.run, index |-> FrameStart, of |-> engine, blocks |-> blocks]
    /\ blocks' = <<>>
NextFrame(f) == FinishFrame /\ frame' = f /\ slot' = 0
ProcessStays == UNCHANGED <<producer, wanted, version, queue, engine, heard>>

(* The block cannot be made any more.                                      *)
NextSlot == IF engine.stride = 0 THEN engine.per_frame
            ELSE (available - FrameStart + engine.stride - 1) \div engine.stride
Skip ==
    /\ current # NoBatch /\ Position < available
    /\ IF available >= FrameStart + engine.frame_pairs THEN NextFrame(available \div engine.frame_pairs)
       ELSE IF NextSlot >= engine.per_frame THEN NextFrame(frame + 1)
       ELSE slot' = NextSlot /\ UNCHANGED <<frame, blocks, made>>
    /\ UNCHANGED <<current, available, carry, carry_first>> /\ ProcessStays

BlockRead ==
    LET from_carry == current.first - Position
        all == IF from_carry <= 0 THEN SubSeq(current.samples, 1 - from_carry, Len(current.samples))
               ELSE SubSeq(carry, Len(carry) - from_carry + 1, Len(carry)) \o current.samples
    IN  SubSeq(all, 1, engine.size)
Transform ==
    /\ current # NoBatch /\ Position >= available /\ Position + engine.size <= End
    /\ IF slot + 1 = engine.per_frame
       THEN /\ made' = [run |-> engine.run, index |-> FrameStart, of |-> engine, blocks |-> Append(blocks, BlockRead)]
            /\ blocks' = <<>> /\ frame' = frame + 1 /\ slot' = 0
       ELSE blocks' = Append(blocks, BlockRead) /\ slot' = slot + 1 /\ UNCHANGED <<frame, made>>
    /\ UNCHANGED <<current, available, carry, carry_first>> /\ ProcessStays

(* The tail is kept for a block that straddles into the next batch.        *)
KeptShort == Min({engine.size - 1, Len(current.samples)})     \* mutant: of this batch alone
KeptTail == Min({engine.size - 1, End - available})
KeepTail ==
    /\ current # NoBatch /\ Position >= available /\ Position + engine.size > End
    /\ carry' = IF KeptTail <= Len(current.samples)
                THEN SubSeq(current.samples, Len(current.samples) - KeptTail + 1, Len(current.samples))
                ELSE SubSeq(carry, Len(carry) - (KeptTail - Len(current.samples)) + 1, Len(carry)) \o current.samples
    /\ carry_first' = End - KeptTail
    /\ current' = NoBatch /\ available' = 0
    /\ UNCHANGED accumulator /\ ProcessStays

SpectrumNext ==
    \/ NewRun \/ (\E count \in BatchSizes : AddBatch(count) \/ Lose(count)) \/ (\E s \in SpectrumSettings : ConfigureSpectrum(s))
    \/ Take \/ Skip \/ Transform \/ KeepTail

SpectrumSpec == SpectrumInit /\ [][SpectrumNext]_spectrum

-----------------------------------------------------------------------------
(* A block is `size' consecutive samples of its run, across batches too,   *)
(* and lies within the period of its frame, each at its own place.         *)
Indices(block) == {block[i][2] : i \in DOMAIN block}
BlocksWhole ==
    made # NoBatch =>
        \A b \in DOMAIN made.blocks :
            LET block == made.blocks[b] IN
            /\ Len(block) = made.of.size
            /\ \A i \in DOMAIN block : block[i] = <<made.run, block[1][2] + i - 1>>
            /\ Indices(block) \subseteq made.index .. made.index + made.of.frame_pairs - 1
            /\ b > 1 => made.blocks[b - 1][1][2] + made.of.stride <= block[1][2]

(* A period of which every sample reached the engine is not passed over:    *)
(* its frame is made, of all its blocks.                                    *)
Period(f) == f * engine.frame_pairs .. (f + 1) * engine.frame_pairs - 1
FramesWhole ==
    [][engine' = engine /\ frame' > frame =>
           \A f \in frame .. frame' - 1 :
               Period(f) \subseteq heard =>
                   /\ made' # NoBatch /\ made'.index = f * engine.frame_pairs
                   /\ Len(made'.blocks) = engine.per_frame]_frame

(* Frames follow each other: within a run the next frame is a later one,   *)
(* also across changes of the settings, and no run comes back.             *)
FramesRise ==
    [][made # NoBatch /\ made' # made =>
           \/ made'.run > made.run
           \/ made'.run = made.run /\ made'.index > made.index]_made

(* Every frame that can be made is made, whole, of whole blocks, in order. *)
FramesInOrder == [][BlocksWhole']_made /\ FramesWhole /\ FramesRise
=============================================================================
