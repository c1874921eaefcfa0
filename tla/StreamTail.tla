----------------------------- MODULE StreamTail -----------------------------
(***************************************************************************)
(* What follows the reorder (fpga/rtl/stream.v): the encoder, the queue of *)
(* two words behind it, the END record and the padding to whole USB        *)
(* transfers, and the packer that cuts the words into DDR beats            *)
(* (fpga/rtl/packer.v).  One step is one clock of all of them.             *)
(*                                                                         *)
(* Lengths count in units of 16 bits.  A unit of the packed stream is      *)
(* known by whether it begins or ends a record.  `position', `sent',       *)
(* `record', `total', `length' and `reserved' only observe: the true       *)
(* sample time, the pairs accepted and not yet packed, what was packed,    *)
(* and how many beats the DDR ring holds of an incomplete record and still *)
(* has reserved.                                                           *)
(***************************************************************************)
EXTENDS Encoder, RingBeats

CONSTANTS IdleTop,      \* clocks without input before a flush (8191)
          DrainTop,     \* clocks without output before the END record (8191)
          TransferUnits,\* units of a USB transfer (2^19)
          PadUnits,     \* units of a piece of padding (512)
          Reserve,      \* RESERVE_BEATS of the ring
          Gaps,         \* lengths of the gaps the reorder reports
          MaxItems,     \* bound: pairs, gaps and clocks of arrival in all
          ResetItems,   \* bound: how many of them a new run may have
          MaxResets     \* bound: new runs

ASSUME TailAssumption ==
    /\ {IdleTop, DrainTop, MaxItems} \subseteq Nat \ {0} /\ MaxResets \in Nat
    /\ ResetItems \in 0 .. MaxItems
    /\ PadUnits % (2 * WordUnits) = 0 /\ TransferUnits % PadUnits = 0
    /\ HeaderWords >= 3     \* so no two records end within the packer
    /\ DrainTop >= BlockSize + ScoreTail + HeaderClocks + 4     \* longest pause of the encoder

VARIABLES
    flush, offer, items,            \* the reorder: stopped, what it offers, how often
    idle, drained,                  \* clocks without input, without output
    queue,                          \* the queue of two words
    end_state, end_at, transfer, end_index,     \* END record and padding
    held, commit_at, start_at, record_start,    \* the packer
    position, sent, record, total, length, reserved, resets

source  == <<flush, offer, items>>
timers  == <<idle, drained>>
trailer == <<end_state, end_at, transfer, end_index>>
packer  == <<held, commit_at, start_at, record_start>>
history == <<position, sent, record, total, length, reserved, resets>>
vars    == <<encoderVars, source, timers, queue, trailer, packer, history>>

BeatUnits == 2 * WordUnits
NoOffer == [pair |-> FALSE, skip |-> 0]
Offers == {[pair |-> TRUE, skip |-> 0]} \cup {[pair |-> FALSE, skip |-> n] : n \in Gaps}
Unit == [first : BOOLEAN, last : BOOLEAN]

TailInit ==
    /\ idle = 0 /\ drained = 0 /\ queue = <<>>
    /\ end_state = "wait" /\ end_at = 0 /\ transfer = 0 /\ end_index = 0
    /\ held = <<>> /\ commit_at = 0 /\ start_at = 0 /\ record_start = TRUE

Init ==
    /\ EncoderInit /\ TailInit
    /\ flush = FALSE /\ offer = NoOffer /\ items = 0
    /\ position = 0 /\ sent = <<>> /\ record = NoRecord /\ total = NoRecord
    /\ length = 0 /\ reserved = 0 /\ resets = 0

-----------------------------------------------------------------------------
(* The wires: packer, trailer and queue.                                   *)
BeatValid == Len(held) >= BeatUnits
Pop(ready) == BeatValid /\ ready
Remaining(ready) == IF Pop(ready) THEN Len(held) - BeatUnits ELSE Len(held)
PackerReady(ready) == Remaining(ready) <= BeatUnits

TrailerValid == end_state \in {"send", "pad"}
TrailerUnits == IF end_state = "pad" THEN WordUnits - (transfer % WordUnits) ELSE WordUnits
TransferNext == (transfer + TrailerUnits) % TransferUnits
TrailerLast == IF end_state = "send" THEN end_at = HeaderWords - 1 ELSE TransferNext % PadUnits = 0

EncodedReady == Len(queue) < 2
QueuePush == Send(EncodedReady)
QueuePop(ready) == queue # <<>> /\ PackerReady(ready)

PackerWord == IF TrailerValid
              THEN [units |-> TrailerUnits, last |-> TrailerLast, record |-> NoRecord]
              ELSE Head(queue)
PackerTake(ready) == (queue # <<>> \/ TrailerValid) /\ PackerReady(ready)

(* The beat the packer offers to the ring.                                 *)
OutStartEarly == start_at # 0    \* mutant: announces the next beat's start
OutStart == start_at # 0 /\ start_at <= BeatUnits
OutCommit == IF commit_at > BeatUnits THEN 0 ELSE commit_at
OutBeat == [start |-> OutStart,
            commit |-> CASE OutCommit = 0         -> "none"
                         [] OutCommit = BeatUnits -> "whole"
                         [] OTHER                 -> "inside"]

-----------------------------------------------------------------------------
(* The reorder's side: an offer stays until it is accepted.  Once the      *)
(* receiver has stopped, input pauses for less than IdleTop clocks until   *)
(* it ends for good.                                                       *)
Accepted == Take(offer.pair) \/ SkipReady(offer.skip)

NextOffer(arriving) ==
    /\ flush' \in {flush, TRUE}
    /\ arriving => items < MaxItems /\ idle # IdleTop
    /\ LET used == IF arriving THEN items + 1 ELSE items
       IN  \/ offer' = (IF Accepted THEN NoOffer ELSE offer) /\ items' = used
          \/ /\ Accepted \/ offer = NoOffer
             /\ used < MaxItems /\ idle' # IdleTop
             /\ offer' \in Offers
             /\ items' = used + 1

(* Clocks without input, counted once the receiver has stopped, and then   *)
(* without output.  `arriving': pairs come in on a lane.                   *)
CountIdle(arriving) ==
    idle' = IF ~flush \/ offer # NoOffer \/ arriving THEN 0
            ELSE IF idle = IdleTop THEN idle ELSE idle + 1

CountDrainedInput ==    \* mutant: silence of the input is enough
    drained' = IF idle # IdleTop THEN 0
               ELSE IF drained = DrainTop THEN drained ELSE drained + 1
CountDrained ==
    drained' = IF idle # IdleTop \/ OutValid \/ queue # <<>> THEN 0
               ELSE IF drained = DrainTop THEN drained ELSE drained + 1

MoveQueue(ready) ==
    queue' = (IF QueuePop(ready) THEN Tail(queue) ELSE queue)
             \o (IF QueuePush THEN <<OutWord>> ELSE <<>>)

-----------------------------------------------------------------------------
(* END record and padding.  end_at counts the clocks of the END record's   *)
(* checksum, then its words.                                               *)
EndWait ==
    /\ end_state = "wait"
    /\ IF drained = DrainTop
       THEN end_state' = "crc" /\ end_index' = accepted + skipped /\ end_at' = 0
       ELSE UNCHANGED <<end_state, end_index, end_at>>

EndCrc ==
    /\ end_state = "crc"
    /\ IF end_at = HeaderClocks - 1
       THEN end_state' = "send" /\ end_at' = 0
       ELSE end_at' = end_at + 1 /\ UNCHANGED end_state
    /\ UNCHANGED end_index

EndSend(ready) ==
    /\ end_state = "send"
    /\ IF PackerReady(ready) /\ TrailerLast
       THEN end_state' = (IF TransferNext = 0 THEN "done" ELSE "pad") /\ UNCHANGED end_at
       ELSE end_at' = (IF PackerReady(ready) THEN end_at + 1 ELSE end_at) /\ UNCHANGED end_state
    /\ UNCHANGED end_index

EndPadPiece(ready) ==    \* mutant: one piece of padding
    /\ end_state = "pad"
    /\ end_state' = IF PackerReady(ready) /\ TransferNext % PadUnits = 0 THEN "done" ELSE "pad"
    /\ UNCHANGED <<end_at, end_index>>
EndPad(ready) ==
    /\ end_state = "pad"
    /\ end_state' = IF PackerReady(ready) /\ TransferNext = 0 THEN "done" ELSE "pad"
    /\ UNCHANGED <<end_at, end_index>>

EndDone == end_state = "done" /\ UNCHANGED <<end_state, end_at, end_index>>

Trail(ready) ==
    /\ EndWait \/ EndCrc \/ EndSend(ready) \/ EndPad(ready) \/ EndDone
    /\ transfer' = IF TrailerValid /\ PackerReady(ready) THEN TransferNext
                   ELSE IF QueuePop(ready) THEN (transfer + Head(queue).units) % TransferUnits
                   ELSE transfer

-----------------------------------------------------------------------------
(* The packer: units move down when a beat leaves, a word is put on top.   *)
MarkedUnits(word) ==
    [i \in 1 .. word.units |-> [first |-> record_start /\ i = 1, last |-> word.last /\ i = word.units]]

Lowered(at, ready) ==
    IF ~Pop(ready) THEN at ELSE IF at > BeatUnits THEN at - BeatUnits ELSE 0

PackWord(ready) ==
    LET kept == IF Pop(ready) THEN SubSeq(held, BeatUnits + 1, Len(held)) ELSE held
    IN  IF PackerTake(ready)
        THEN /\ held' = kept \o MarkedUnits(PackerWord)
             /\ start_at' = IF record_start THEN Remaining(ready) + 1 ELSE Lowered(start_at, ready)
             /\ commit_at' = IF PackerWord.last THEN Remaining(ready) + PackerWord.units
                             ELSE Lowered(commit_at, ready)
             /\ record_start' = PackerWord.last
        ELSE /\ held' = kept
             /\ start_at' = Lowered(start_at, ready)
             /\ commit_at' = Lowered(commit_at, ready)
             /\ UNCHANGED record_start

-----------------------------------------------------------------------------
(* What an observer of the two ends sees.                                  *)
Observe(ready) ==
    LET packedRecord == IF PackerTake(ready) THEN PackerWord.record ELSE NoRecord
        staying == IF packedRecord = NoRecord THEN sent
                   ELSE SubSeq(sent, Len(packedRecord.pairs) + 1, Len(sent))
    IN  /\ position' = IF Take(offer.pair) THEN position + 1
                       ELSE IF SkipReady(offer.skip) THEN position + offer.skip ELSE position
        /\ sent' = IF Take(offer.pair) THEN Append(staying, position) ELSE staying
        /\ record' = IF packedRecord = NoRecord THEN record ELSE packedRecord
        /\ total' = IF end_state = "send" /\ PackerReady(ready) /\ TrailerLast
                    THEN end_index ELSE total
        /\ length' = IF Pop(ready) THEN LengthWith(length, OutBeat) ELSE length
        /\ reserved' = IF ~Pop(ready) THEN reserved
                       ELSE IF OutStart THEN Reserve - 1 ELSE reserved - 1
        /\ UNCHANGED resets

(* One clock; `ready': the ingress FIFO is not full.                       *)
Clock(ready, arriving) ==
    /\ EncoderClock(offer.pair, position, offer.skip, idle = IdleTop, EncodedReady)
    /\ CountIdle(arriving)
    /\ CountDrained
    /\ NextOffer(arriving)
    /\ MoveQueue(ready)
    /\ Trail(ready)
    /\ PackWord(ready)
    /\ Observe(ready)

(* A new run begins: everything here is reset.                             *)
Reset ==
    /\ resets < MaxResets
    /\ EncoderReset
    /\ idle' = 0 /\ drained' = 0 /\ queue' = <<>>
    /\ end_state' = "wait" /\ end_at' = 0 /\ transfer' = 0 /\ end_index' = 0
    /\ held' = <<>> /\ commit_at' = 0 /\ start_at' = 0 /\ record_start' = TRUE
    /\ flush' = FALSE /\ offer' = NoOffer
    /\ items' = IF items < MaxItems - ResetItems THEN MaxItems - ResetItems ELSE items
    /\ position' = 0 /\ sent' = <<>> /\ record' = NoRecord /\ total' = NoRecord
    /\ length' = 0 /\ reserved' = 0 /\ resets' = resets + 1

Next == (\E ready, arriving \in BOOLEAN : Clock(ready, arriving)) \/ Reset

Spec == Init /\ [][Next]_vars

(* The ring goes on taking beats, and the run is stopped.                  *)
StoppedClock == Clock(TRUE, FALSE) /\ flush'
FairSpec == Spec /\ WF_vars(StoppedClock)

-----------------------------------------------------------------------------
(* Every register stays in its width; in particular neither reservoir      *)
(* overflows.                                                              *)
TypeOK ==
    /\ capture_count \in 0 .. BlockSize /\ score_left \in 0 .. BlockSize + ScoreTail
    /\ reservoir_bits \in 0 .. 2 * WordBits
    /\ emit_state \in {"idle", "crc", "header", "payload"}
    /\ end_state \in {"wait", "crc", "send", "pad", "done"}
    /\ transfer \in 0 .. TransferUnits - 1
    /\ held \in Seq(Unit) /\ Len(held) <= 3 * WordUnits
    /\ Len(queue) <= 2
    /\ commit_at \in 0 .. 3 * WordUnits /\ start_at \in 0 .. 3 * WordUnits

(* The packed records are the stream of the run: every pair the encoder    *)
(* accepted is in one record at its true place, gaps are exact, and END    *)
(* comes after all of them with the true total - although blocks are       *)
(* scored and sent while others are captured, a gap or a flush closes them *)
(* early, and END waits for nothing but silence.                           *)
Promised == INSTANCE SampleStream WITH pending <- sent
ImplementsStream == Promised!Spec

(* The beats are those the DDR ring relies on: their commit is the end of  *)
(* the last record that ends in them, and with their start they can follow *)
(* the beats before - although start_at and commit_at remember one place   *)
(* each, and padding can begin and end inside one beat.                    *)
LastEnd == {i \in 1 .. BeatUnits : held[i].last /\ \A j \in i + 1 .. BeatUnits : ~held[j].last}
BeatsFitRing ==
    BeatValid => /\ LastEnd = IF OutCommit = 0 THEN {} ELSE {OutCommit}
                 /\ OutStart => \E i \in 1 .. BeatUnits : held[i].first
                 /\ OutBeat \in BeatsAfter(length, Reserve, reserved)

(* After END the stream is filled up to a whole transfer, to the last beat.*)
WholeTransfers ==
    end_state = "done" => transfer = 0 /\ (Len(held) % BeatUnits = 0) /\ queue = <<>>

(* What the packer hands the DDR ring, in registers that are wide enough.  *)
BeatsSafe == TypeOK /\ BeatsFitRing /\ WholeTransfers

(* A word the encoder offers does not change while it waits for the queue  *)
(* (tests/rtl/tb_encoder.v checks this on its one input).                  *)
StalledWordStays == [][(OutValid /\ ~EncodedReady => OutWord' = OutWord) \/ resets' # resets]_vars

(* A run that was stopped takes what was offered, packs all of it, and     *)
(* sends its END record and padding to the last beat.                      *)
StreamEnds == []<>(offer = NoOffer /\ sent = <<>> /\ end_state = "done" /\ held = <<>>)
=============================================================================
