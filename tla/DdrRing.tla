------------------------------ MODULE DdrRing -------------------------------
(***************************************************************************)
(* The DDR3 ring between the packer and the FT600 (fpga/rtl/ddr_ring.v).   *)
(* One step of the specification is one clock of the memory controller's   *)
(* user interface: RunClock is the `run' branch of the always block,       *)
(* ClearClock the `clearing' branch and ResetClock the `reset' branch.     *)
(*                                                                         *)
(* Around the ring, from how stream.v connects it: the ingress FIFO, whose *)
(* head beat stays on offer until it is taken; the output FIFO, of which   *)
(* the ring sees the level; and the MIG, which accepts commands and write  *)
(* data independently, executes commands in order and answers reads later. *)
(* The source numbers the beats of a stream as the testbench does          *)
(* (tests/rtl/tb_ring.v), here modulo Wrap, and that number is the data.   *)
(***************************************************************************)
EXTENDS RingBeats, Sequences

CONSTANTS Size,         \* beats the memory holds (2^ADDR_BITS)
          Reserve,      \* RESERVE_BEATS: beats the longest record spans
          Burst,        \* BURST_BEATS: beats of one USB transfer
          MaxReads,     \* MAX_READS: read commands in flight
          OutSize,      \* beats the output FIFO holds (2^OUT_ADDR_BITS)
          OutHalf,      \* output level that lets writes preempt reads (256)
          Quantum,      \* commands before the bus turns around (128)
          NoBeat        \* no beat

ASSUME SizeAssumption ==
    /\ Size \in Nat /\ Reserve \in Nat /\ Burst \in Nat
    /\ 2 <= Reserve /\ Reserve <= Size
    /\ 1 <= Burst
ASSUME OutAssumption ==
    /\ MaxReads \in Nat \ {0} /\ OutSize \in Nat /\ OutHalf \in Nat
    /\ OutSize > 2
ASSUME ClockAssumption ==
    Quantum \in Nat \ {0}
ASSUME BeatAssumption == NoBeat \notin Int

VARIABLES
    allocated, written, committed, issued, reclaimed,   \* pointers, in beats
    reservedEnd,    \* where the current record's reservation ends
    burstLeft,      \* beats left of the granted read burst
    pending, commandDone, dataDone, value, commit, address,  \* the write in flight
    writeTurn, quota,                                   \* arbitration
    clear, clearPending,                                \* start of a new stream
    errors,         \* the error counter, 0 or 1: any error stops the ring
    calibrated,     \* the MIG is ready
    head,           \* beat offered by the ingress FIFO, or NoBeat
    length,         \* beats taken of the record that is still incomplete
    mem,            \* the DDR3 contents
    reads,          \* data of the read commands the MIG has not answered yet
    outLevel,       \* fill of the output FIFO, as the ring sees it
    out             \* the last beat pushed into the output FIFO

pointers == <<allocated, written, committed, issued, reclaimed, reservedEnd, burstLeft>>
writing  == <<pending, commandDone, dataDone, value, commit, address>>
turns    == <<writeTurn, quota>>
clearing == <<clear, clearPending>>
outside  == <<calibrated, head, length, mem, reads, outLevel, out>>
vars     == <<pointers, writing, turns, clearing, errors, outside>>

-----------------------------------------------------------------------------
(* Pointers are ADDR_BITS + 1 bits wide: they count modulo 2 * Size.       *)
Wrap == 2 * Size
Pointer == 0 .. Wrap - 1
Slot == 0 .. Size - 1
Inc(p) == IF p + 1 = Wrap THEN 0 ELSE p + 1
Plus(p, n) == IF p + n >= Wrap THEN p + n - Wrap ELSE p + n
Sub(p, q) == IF q <= p THEN p - q ELSE p - q + Wrap
SlotOf(p) == IF p >= Size THEN p - Size ELSE p

-----------------------------------------------------------------------------
(* The wires of ddr_ring.v.                                                *)
isClearing == clear \/ clearPending

(* The beats the packer offers next - it is reset by a clear - and the     *)
(* beats of the incomplete record once one has been taken.                 *)
NextBeats == BeatsAfter(length, Reserve, IF isClearing THEN 0 ELSE Sub(reservedEnd, allocated))
LengthAfter(beat) == LengthWith(length, beat)

run == calibrated /\ errors = 0 /\ ~isClearing
occupancy == Sub(allocated, reclaimed)
outstanding == Sub(issued, reclaimed)
readable == Sub(committed, issued)
haveReadWorkUngranted == readable # 0 \/ outstanding # 0    \* mutant: waits for a burst
haveReadWork == (burstLeft # 0 /\ readable # 0) \/ outstanding # 0
wantRead == /\ burstLeft # 0
            /\ readable # 0
            /\ outLevel + outstanding < OutSize - 2
            /\ outstanding < MaxReads
chooseRead == run /\ wantRead /\ ~writeTurn
burstReadyEarly == burstLeft = 0 /\ readable # 0    \* mutant: any readable beat starts a burst
burstReady == burstLeft = 0 /\ readable >= Burst
quietTooSoon == ~pending    \* mutant: forgets the reads in flight
quiet == ~pending /\ outstanding = 0
ReservationShort == Plus(allocated, Reserve - 1)    \* mutant: forgets the shared first beat
Reservation == Plus(allocated, Reserve)
inReady == /\ run
           /\ ~pending
           /\ occupancy < Size
           /\ head # NoBeat => (head.start => occupancy <= Size - Reserve)
take == head # NoBeat /\ inReady

(* Handshakes of this clock, from app_rdy and app_wdf_rdy.                 *)
WriteCommand(rdy) == /\ calibrated /\ rdy /\ ~chooseRead
                     /\ writeTurn \/ isClearing
                     /\ pending /\ ~commandDone
ReadCommand(rdy) == chooseRead /\ rdy
DataAccepted(wdf) == calibrated /\ pending /\ ~dataDone /\ wdf
WriteComplete(rdy, wdf) == /\ pending
                           /\ commandDone \/ WriteCommand(rdy)
                           /\ dataDone \/ DataAccepted(wdf)

-----------------------------------------------------------------------------
ResetPointers ==
    /\ allocated' = 0 /\ written' = 0 /\ committed' = 0 /\ issued' = 0 /\ reclaimed' = 0
    /\ reservedEnd' = 0 /\ burstLeft' = 0
    /\ pending' = FALSE /\ commandDone' = FALSE /\ dataDone' = FALSE
    /\ writeTurn' = TRUE /\ quota' = 0
    /\ errors' = 0
    /\ UNCHANGED <<value, commit, address>>

Init ==
    /\ allocated = 0 /\ written = 0 /\ committed = 0 /\ issued = 0 /\ reclaimed = 0
    /\ reservedEnd = 0 /\ burstLeft = 0
    /\ pending = FALSE /\ commandDone = FALSE /\ dataDone = FALSE
    /\ value = NoBeat /\ commit = "none" /\ address = 0
    /\ writeTurn = TRUE /\ quota = 0
    /\ clear = FALSE /\ clearPending = FALSE
    /\ errors = 0
    /\ calibrated = FALSE
    /\ head = NoBeat /\ length = 0
    /\ mem = [s \in Slot |-> NoBeat]
    /\ reads = <<>>
    /\ outLevel = 0 /\ out = NoBeat

-----------------------------------------------------------------------------
(* The parts of a running clock.                                           *)

(* A beat is taken into the write register; the record's reservation is    *)
(* made or checked.                                                        *)
TakeBeat ==
    IF take
    THEN /\ reservedEnd' = IF head.start THEN Reservation ELSE reservedEnd
         /\ value' = allocated
         /\ commit' = head.commit
         /\ address' = SlotOf(allocated)
         /\ allocated' = Inc(allocated)
         /\ length' = LengthAfter(head)
         /\ head' = NoBeat
    ELSE /\ UNCHANGED <<reservedEnd, value, commit, address, allocated, length>>
         /\ head' \in IF head = NoBeat THEN {NoBeat} \cup NextBeats ELSE {head}

Overrun == take /\ ~head.start /\ allocated = reservedEnd

(* The write register: filled by a take, emptied when both the command and *)
(* the data have been accepted; the beat is then in memory and the records *)
(* that ended with it become readable.                                     *)
AdvanceWrite(rdy, wdf) ==
    /\ pending' = (take \/ (pending /\ ~WriteComplete(rdy, wdf)))
    /\ commandDone' = (~take /\ (commandDone \/ WriteCommand(rdy)))
    /\ dataDone' = (~take /\ (dataDone \/ DataAccepted(wdf)))
    /\ mem' = IF WriteComplete(rdy, wdf) THEN [mem EXCEPT ![address] = value] ELSE mem

CommitBeat(rdy, wdf) ==    \* mutant: commits the beat a record ended inside
    IF WriteComplete(rdy, wdf)
    THEN /\ written' = Inc(written)
         /\ committed' = IF commit = "none" THEN committed ELSE Inc(written)
    ELSE UNCHANGED <<written, committed>>

Commit(rdy, wdf) ==
    IF WriteComplete(rdy, wdf)
    THEN /\ written' = Inc(written)
         /\ committed' = CASE commit = "none"   -> committed
                           [] commit = "inside" -> written
                           [] commit = "whole"  -> Inc(written)
    ELSE UNCHANGED <<written, committed>>

(* Write and read quanta take turns.                                       *)
CountQuantum(done) ==
    IF ~done THEN UNCHANGED turns
    ELSE IF quota = Quantum - 1
         THEN writeTurn' = ~writeTurn /\ quota' = 0
         ELSE quota' = quota + 1 /\ UNCHANGED writeTurn

Arbitrate(rdy, wdf, deep) ==
    LET idleWriter == ~pending /\ ~take
        yieldReads == \/ ~haveReadWork
                      \/ deep /\ outLevel >= OutHalf /\ (pending \/ inReady)
    IN  IF (writeTurn /\ idleWriter) \/ (~writeTurn /\ yieldReads)
        THEN writeTurn' = ~writeTurn /\ quota' = 0
        ELSE CountQuantum(IF writeTurn THEN WriteComplete(rdy, wdf) ELSE ReadCommand(rdy))

(* Reads: a whole burst is granted once it is readable, commands are sent  *)
(* while the output FIFO has room for every response.                      *)
IssueReads(rdy) ==
    IF ReadCommand(rdy)
    THEN issued' = Inc(issued) /\ burstLeft' = burstLeft - 1
    ELSE /\ UNCHANGED issued
         /\ burstLeft' = IF burstReady THEN Burst ELSE burstLeft

Store(resp, pop) ==
    LET storable == outstanding # 0 /\ outLevel < OutSize
        pushed == resp /\ storable
    IN  /\ reclaimed' = IF pushed THEN Inc(reclaimed) ELSE reclaimed
        /\ out' = IF pushed THEN reads[1] ELSE out
        /\ outLevel' = outLevel + (IF pushed THEN 1 ELSE 0)
                                - (IF pop /\ outLevel > 0 THEN 1 ELSE 0)
        /\ errors' = IF Overrun \/ (resp /\ ~storable) THEN errors + 1 ELSE errors

(* The MIG: it answers the oldest read and accepts another one.            *)
AnswerReads(rdy, resp) ==
    LET rest == IF resp THEN Tail(reads) ELSE reads
    IN  reads' = IF ReadCommand(rdy) THEN Append(rest, mem[SlotOf(issued)]) ELSE rest

(* One clock of a running ring.  rdy, wdf, resp: app_rdy, app_wdf_rdy and  *)
(* app_rd_data_valid; pop: USB takes a beat; deep: in_level >= 256.        *)
Run(rdy, wdf, resp, pop, deep) ==
    /\ run
    /\ resp => reads # <<>>
    /\ deep => head # NoBeat
    /\ TakeBeat
    /\ AdvanceWrite(rdy, wdf)
    /\ Commit(rdy, wdf)
    /\ Arbitrate(rdy, wdf, deep)
    /\ IssueReads(rdy)
    /\ Store(resp, pop)
    /\ AnswerReads(rdy, resp)
    /\ UNCHANGED <<clearing, calibrated>>

RunClock == \E rdy, wdf, resp, pop, deep \in BOOLEAN : Run(rdy, wdf, resp, pop, deep)

-----------------------------------------------------------------------------
(* A new stream is requested (stream.v: clear_sync).  The same signal      *)
(* holds the FIFOs on both sides, and the path in front of them, in reset. *)
RaiseClear ==
    /\ calibrated /\ ~clear
    /\ clear' = TRUE
    /\ head' = NoBeat /\ length' = 0 /\ outLevel' = 0 /\ out' = NoBeat
    /\ UNCHANGED <<pointers, writing, turns, clearPending, errors, calibrated, mem, reads>>

DropClear ==
    /\ clear /\ clearPending
    /\ clear' = FALSE
    /\ UNCHANGED <<pointers, writing, turns, clearPending, errors, outside>>

(* One clock of the clearing branch: the transactions already started are  *)
(* finished, responses are discarded, then the pointers are reset - or     *)
(* they are when clear_wait expires.  The count is abstracted to `expired':*)
(* a MIG that has not finished within CLEAR_TIMEOUT clocks never will.     *)
FinishTransactions(rdy, wdf, resp) ==
    /\ commandDone' = (commandDone \/ WriteCommand(rdy))
    /\ dataDone' = (dataDone \/ DataAccepted(wdf))
    /\ pending' = (pending /\ ~WriteComplete(rdy, wdf))
    /\ reclaimed' = IF resp /\ outstanding # 0 THEN Inc(reclaimed) ELSE reclaimed
    /\ clearPending' = TRUE
    /\ UNCHANGED <<allocated, written, committed, issued, reservedEnd, burstLeft,
                   value, commit, address, turns, errors>>

RestartQuiet(resp, expired) == ~clear /\ quiet /\ ~resp    \* mutant: no timeout
Restart(resp, expired) == ~clear /\ ((quiet /\ ~resp) \/ expired)

Clearing(rdy, wdf, resp, expired) ==
    /\ isClearing /\ calibrated
    /\ resp => reads # <<>>
    /\ expired => ~clear /\ ~quiet
    /\ IF Restart(resp, expired)
       THEN ResetPointers /\ clearPending' = FALSE
       ELSE FinishTransactions(rdy, wdf, resp)
    /\ mem' = IF WriteComplete(rdy, wdf) THEN [mem EXCEPT ![address] = value] ELSE mem
    /\ reads' = IF expired THEN <<>> ELSE IF resp THEN Tail(reads) ELSE reads
    /\ head' \in IF ~clear /\ head = NoBeat THEN {NoBeat} \cup NextBeats ELSE {head}
    /\ UNCHANGED <<clear, calibrated, length, outLevel, out>>

ClearClock == \E rdy, wdf, resp, expired \in BOOLEAN : Clearing(rdy, wdf, resp, expired)

(* The MIG and everything around the ring are reset, and calibrate again.  *)
ResetClock ==
    /\ calibrated
    /\ calibrated' = FALSE
    /\ ResetPointers
    /\ clearPending' = FALSE /\ clear' = FALSE
    /\ head' = NoBeat /\ length' = 0 /\ outLevel' = 0 /\ out' = NoBeat
    /\ reads' = <<>>
    /\ UNCHANGED mem

Calibrate == /\ ~calibrated
             /\ calibrated' = TRUE
             /\ UNCHANGED <<pointers, writing, turns, clearing, errors,
                            head, length, mem, reads, outLevel, out>>

Next == RunClock \/ RaiseClear \/ DropClear \/ ClearClock \/ ResetClock \/ Calibrate

Spec == Init /\ [][Next]_vars

-----------------------------------------------------------------------------
(* Fairness.  The clock never stops.  While the ring runs, the MIG         *)
(* infinitely often accepts and answers and USB infinitely often takes a   *)
(* beat (ServingClock), and the MIG does not refuse exactly the reads for  *)
(* ever.  While the ring clears, only the timeout is certain: the MIG may  *)
(* have stalled.  An ingress FIFO that is empty need never fill again.     *)
ServingClock == \E deep \in BOOLEAN : Run(TRUE, TRUE, reads # <<>>, TRUE, deep)
ExpiringClock == Clearing(FALSE, FALSE, FALSE, ~quiet)

FairSpec == /\ Spec
            /\ WF_vars(ServingClock) /\ SF_vars(ServingClock /\ chooseRead)
            /\ WF_vars(Calibrate) /\ WF_vars(DropClear) /\ WF_vars(ExpiringClock)

-----------------------------------------------------------------------------
(* Types of all variables.                                                 *)
TypeOK ==
    /\ allocated \in Pointer /\ written \in Pointer /\ committed \in Pointer
    /\ issued \in Pointer /\ reclaimed \in Pointer /\ reservedEnd \in Pointer
    /\ burstLeft \in 0 .. Burst
    /\ pending \in BOOLEAN /\ commandDone \in BOOLEAN /\ dataDone \in BOOLEAN
    /\ value \in Pointer \cup {NoBeat}
    /\ commit \in {"none", "inside", "whole"}
    /\ address \in Slot
    /\ writeTurn \in BOOLEAN /\ quota \in 0 .. Quantum - 1
    /\ clear \in BOOLEAN /\ clearPending \in BOOLEAN
    /\ errors \in {0, 1}
    /\ calibrated \in BOOLEAN
    /\ head \in Beat \cup {NoBeat}
    /\ length \in 0 .. Reserve - 1
    /\ mem \in [Slot -> Pointer \cup {NoBeat}]
    /\ reads \in Seq(Pointer \cup {NoBeat})
    /\ outLevel \in 0 .. OutSize
    /\ out \in Pointer \cup {NoBeat}

(* The pointers chase each other round the ring and never pass: reclaimed, *)
(* issued, committed, written and allocated follow in this order within    *)
(* one turn, and allocated leads written by the write in flight.           *)
PointerOrder ==
    ~isClearing =>
        /\ outstanding <= Sub(committed, reclaimed)
        /\ Sub(committed, reclaimed) <= Sub(written, reclaimed)
        /\ occupancy = Sub(written, reclaimed) + (IF pending THEN 1 ELSE 0)
        /\ occupancy <= Size

(* The error counter never moves: no record overruns its reservation, no   *)
(* response comes unexpected, and the output FIFO has room for each one.   *)
(* An error stops the ring until the next clear (ddr_ring.v:165, :223).    *)
NoErrors == errors = 0

(* Only whole records are readable, and all of them once no write is in    *)
(* flight: committed stands where the incomplete record begins.            *)
WholeRecordsReadable ==
    ~isClearing => LET behind == Sub(allocated, committed)
                   IN  /\ behind >= length
                       /\ ~pending => behind = length

(* The reservation always covers the rest of the incomplete record: the    *)
(* record can be finished without waiting for a read, so a reader that has *)
(* drained everything readable never finds half a record stuck.            *)
ReservationHolds ==
    ~isClearing /\ length # 0 =>
        /\ Sub(reservedEnd, allocated) = Reserve - length
        /\ occupancy + (Reserve - length) <= Size

(* A read burst, once granted, is backed by data that is already readable: *)
(* a USB transfer that has started never waits for the encoder.            *)
BurstBacked == burstLeft <= readable

(* What makes the ring safe to read in bursts.                             *)
RingSafe == NoErrors /\ WholeRecordsReadable /\ BurstBacked

(* The detailed ring implements the bounded FIFO of whole records.  A beat *)
(* is found in the response of its read once that is issued, in memory     *)
(* once it is written, and before that in the write register.              *)
StoredBeat(i) ==
    LET p == Plus(reclaimed, i - 1)
    IN  IF i <= outstanding THEN reads[i]
        ELSE IF pending /\ i = occupancy THEN value ELSE mem[SlotOf(p)]

Fifo == INSTANCE RecordFifo WITH
    queue <- IF isClearing THEN <<>> ELSE [i \in 1 .. occupancy |-> StoredBeat(i)],
    open  <- length,
    whole <- IF isClearing THEN 0 ELSE Sub(committed, reclaimed)

ImplementsFifo == Fifo!Spec

(* A beat on offer is taken, or a new stream discards it: the reservation  *)
(* rule, the bursts and the turns never starve the encoder.                *)
InputDrains == head # NoBeat ~> head = NoBeat

(* A new stream always begins: once the request ends, the ring leaves the  *)
(* clearing branch even if the MIG never answers again.                    *)
ClearEnds == clearPending /\ ~clear ~> (clear \/ ~clearPending)
=============================================================================
