----------------------------- MODULE AsyncFifo -----------------------------
(***************************************************************************)
(* The FIFO between two clock domains (fpga/rtl/async_fifo.v).  Each       *)
(* domain owns a pointer and sees the other one through a two-stage        *)
(* synchronizer.  A register that samples a pointer on the edge at which   *)
(* it changes may take the old or the new value of each bit separately;    *)
(* the pointers cross in Gray code, of which one bit changes at a time.    *)
(*                                                                         *)
(* The two clocks tick in any order and at any rate.  A word carries the   *)
(* pointer at which it was written, which tells apart all that are stored  *)
(* (the FIFO never looks at its words).  Pointers are kept as the numbers  *)
(* they stand for (wr_bin, rd_bin) and cross as their bits.                *)
(***************************************************************************)
EXTENDS Integers, Sequences, FiniteSetsExt

CONSTANTS AddrBits,     \* ADDR_BITS, at least 2: full compares two top bits
          Modes         \* the values of SHOW_AHEAD to check

ASSUME FifoAssumption == AddrBits \in Nat \ {0, 1} /\ Modes \subseteq BOOLEAN

TwoTo[i \in 0 .. AddrBits + 1] == IF i = 0 THEN 1 ELSE 2 * TwoTo[i - 1]
Depth == TwoTo[AddrBits]
Pointer == 0 .. 2 * Depth - 1
Payloads == Pointer
Bits == 0 .. AddrBits
Plus(a, n) == (a + n) % (2 * Depth)
Minus(a, b) == (a - b) % (2 * Depth)

VARIABLES
    show_ahead,                         \* SHOW_AHEAD of this instance
    wr_bin, rd_bin,                     \* the pointers
    wr_before, rd_before,               \* the same before the latest edge of either clock
    rd_gray_sync1, rd_gray_sync2,       \* the write domain's synchronizer
    wr_gray_sync1, wr_gray_sync2,       \* the read domain's
    memory, rd_valid, rd_data,
    clear, wr_reset, rd_reset           \* the run's clear, and as each domain has it

writeSide == <<wr_bin, rd_gray_sync1, rd_gray_sync2, memory>>
readSide == <<rd_bin, wr_gray_sync1, wr_gray_sync2, rd_valid, rd_data>>
resets == <<clear, wr_reset, rd_reset>>
fifo == <<show_ahead, writeSide, readSide, wr_before, rd_before, resets>>
-----------------------------------------------------------------------------
Bit(n, i) == (n \div TwoTo[i]) % 2
Gray(n) == [i \in Bits |-> (Bit(n, i) + Bit(n, i + 1)) % 2]

\* Each bit is the parity of the Gray bits from it up: of its own and the bit
\* above.  `from' is the number that the bits from i up make.
FromGray(g) ==
    LET from[i \in 0 .. AddrBits + 1] ==
            IF i > AddrBits THEN 0 ELSE 2 * from[i + 1] + ((g[i] + from[i + 1]) % 2)
    IN  from[0]

\* What a register that samples a pointer may hold: every bit old or new.
Sampled(before, now) ==
    {g \in [Bits -> {0, 1}] : \A i \in Bits : g[i] \in {Gray(before)[i], Gray(now)[i]}}

undecoded == MapThenSumSet(LAMBDA i : TwoTo[i] * rd_gray_sync2[i], Bits)     \* mutant
rd_bin_in_wr_domain == FromGray(rd_gray_sync2)
wr_bin_in_rd_domain == FromGray(wr_gray_sync2)
wr_level == Minus(wr_bin, rd_bin_in_wr_domain)
rd_level == Plus(Minus(wr_bin_in_rd_domain, rd_bin), IF show_ahead /\ rd_valid THEN 1 ELSE 0)

\* The top two bits differ and the others agree.
Turned(g) == [i \in Bits |-> IF i >= AddrBits - 1 THEN 1 - g[i] ELSE g[i]]
full == Gray(wr_bin) = Turned(rd_gray_sync2)
empty == Gray(rd_bin) = wr_gray_sync2
-----------------------------------------------------------------------------
FifoInit ==
    /\ show_ahead \in Modes
    /\ wr_bin = 0 /\ rd_bin = 0
    /\ wr_before = 0 /\ rd_before = 0
    /\ rd_gray_sync1 = Gray(0) /\ rd_gray_sync2 = Gray(0)
    /\ wr_gray_sync1 = Gray(0) /\ wr_gray_sync2 = Gray(0)
    /\ memory = [a \in 0 .. Depth - 1 |-> 0]
    /\ rd_valid = FALSE /\ rd_data = 0
    /\ clear = FALSE /\ wr_reset = FALSE /\ rd_reset = FALSE

\* At an edge the other domain's pointer may still be changing if it was the
\* other clock that had the edge before; one edge later it has settled.
EitherEdge == wr_before' = wr_bin /\ rd_before' = rd_bin

WriteClock ==
    /\ ~wr_reset /\ EitherEdge
    /\ rd_gray_sync1' \in Sampled(rd_before, rd_bin)
    /\ rd_gray_sync2' = rd_gray_sync1
    /\ \/ UNCHANGED <<wr_bin, memory>>      \* no wr_valid, or full and counted in overflow
       \/ /\ ~full
          /\ memory' = [memory EXCEPT ![wr_bin % Depth] = wr_bin]
          /\ wr_bin' = Plus(wr_bin, 1)
    /\ UNCHANGED <<show_ahead, readSide, resets>>

WriteResetClock ==
    /\ wr_reset /\ EitherEdge
    /\ wr_bin' = 0
    /\ rd_gray_sync1' = Gray(0) /\ rd_gray_sync2' = Gray(0)
    /\ UNCHANGED <<show_ahead, memory, readSide, resets>>

readAdvance(rd_enable) == IF show_ahead THEN ~rd_valid \/ rd_enable ELSE rd_enable

ReadClock(rd_enable) ==
    /\ ~rd_reset /\ EitherEdge
    /\ wr_gray_sync1' \in Sampled(wr_before, wr_bin)
    /\ wr_gray_sync2' = wr_gray_sync1
    /\ rd_valid' = IF ~show_ahead \/ readAdvance(rd_enable)
                   THEN readAdvance(rd_enable) /\ ~empty ELSE rd_valid
    /\ IF readAdvance(rd_enable) /\ ~empty
       THEN rd_data' = memory[rd_bin % Depth] /\ rd_bin' = Plus(rd_bin, 1)
       ELSE UNCHANGED <<rd_data, rd_bin>>
    /\ UNCHANGED <<show_ahead, writeSide, resets>>

ReadResetClock ==
    /\ rd_reset /\ EitherEdge
    /\ rd_bin' = 0 /\ rd_valid' = FALSE
    /\ wr_gray_sync1' = Gray(0) /\ wr_gray_sync2' = Gray(0)
    /\ UNCHANGED <<show_ahead, rd_data, writeSide, resets>>

\* The run's clear reaches each domain through a synchronizer of its own and
\* is held for sixteen clocks, so that both are in reset and settled before
\* it is dropped (iqstream_top.v 111-114).
RaiseClear ==
    /\ ~clear /\ ~wr_reset /\ ~rd_reset
    /\ clear' = TRUE
    /\ UNCHANGED <<show_ahead, writeSide, readSide, wr_before, rd_before, wr_reset, rd_reset>>

droppedEarly == wr_reset /\ rd_reset     \* mutant: no time to settle
settled == wr_reset /\ rd_reset /\ wr_bin = 0 /\ rd_bin = 0 /\ wr_before = 0 /\ rd_before = 0
                /\ rd_gray_sync1 = Gray(0) /\ rd_gray_sync2 = Gray(0)
                /\ wr_gray_sync1 = Gray(0) /\ wr_gray_sync2 = Gray(0) /\ ~rd_valid
DropClear ==
    /\ clear /\ settled
    /\ clear' = FALSE
    /\ UNCHANGED <<show_ahead, writeSide, readSide, wr_before, rd_before, wr_reset, rd_reset>>

ResetFollows ==
    /\ \/ wr_reset # clear /\ wr_reset' = clear /\ UNCHANGED rd_reset
       \/ rd_reset # clear /\ rd_reset' = clear /\ UNCHANGED wr_reset
    /\ UNCHANGED <<show_ahead, writeSide, readSide, wr_before, rd_before, clear>>

Writing == WriteClock \/ WriteResetClock
Reading == ReadResetClock \/ \E rd_enable \in BOOLEAN : ReadClock(rd_enable)
Resetting == RaiseClear \/ DropClear \/ ResetFollows

FifoNext == Writing \/ Reading \/ Resetting
FifoSpec == FifoInit /\ [][FifoNext]_fifo

\* The reader asks for a word.
Taking == ReadClock(TRUE) \/ ReadResetClock

-----------------------------------------------------------------------------
\* Whatever the clocks do, the words come out in order, each once, and none
\* is read before it is written or overwritten before it is read
\* (async_fifo.v 3-5).
stored == Minus(wr_bin, rd_bin)
contents == IF clear THEN <<>> ELSE [i \in 1 .. stored |-> memory[Plus(rd_bin, i - 1) % Depth]]
Fifo == INSTANCE ClockedFifo WITH Words <- Payloads, open <- ~clear, word <- rd_data, queue <- contents
ImplementsFifo == Fifo!Spec

\* Each domain errs to the safe side: the writer never sees more room than
\* there is, the reader never more words, which ddr_ring.v and usb_tx.v build
\* their reservations and whole transfers on.
LevelsSafe ==
    ~clear => /\ stored <= wr_level /\ wr_level <= Depth
              /\ rd_level <= stored + (IF show_ahead /\ rd_valid THEN 1 ELSE 0)

\* A word that was written and whose run goes on is read, however the two
\* clocks relate: the pointers always cross in the end.
WordsArrive == <>[](~clear /\ stored > 0) => []<><<rd_bin' # rd_bin>>_rd_bin
=============================================================================
