------------------------------- MODULE UsbTx -------------------------------
(***************************************************************************)
(* The transmitter to the FT600 (fpga/rtl/usb_tx.v) with the output queue  *)
(* in front of it.  One step is one period of the FT600's clock, whose     *)
(* phases follow each other: at its edge the FT600 takes the word on the   *)
(* pads if WR and TXE are low; `control' samples the two; `launch' puts    *)
(* the next word on the pads, `write_launch' sets WR; the FT600 drives TXE *)
(* anew; `work' updates everything else.  So sampled_txe and sampled_wr    *)
(* are the txe and wr_pad at the beginning of the step.                    *)
(*                                                                         *)
(* A word is the stream it belongs to and its number in it.                *)
(***************************************************************************)
EXTENDS Naturals

CONSTANTS BlockWords,   \* 16-bit words of a block, a DDR beat (8)
          Words,        \* WORDS of a transfer (2^19)
          StartLevel,   \* blocks in the queue before a transfer starts (255)
          QueueSize,    \* blocks of the queue (512)
          NoWord,       \* what reset leaves in the registers
          MaxBlocks     \* bound: blocks of a stream

ASSUME UsbAssumption ==
    /\ {BlockWords, Words, StartLevel} \subseteq Nat \ {0}
    /\ Words % BlockWords = 0
    /\ QueueSize \in Nat /\ StartLevel <= QueueSize /\ MaxBlocks \in Nat

VARIABLES
    txe,                            \* as the FT600 drives it since its last edge
    level, valid, next_word,        \* the queue: blocks, head shown, its first word
    word_valid, word, block, beat,  \* the next word to launch and its block
    pad_valid, pads, wr_pad,        \* the pads
    running, left, words_left, halted, pad_reset,
    stream, due                     \* ghosts: the run, the word to be taken next

queue == <<level, valid, next_word>>
fetch == <<word_valid, word, block, beat>>
transfer == <<running, left, words_left, halted>>
usb == <<txe, queue, fetch, pad_valid, pads, wr_pad, transfer, pad_reset, stream, due>>

Word == [stream : {0, 1}, number : Nat]
First(s) == [stream |-> s, number |-> 0]
After(w, n) == [w EXCEPT !.number = @ + n]

UsbInit ==
    /\ txe = TRUE
    /\ level = 0 /\ valid = FALSE /\ next_word = First(0)
    /\ word_valid = FALSE /\ word = NoWord /\ block = NoWord /\ beat = 0
    /\ pad_valid = FALSE /\ pads = NoWord /\ wr_pad = TRUE
    /\ running = FALSE /\ left = 0 /\ words_left = FALSE /\ halted = FALSE
    /\ pad_reset = TRUE
    /\ stream = 0 /\ due = First(0)

-----------------------------------------------------------------------------
(* The wires within one period.                                            *)
Accepted == ~wr_pad /\ ~txe
Loading == running /\ word_valid /\ words_left
Loaded == ~pad_reset /\ Loading /\ (~pad_valid \/ ~txe)
NeedBlock == ~word_valid \/ (Loaded /\ beat = BlockWords - 1)
Pop == NeedBlock /\ valid

StartsBlind == ~running /\ ~halted /\ word_valid /\ level >= StartLevel    \* mutant: whatever TXE is
Starts == ~running /\ ~halted /\ word_valid /\ level >= StartLevel /\ ~txe
Ends == Accepted /\ ~Loaded
HaltsNever == FALSE                      \* mutant: the next transfer goes on
Halts == Ends /\ left # 0

(* launch: the data pads are clocked only while TXE is low.                *)
LaunchData ==
    pads' = IF txe THEN pads ELSE IF pad_reset THEN NoWord ELSE word

(* write_launch                                                            *)
LaunchWrite ==
    wr_pad' = (pad_reset \/ ~running \/ (~(pad_valid /\ txe) /\ ~Loading))

-----------------------------------------------------------------------------
(* work                                                                    *)
Count ==
    /\ running' = (~Ends /\ (Starts \/ running))
    /\ halted' = (halted \/ Halts)
    /\ left' = IF Loaded THEN left - 1 ELSE IF Starts THEN Words ELSE left
    /\ words_left' = IF Loaded THEN left # 1 ELSE Starts \/ words_left
    /\ pad_valid' = (Loaded \/ (pad_valid /\ ~Accepted))

NextWord ==
    IF NeedBlock
    THEN /\ word_valid' = valid
         /\ IF valid THEN block' = next_word /\ word' = next_word /\ beat' = 0
            ELSE UNCHANGED <<block, word, beat>>
    ELSE /\ IF Loaded THEN beat' = beat + 1 /\ word' = After(block, beat + 1)
            ELSE UNCHANGED <<beat, word>>
         /\ UNCHANGED <<word_valid, block>>

(* The queue shows its head and gets `arrivals' more blocks.               *)
MoveQueue(arrivals) ==
    LET shows == (Pop \/ ~valid) /\ level > 0
    IN  /\ level + arrivals <= QueueSize
        /\ arrivals # 0 =>
              next_word.number + (level + arrivals + 1) * BlockWords <= MaxBlocks * BlockWords
        /\ valid' = (shows \/ (valid /\ ~Pop))
        /\ level' = level + arrivals - (IF shows THEN 1 ELSE 0)
        /\ next_word' = IF Pop THEN After(next_word, BlockWords) ELSE next_word

Pads == LaunchData /\ LaunchWrite

(* A period without and with reset.  The pads are reset a period later.    *)
Cycle(ft_txe, arrivals) ==
    /\ Pads
    /\ txe' = ft_txe
    /\ Count /\ NextWord /\ MoveQueue(arrivals)
    /\ pad_reset' = FALSE
    /\ due' = IF pad_reset THEN First(stream) ELSE IF Accepted THEN After(due, 1) ELSE due
    /\ UNCHANGED stream

ResetCycle(ft_txe) ==
    /\ Pads
    /\ txe' = ft_txe
    /\ level' = 0 /\ valid' = FALSE
    /\ word_valid' = FALSE /\ word' = NoWord /\ block' = NoWord /\ beat' = 0
    /\ pad_valid' = FALSE /\ running' = FALSE /\ left' = 0 /\ words_left' = FALSE
    /\ halted' = FALSE
    /\ pad_reset' = TRUE
    /\ IF pad_reset
       THEN due' = First(stream) /\ UNCHANGED <<stream, next_word>>
       ELSE /\ stream' = 1 - stream
            /\ next_word' = First(1 - stream)
            /\ due' = IF Accepted THEN After(due, 1) ELSE due

UsbNext == \E ft_txe \in BOOLEAN :
            (\E arrivals \in 0 .. QueueSize : Cycle(ft_txe, arrivals)) \/ ResetCycle(ft_txe)

UsbSpec == UsbInit /\ [][UsbNext]_usb

(* The clock runs and the FT600 is ready again and again, as long as the   *)
(* host reads; nothing is assumed of the queue.                            *)
ReadyCycle == Cycle(FALSE, 0)

-----------------------------------------------------------------------------
UsbTypeOK ==
    /\ {txe, valid, word_valid, pad_valid, wr_pad, running, words_left, halted, pad_reset}
       \subseteq BOOLEAN
    /\ level \in 0 .. QueueSize /\ left \in 0 .. Words /\ beat \in 0 .. BlockWords - 1
    /\ {next_word, due} \subseteq Word /\ {word, block, pads} \subseteq Word \cup {NoWord}

(* The FT600 gets every word of a stream, each once and in order, whatever *)
(* TXE does - although the words already run on when TXE falls or rises,   *)
(* and the pads are clocked by TXE and WR is not (usb_tx.v 7-9; what       *)
(* tests/rtl/tb_usb.v checks on one pattern of stalls).                    *)
InOrder == Accepted => pads = due

(* WR stays low for a whole transfer, also across stalls, and rises inside *)
(* one only to halt until the next reset; it never halts between two       *)
(* (usb_tx.v 3-5).                                                         *)
WholeTransfers == wr_pad /\ ~pad_reset => (halted <=> due.number % Words # 0)

(* What the FT600 is given: every word once, in whole transfers.           *)
UsbSafe == InOrder /\ WholeTransfers

(* A transfer whose first block is there starts, and one that has started  *)
(* ends: whole, by running dry, or by a reset.                             *)
TransfersRun ==
    /\ level >= StartLevel /\ valid /\ word_valid /\ ~halted ~> ~wr_pad \/ pad_reset
    /\ ~wr_pad ~> wr_pad
=============================================================================
