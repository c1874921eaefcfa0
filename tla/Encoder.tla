------------------------------ MODULE Encoder -------------------------------
(***************************************************************************)
(* The block encoder (fpga/rtl/encoder.v): block buffers that rotate       *)
(* through capture, score and emit.  EncoderClock is one clock of the      *)
(* always block for given inputs; StreamTail joins it to what follows.     *)
(*                                                                         *)
(* A pair is its place in the run.  All that a block's mode and Rice       *)
(* parameters mean for the control is how many bits each pair's code has,  *)
(* so scoring chooses those: any lengths that are together no longer than  *)
(* RAW, or none at all (MIN with a range of zero).                         *)
(***************************************************************************)
EXTENDS Integers, Sequences, Functions

CONSTANTS Banks,        \* block buffers (3)
          BlockSize,    \* pairs of a full block (1024)
          UnitBits,     \* bits of the unit that record lengths count in (16)
          WordBits,     \* bits of an output word (64)
          CodeBits,     \* lengths a pair's code can have
          MaxCode,      \* the longest of them (52)
          RawBits,      \* bits of a pair in RAW mode (20)
          HeaderWords,  \* words of a record's header (4)
          HeaderClocks, \* clocks the header's checksum takes (29)
          ScoreTail,    \* clocks of scoring beside one for each pair
          NoPair,       \* an empty pipeline stage
          NoRecord      \* a word that does not end a record

ASSUME EncoderAssumption ==
    /\ {Banks, BlockSize, UnitBits} \subseteq Nat \ {0}
    /\ WordBits % UnitBits = 0
    /\ CodeBits \subseteq 1 .. MaxCode /\ MaxCode <= WordBits
    /\ {HeaderWords, HeaderClocks, ScoreTail} \subseteq Nat \ {0}

VARIABLES
    capture_bank, score_bank, emit_bank, filled, scored,    \* the rotation
    ram,            \* the pairs of each bank
    meta,           \* what capture and score publish about each bank's block
    capture_count, closing, accepted, skipped,              \* capture
    score_left,     \* clocks until the block's score is known, 0 when idle
    emit_state, header, header_at, emit_read_at,            \* emit
    read, residual, code, joined,   \* pipeline stages: a pair and its code's bits
    reservoir_bits, packed          \* payload not sent yet; the pairs packed so far

capturing == <<capture_bank, ram, capture_count, closing, accepted, skipped>>
stages    == <<read, residual, code, joined, reservoir_bits, packed>>
emitting  == <<emit_bank, emit_state, header, header_at, emit_read_at, stages>>
encoderVars == <<capturing, score_bank, filled, scored, meta, score_left, emitting>>

Bank == 0 .. Banks - 1
Following(b) == (b + 1) % Banks
WordUnits == WordBits \div UnitBits
NoBlock == [count |-> 0, first |-> 0, bits |-> <<>>, payload |-> 0]

EncoderInit ==
    /\ capture_bank = 0 /\ score_bank = 0 /\ emit_bank = 0
    /\ filled = {} /\ scored = {}
    /\ ram = [b \in Bank |-> [i \in 1 .. BlockSize |-> NoPair]]
    /\ meta = [b \in Bank |-> NoBlock]
    /\ capture_count = 0 /\ closing = FALSE /\ accepted = 0 /\ skipped = 0
    /\ score_left = 0
    /\ emit_state = "idle" /\ header = NoBlock /\ header_at = 0 /\ emit_read_at = 0
    /\ read = NoPair /\ residual = NoPair /\ code = NoPair /\ joined = NoPair
    /\ reservoir_bits = 0 /\ packed = <<>>

-----------------------------------------------------------------------------
(* Capture.  `valid' offers the pair at place `pair', `skip' > 0 a gap.    *)
InReady == ~closing /\ capture_bank \notin filled \cup scored
Take(valid) == valid /\ InReady
CloseFull(valid) == Take(valid) /\ capture_count = BlockSize - 1
ClosePartial(valid, skip, flush) ==
    (flush \/ skip > 0) /\ capture_count # 0 /\ ~Take(valid) /\ InReady
SkipReady(skip) == skip > 0 /\ capture_count = 0 /\ ~closing

Capture(valid, pair, skip, flush) ==
    /\ ram' = IF Take(valid) THEN [ram EXCEPT ![capture_bank][capture_count + 1] = pair] ELSE ram
    /\ accepted' = IF Take(valid) THEN accepted + 1 ELSE accepted
    /\ skipped' = IF SkipReady(skip) THEN skipped + skip ELSE skipped
    /\ closing' = (CloseFull(valid) \/ ClosePartial(valid, skip, flush))
    /\ capture_bank' = IF closing THEN Following(capture_bank) ELSE capture_bank
    /\ capture_count' = IF closing THEN 0
                        ELSE IF Take(valid) THEN capture_count + 1 ELSE capture_count

(* What is published one clock after the block was closed.                 *)
Block == [NoBlock EXCEPT !.count = capture_count, !.first = accepted + skipped - capture_count]

-----------------------------------------------------------------------------
(* Score: one clock for each pair and some more.  The lengths of the codes *)
(* are those of the shortest mode.                                         *)
Payload(bits) == FoldFunction(+, 0, bits)
Lengths(count) ==
    {bits \in [1 .. count -> CodeBits] : Payload(bits) <= RawBits * count}
    \cup {[i \in 1 .. count |-> 0]}

ScoreBegins == score_left = 0 /\ score_bank \in filled \ scored
ScoreEnds == score_left = 1

Score ==
    /\ score_left' = IF ScoreBegins THEN meta[score_bank].count + ScoreTail
                     ELSE IF score_left > 0 THEN score_left - 1 ELSE 0
    /\ score_bank' = IF ScoreEnds THEN Following(score_bank) ELSE score_bank

(* Capture publishes a block, score the lengths of its codes.              *)
Publish ==
    LET captured == IF closing THEN [meta EXCEPT ![capture_bank] = Block] ELSE meta
    IN  IF ScoreEnds
        THEN \E bits \in Lengths(meta[score_bank].count) :
                meta' = [captured EXCEPT ![score_bank].bits = bits,
                                         ![score_bank].payload = Payload(bits)]
        ELSE meta' = captured

-----------------------------------------------------------------------------
(* Emit: the wires.                                                        *)
EmitDone == Len(packed) = header.count
PayloadWordEager == emit_state = "payload" /\ reservoir_bits # 0    \* mutant: words that still fill
PayloadWordReady == /\ emit_state = "payload"
                    /\ reservoir_bits >= WordBits \/ (EmitDone /\ reservoir_bits # 0)
OutValid == emit_state = "header" \/ PayloadWordReady
LastHeaderWord == emit_state = "header" /\ header_at = HeaderWords - 1
OutLast == \/ LastHeaderWord /\ header.payload = 0
           \/ PayloadWordReady /\ EmitDone /\ reservoir_bits <= WordBits
OutUnits == IF emit_state = "header" \/ reservoir_bits >= WordBits THEN WordUnits
            ELSE (reservoir_bits + UnitBits - 1) \div UnitBits

(* The word on offer.  Its record is complete with its last word; without  *)
(* a payload the header's base stands for every pair of the block.         *)
OutRecord == [index |-> header.first,
              pairs |-> IF header.payload = 0 THEN SubSeq(ram[emit_bank], 1, header.count) ELSE packed]
OutWord == [units |-> OutUnits, last |-> OutLast, record |-> IF OutLast THEN OutRecord ELSE NoRecord]

Send(ready) == OutValid /\ ready
SendLast(ready) == Send(ready) /\ OutLast
BitsAfterSend(ready) ==
    IF ~(PayloadWordReady /\ ready) THEN reservoir_bits
    ELSE IF reservoir_bits >= WordBits THEN reservoir_bits - WordBits ELSE 0

(* Each stage advances only when the next can take what it holds, and a    *)
(* code enters the reservoir only if the longest would fit.                *)
AppendCodeTight(ready) ==    \* mutant: room for the shortest code only
    emit_state = "payload" /\ joined # NoPair /\ BitsAfterSend(ready) < 2 * WordBits
AppendCodeShort(ready) ==    \* mutant: room of one word
    emit_state = "payload" /\ joined # NoPair /\ BitsAfterSend(ready) <= WordBits - MaxCode
AppendCode(ready) == /\ emit_state = "payload" /\ joined # NoPair
                     /\ BitsAfterSend(ready) <= 2 * WordBits - MaxCode
JoinCodes(ready) == /\ emit_state = "payload" /\ code # NoPair
                    /\ joined = NoPair \/ AppendCode(ready)
MakeCodes(ready) == /\ emit_state = "payload" /\ residual # NoPair
                    /\ code = NoPair \/ JoinCodes(ready)
MakeResiduals(ready) == /\ emit_state = "payload" /\ read # NoPair
                        /\ residual = NoPair \/ MakeCodes(ready)
EmitRead(ready) == /\ emit_state = "payload" /\ emit_read_at < header.count
                   /\ read = NoPair \/ MakeResiduals(ready)

(* A stage after a clock in which it is filled from `source' or drained.   *)
Stage(stage, fills, source, drains) ==
    IF fills THEN source ELSE IF drains THEN NoPair ELSE stage

ReadPair == [pair |-> ram[emit_bank][emit_read_at + 1], bits |-> header.bits[emit_read_at + 1]]

Pack(ready) ==
    /\ read' = IF SendLast(ready) THEN NoPair
               ELSE Stage(read, EmitRead(ready), ReadPair, MakeResiduals(ready))
    /\ residual' = Stage(residual, MakeResiduals(ready), read, MakeCodes(ready))
    /\ code' = Stage(code, MakeCodes(ready), residual, JoinCodes(ready))
    /\ joined' = Stage(joined, JoinCodes(ready), code, AppendCode(ready))
    /\ emit_read_at' = IF EmitRead(ready) THEN emit_read_at + 1 ELSE emit_read_at
    /\ IF AppendCode(ready)
       THEN /\ reservoir_bits' = BitsAfterSend(ready) + joined.bits
            /\ packed' = Append(packed, joined.pair)
       ELSE reservoir_bits' = BitsAfterSend(ready) /\ UNCHANGED packed

EmptyStages ==
    /\ read' = NoPair /\ residual' = NoPair /\ code' = NoPair /\ joined' = NoPair
    /\ reservoir_bits' = 0 /\ packed' = <<>> /\ emit_read_at' = 0

(* Emit: the state machine.  header_at counts the clocks of the checksum,  *)
(* then the header's words.                                                *)
EmitIdle ==
    /\ emit_state = "idle"
    /\ IF emit_bank \in scored
       THEN emit_state' = "crc" /\ header' = meta[emit_bank] /\ header_at' = 0
       ELSE UNCHANGED <<emit_state, header, header_at>>
    /\ UNCHANGED <<emit_read_at, stages>>

EmitCrc ==
    /\ emit_state = "crc"
    /\ IF header_at = HeaderClocks - 1
       THEN emit_state' = "header" /\ header_at' = 0
       ELSE header_at' = header_at + 1 /\ UNCHANGED emit_state
    /\ UNCHANGED <<header, emit_read_at, stages>>

EmitHeader(ready) ==
    /\ emit_state = "header"
    /\ IF Send(ready) /\ LastHeaderWord
       THEN /\ emit_state' = IF OutLast THEN "idle" ELSE "payload"
            /\ UNCHANGED header_at
            /\ EmptyStages
       ELSE /\ header_at' = IF ready THEN header_at + 1 ELSE header_at
            /\ UNCHANGED <<emit_state, emit_read_at, stages>>
    /\ UNCHANGED header

EmitPayload(ready) ==
    /\ emit_state = "payload"
    /\ Pack(ready)
    /\ emit_state' = IF SendLast(ready) THEN "idle" ELSE "payload"
    /\ UNCHANGED <<header, header_at>>

Emit(ready) == EmitIdle \/ EmitCrc \/ EmitHeader(ready) \/ EmitPayload(ready)

(* Banks become filled and scored, and free when their record is sent.     *)
Rotate(ready) ==
    LET sent == IF SendLast(ready) THEN {emit_bank} ELSE {}
    IN  /\ filled' = (filled \cup (IF closing THEN {capture_bank} ELSE {})) \ sent
        /\ scored' = (scored \cup (IF ScoreEnds THEN {score_bank} ELSE {})) \ sent
        /\ emit_bank' = IF SendLast(ready) THEN Following(emit_bank) ELSE emit_bank

EncoderClock(valid, pair, skip, flush, ready) ==
    /\ Capture(valid, pair, skip, flush)
    /\ Score
    /\ Publish
    /\ Emit(ready)
    /\ Rotate(ready)

(* reset: everything but the memories and what is set before it is used.   *)
EncoderReset ==
    /\ capture_bank' = 0 /\ score_bank' = 0 /\ emit_bank' = 0
    /\ filled' = {} /\ scored' = {}
    /\ capture_count' = 0 /\ closing' = FALSE /\ accepted' = 0 /\ skipped' = 0
    /\ score_left' = 0 /\ emit_state' = "idle"
    /\ read' = NoPair /\ residual' = NoPair /\ code' = NoPair /\ joined' = NoPair
    /\ reservoir_bits' = 0 /\ packed' = <<>>
    /\ UNCHANGED <<ram, meta, header, header_at, emit_read_at>>
=============================================================================
