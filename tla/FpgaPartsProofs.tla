-------------------------- MODULE FpgaPartsProofs --------------------------
(***************************************************************************)
(* What holds in three parts of the FPGA for every size and whatever their *)
(* clocks do.                                                              *)
(*                                                                         *)
(* The USB transmitter: WR is low exactly while the pads hold a word not   *)
(* yet accepted, and the word fetched is always the one after it.  Between *)
(* the start of a transfer and its first launch the pads already hold the  *)
(* first word, because a transfer starts only in a period with TXE low.    *)
(*                                                                         *)
(* The copies of statistics: a token runs once around the ring             *)
(*    request -> request_meta -> request_stable -> acknowledge             *)
(*            -> acknowledge_meta -> acknowledge_stable -> request         *)
(* between two toggles: what has not yet followed the request is all at    *)
(* the far end, so the destination takes `held` only when the source has   *)
(* long stopped loading it.  A poll of such a copy by words publishes a    *)
(* value the copy really had between the poll's beginning and its end,     *)
(* because copies only grow and the low word is read again when the high   *)
(* one moved.                                                              *)
(*                                                                         *)
(* The FIFO between two clocks: of the code of a pointer and of the next   *)
(* one a single bit differs, because adding one carries into a bit exactly *)
(* when it carries into the one below and that is set.  So a synchronizer  *)
(* that samples a moving pointer holds one the other side really had, and  *)
(* the pointers each side knows are in order.                              *)
(***************************************************************************)
EXTENDS UsbTx, StatusPoll, AsyncFifo, NaturalsInduction, WellFoundedInduction, TLAPS

-----------------------------------------------------------------------------
(* The USB transmitter.                                                    *)
OnPads == IF pad_valid THEN 1 ELSE 0

(* After a reset nothing is under way.                                     *)
AfterReset ==
    pad_reset => /\ ~word_valid /\ ~valid /\ ~pad_valid /\ ~running /\ ~halted
                 /\ left = 0 /\ next_word = First(stream)

(* The words fetched are those that follow the ones accepted.              *)
Fetched ==
    ~pad_reset =>
        /\ next_word.stream = stream /\ due.stream = stream
        /\ word_valid => /\ block \in Word /\ word = After(block, beat)
                         /\ next_word = After(block, BlockWords)
                         /\ word.number = due.number + OnPads
        /\ ~word_valid => next_word.number = due.number + OnPads

(* What the pads hold.                                                     *)
Launched ==
    /\ ~wr_pad => pads = due
    /\ ~pad_reset => (pad_valid <=> ~wr_pad)
    /\ pad_valid => running
    /\ running /\ ~pad_valid => word_valid /\ words_left /\ pads = word

(* Where the transfer began, and what is left of it.                       *)
Began == due.number + OnPads + left - Words
Counted ==
    /\ words_left <=> left # 0
    /\ pad_valid => left < Words
    /\ running /\ ~pad_valid => left = Words
    /\ running => ~halted /\ Began \in Nat /\ Began % Words = 0
    /\ ~running /\ ~halted /\ ~pad_reset => due.number % Words = 0
    /\ halted => due.number % Words # 0

UsbInv == UsbTypeOK /\ AfterReset /\ Fetched /\ Launched /\ Counted

-----------------------------------------------------------------------------
LEMMA Division ==
  ASSUME NEW n \in Nat, NEW w \in Nat \ {0}
  PROVE  n = w * (n \div w) + (n % w) /\ n \div w \in Nat
  BY SMT

LEMMA Remainder ==
  ASSUME NEW w \in Nat \ {0}, NEW q \in Nat, NEW r \in 0 .. w - 1
  PROVE  (w * q + r) % w = r
  BY SMT

(* Where a transfer ends and the places inside it, counted from a start.   *)
LEMMA PlaceOfEnd ==
  ASSUME NEW w \in Nat \ {0}, NEW n \in Nat, n % w = 0
  PROVE  (n + w) % w = 0
<1> DEFINE q == n \div w
<1>1. n = w * q /\ q \in Nat
  BY Division
<1> HIDE DEF q
<1>2. n + w = w * (q + 1) + 0
  BY <1>1
<1>3. QED
  BY <1>1, <1>2, Remainder

LEMMA PlaceInside ==
  ASSUME NEW w \in Nat \ {0}, NEW n \in Nat, n % w = 0, NEW d \in 1 .. w - 1
  PROVE  (n + d) % w = d
<1> DEFINE q == n \div w
<1>1. n = w * q /\ q \in Nat
  BY Division
<1> HIDE DEF q
<1>2. n + d = w * q + d /\ d \in 0 .. w - 1
  BY <1>1
<1>3. QED
  BY <1>1, <1>2, Remainder

-----------------------------------------------------------------------------
LEMMA Initially == UsbInit => UsbInv
<1> SUFFICES ASSUME UsbInit PROVE UsbInv
  OBVIOUS
<1>1. UsbTypeOK
  <2>1. First(0) \in Word
    BY DEF First, Word
  <2>2. BlockWords \in Nat \ {0} /\ Words \in Nat \ {0} /\ QueueSize \in Nat
    BY UsbAssumption
  <2>3. {txe, valid, word_valid, pad_valid, wr_pad, running, words_left, halted, pad_reset}
        \subseteq BOOLEAN
    BY Zenon DEF UsbInit
  <2>4. level \in 0 .. QueueSize /\ left \in 0 .. Words /\ beat \in 0 .. BlockWords - 1
    BY <2>2 DEF UsbInit
  <2>5. {next_word, due} \subseteq Word /\ {word, block, pads} \subseteq Word \cup {NoWord}
    BY <2>1 DEF UsbInit
  <2>6. QED
    BY <2>3, <2>4, <2>5 DEF UsbTypeOK
<1>2. AfterReset /\ Fetched /\ Launched
  BY DEF UsbInit, AfterReset, Fetched, Launched
<1>3. Counted
  BY DEF UsbInit, Counted
<1>4. QED
  BY <1>1, <1>2, <1>3 DEF UsbInv

(* What one period does to the pads, with or without a reset.              *)
LEMMA PadsFollow ==
  ASSUME UsbInv, Pads
  PROVE  /\ wr_pad' \in BOOLEAN /\ pads' \in Word \cup {NoWord}
         /\ ~pad_reset => (wr_pad' <=> ~(Loaded \/ (pad_valid /\ ~Accepted)))
         /\ ~pad_reset /\ ~wr_pad' =>
               pads' = IF Accepted THEN After(due, 1) ELSE due
         /\ pad_reset => wr_pad'
         /\ ~pad_reset /\ ~txe => pads' = word
<1>1. wr_pad' \in BOOLEAN /\ pads' \in Word \cup {NoWord} /\ (pad_reset => wr_pad')
  BY DEF UsbInv, UsbTypeOK, Pads, LaunchData, LaunchWrite
<1>2. ASSUME ~pad_reset PROVE wr_pad' <=> ~(Loaded \/ (pad_valid /\ ~Accepted))
  BY <1>2 DEF UsbInv, UsbTypeOK, Launched, Pads, LaunchWrite, Loaded, Loading, Accepted
<1>3. ASSUME ~pad_reset, ~txe PROVE pads' = word
  BY <1>3 DEF Pads, LaunchData
<1>4. ASSUME ~pad_reset, ~wr_pad'
      PROVE  pads' = IF Accepted THEN After(due, 1) ELSE due
  <2>1. word_valid => word.number = due.number + OnPads /\ word.stream = due.stream
    BY <1>4 DEF UsbInv, Fetched, After, UsbTypeOK, Word
  <2>2. CASE Accepted
    <3>1. Loaded /\ pad_valid /\ word_valid /\ ~txe
      BY <1>2, <1>4, <2>2 DEF Accepted, Loaded, Loading, UsbInv, Launched
    <3>2. pads' = word /\ word.number = due.number + 1
      BY <1>3, <1>4, <2>1, <3>1 DEF OnPads
    <3>3. word \in Word /\ due \in Word
      <4>1. word = After(block, beat) /\ block \in Word
        BY <3>1, <1>4 DEF UsbInv, Fetched
      <4>2. beat \in Nat /\ due \in Word
        BY UsbAssumption DEF UsbInv, UsbTypeOK
      <4>3. QED
        BY <4>1, <4>2 DEF Word, After
    <3>4. QED
      BY <2>1, <2>2, <3>1, <3>2, <3>3 DEF After, Word
  <2>3. CASE ~Accepted /\ pad_valid
    <3>1. txe /\ ~wr_pad
      BY <1>4, <2>3 DEF UsbInv, Launched, Accepted
    <3>2. QED
      BY <2>3, <3>1 DEF Pads, LaunchData, UsbInv, Launched
  <2>4. CASE ~pad_valid
    <3>1. Loaded /\ ~Accepted /\ running /\ wr_pad
      BY <1>2, <1>4, <2>4 DEF UsbInv, Launched, Accepted, Loaded, Loading
    <3>2. pads = word /\ word_valid
      BY <2>4, <3>1 DEF UsbInv, Launched
    <3>3. pads' = word
      BY <1>3, <1>4, <3>2 DEF Pads, LaunchData
    <3>4. word.number = due.number + 0 /\ word.stream = due.stream
      BY <2>1, <2>4, <3>2 DEF OnPads
    <3>5. word \in Word /\ due \in Word
      <4>1. word = After(block, beat) /\ block \in Word
        BY <3>2, <1>4 DEF UsbInv, Fetched
      <4>2. beat \in Nat /\ due \in Word
        BY UsbAssumption DEF UsbInv, UsbTypeOK
      <4>3. QED
        BY <4>1, <4>2 DEF Word, After
    <3>6. word = due
      BY <3>4, <3>5 DEF Word
    <3>7. QED
      BY <3>1, <3>3, <3>6
  <2>5. QED
    BY <2>2, <2>3, <2>4
<1>5. QED
  BY <1>1, <1>2, <1>3, <1>4

LEMMA CycleType ==
  ASSUME UsbInv, NEW ft_txe \in BOOLEAN, NEW arrivals \in 0 .. QueueSize, Cycle(ft_txe, arrivals)
  PROVE  UsbTypeOK'
<1>1. Pads
  BY DEF Cycle
<1>2. {txe', valid', word_valid', pad_valid', running', words_left', halted', pad_reset'}
      \subseteq BOOLEAN
  <2>1. txe' \in BOOLEAN /\ pad_reset' \in BOOLEAN
    BY Zenon DEF Cycle
  <2>2. running' \in BOOLEAN /\ halted' \in BOOLEAN /\ pad_valid' \in BOOLEAN
    BY DEF Cycle, Count
  <2>3. words_left' \in BOOLEAN
    BY DEF Cycle, Count, UsbInv, UsbTypeOK, Starts
  <2>4. valid' \in BOOLEAN
    BY DEF Cycle, MoveQueue
  <2>5. word_valid' \in BOOLEAN
    BY DEF Cycle, NextWord, UsbInv, UsbTypeOK
  <2>6. QED
    BY <2>1, <2>2, <2>3, <2>4, <2>5
<1>3. level' \in 0 .. QueueSize
  BY UsbAssumption DEF Cycle, MoveQueue, UsbInv, UsbTypeOK
<1>4. left' \in 0 .. Words
  <2>1. Loaded => left >= 1
    BY DEF Loaded, Loading, UsbInv, Counted, UsbTypeOK
  <2>2. QED
    BY <2>1, UsbAssumption DEF Cycle, Count, UsbInv, UsbTypeOK
<1>5. beat' \in 0 .. BlockWords - 1
  BY UsbAssumption DEF Cycle, NextWord, NeedBlock, UsbInv, UsbTypeOK
<1>6. next_word' \in Word /\ due' \in Word
  <2>1. next_word \in Word /\ due \in Word /\ BlockWords \in Nat
    BY UsbAssumption DEF UsbInv, UsbTypeOK
  <2>2. stream \in {0, 1}
    BY <2>1 DEF UsbInv, Fetched, AfterReset, First, Word
  <2>3. QED
    BY <2>1, <2>2 DEF Cycle, MoveQueue, After, First, Word
<1>7. word' \in Word \cup {NoWord} /\ block' \in Word \cup {NoWord}
  <2>1. CASE NeedBlock
    BY <2>1 DEF Cycle, NextWord, UsbInv, UsbTypeOK
  <2>2. CASE ~NeedBlock
    <3>1. block' = block /\ word_valid
      BY <2>2 DEF Cycle, NextWord, NeedBlock
    <3>2. CASE Loaded
      <4>1. ~pad_reset
        BY <3>2 DEF Loaded
      <4>2. block \in Word /\ beat \in Nat
        BY <3>1, <4>1 DEF UsbInv, Fetched, UsbTypeOK
      <4>3. word' = After(block, beat + 1)
        BY <2>2, <3>2 DEF Cycle, NextWord
      <4>4. QED
        BY <3>1, <4>2, <4>3 DEF After, Word
    <3>3. CASE ~Loaded
      BY <2>2, <3>1, <3>3 DEF Cycle, NextWord, UsbInv, UsbTypeOK
    <3>4. QED
      BY <3>2, <3>3
  <2>3. QED
    BY <2>1, <2>2
<1>8. QED
  BY <1>1, <1>2, <1>3, <1>4, <1>5, <1>6, <1>7, PadsFollow DEF UsbTypeOK

(* A period moves the words on by the one that was launched.               *)
LEMMA CycleMoves ==
  ASSUME UsbInv, NEW ft_txe \in BOOLEAN, NEW arrivals \in 0 .. QueueSize, Cycle(ft_txe, arrivals),
         ~pad_reset
  PROVE  /\ Accepted => pad_valid
         /\ Loaded => word_valid /\ running /\ words_left /\ (pad_valid => Accepted)
         /\ due'.number = due.number + (IF Accepted THEN 1 ELSE 0)
         /\ due'.number + OnPads' = due.number + OnPads + (IF Loaded THEN 1 ELSE 0)
<1>1. Accepted => pad_valid
  BY DEF Accepted, UsbInv, Launched
<1>2. Loaded => word_valid /\ running /\ words_left /\ (pad_valid => Accepted)
  BY DEF Loaded, Loading, Accepted, UsbInv, Launched
<1>3. due'.number = due.number + (IF Accepted THEN 1 ELSE 0) /\ due.number \in Nat
  BY DEF Cycle, UsbInv, UsbTypeOK, After, Word
<1>4. OnPads = (IF pad_valid THEN 1 ELSE 0) /\ OnPads' = (IF pad_valid' THEN 1 ELSE 0)
  BY DEF OnPads
<1>5. pad_valid' = (Loaded \/ (pad_valid /\ ~Accepted))
  BY DEF Cycle, Count
<1>6. CASE Loaded
  BY <1>1, <1>2, <1>3, <1>4, <1>5, <1>6
<1>7. CASE ~Loaded /\ Accepted
  <2>1. pad_valid /\ ~pad_valid'
    BY <1>1, <1>5, <1>7
  <2>2. QED
    BY <1>1, <1>2, <1>3, <1>4, <1>7, <2>1
<1>8. CASE ~Loaded /\ ~Accepted
  <2>1. pad_valid' <=> pad_valid
    BY <1>5, <1>8
  <2>2. QED
    BY <1>1, <1>2, <1>3, <1>4, <1>8, <2>1
<1>9. QED
  BY <1>6, <1>7, <1>8

(* The fetch keeps one word ahead of the pads.                             *)
LEMMA CycleFetched ==
  ASSUME UsbInv, NEW ft_txe \in BOOLEAN, NEW arrivals \in 0 .. QueueSize, Cycle(ft_txe, arrivals)
  PROVE  Fetched'
<1>1. next_word \in Word /\ due \in Word /\ BlockWords \in Nat \ {0} /\ beat \in Nat
  BY UsbAssumption DEF UsbInv, UsbTypeOK
<1>2. CASE pad_reset
  <2>1. next_word' = next_word /\ due' = First(stream) /\ UNCHANGED stream
        /\ ~word_valid' /\ ~pad_valid'
    BY <1>2 DEF Cycle, Count, NextWord, NeedBlock, Pop, MoveQueue, UsbInv, AfterReset, Loaded
  <2>2. QED
    BY <1>2, <2>1 DEF UsbInv, AfterReset, Fetched, First, OnPads
<1>3. CASE ~pad_reset
  <2>1. /\ UNCHANGED stream
        /\ due' = IF Accepted THEN After(due, 1) ELSE due
        /\ pad_valid' = (Loaded \/ (pad_valid /\ ~Accepted))
        /\ Pop => next_word' = After(next_word, BlockWords)
        /\ ~Pop => next_word' = next_word
    BY <1>3 DEF Cycle, Count, MoveQueue
  <2>2. Loaded => word_valid /\ (pad_valid => Accepted)
    BY <1>3, CycleMoves
  <2>3. due'.number + OnPads' = due.number + OnPads + (IF Loaded THEN 1 ELSE 0)
    BY <1>3, CycleMoves
  <2>4. due'.stream = stream' /\ next_word'.stream = stream'
    BY <1>1, <1>3, <2>1 DEF After, Word, UsbInv, Fetched
  <2>5. ASSUME NeedBlock
        PROVE  next_word.number = due.number + OnPads + (IF Loaded THEN 1 ELSE 0)
    <3>1. CASE ~word_valid
      BY <1>1, <1>3, <2>2, <3>1 DEF UsbInv, Fetched, OnPads, Word
    <3>2. CASE word_valid
      <4>1. Loaded /\ beat = BlockWords - 1
        BY <2>5, <3>2 DEF NeedBlock
      <4>2. block \in Word /\ word = After(block, beat) /\ next_word = After(block, BlockWords)
            /\ word.number = due.number + OnPads
        BY <1>3, <3>2 DEF UsbInv, Fetched
      <4>3. word.number = block.number + beat /\ next_word.number = block.number + BlockWords
        BY <1>1, <4>2 DEF After, Word
      <4>4. QED
        BY <1>1, <4>1, <4>2, <4>3 DEF Word, OnPads
    <3>3. QED
      BY <3>1, <3>2
  <2>6. CASE NeedBlock /\ ~valid
    <3>1. ~word_valid' /\ next_word' = next_word
      BY <2>1, <2>6 DEF Cycle, NextWord, Pop
    <3>2. QED
      BY <2>3, <2>4, <2>5, <2>6, <3>1 DEF Fetched
  <2>7. CASE NeedBlock /\ valid
    <3>1. /\ word_valid' /\ block' = next_word /\ word' = next_word /\ beat' = 0
          /\ next_word' = After(next_word, BlockWords)
      BY <2>1, <2>7 DEF Cycle, NextWord, Pop
    <3>2. next_word = After(next_word, 0)
      BY <1>1 DEF After, Word
    <3>3. QED
      BY <1>1, <2>3, <2>4, <2>5, <2>7, <3>1, <3>2 DEF Fetched
  <2>8. CASE ~NeedBlock
    <3>1. word_valid /\ word_valid' /\ block' = block /\ next_word' = next_word
      BY <2>1, <2>8, <1>3 DEF Cycle, NextWord, NeedBlock, Pop
    <3>2. block \in Word /\ word = After(block, beat) /\ next_word = After(block, BlockWords)
          /\ word.number = due.number + OnPads
      BY <1>3, <3>1 DEF UsbInv, Fetched
    <3>3. word' = After(block', beat') /\ word'.number = word.number + (IF Loaded THEN 1 ELSE 0)
      BY <1>1, <2>8, <3>1, <3>2 DEF Cycle, NextWord, After, Word
    <3>4. QED
      BY <2>3, <2>4, <3>1, <3>2, <3>3 DEF Fetched
  <2>9. QED
    BY <2>6, <2>7, <2>8
<1>4. QED
  BY <1>2, <1>3 DEF UsbInv, UsbTypeOK

(* A transfer is launched from a word that is on the pads already.         *)
LEMMA CycleStarts ==
  ASSUME UsbInv, NEW ft_txe \in BOOLEAN, NEW arrivals \in 0 .. QueueSize, Cycle(ft_txe, arrivals),
         running', ~pad_valid'
  PROVE  /\ Starts /\ ~running /\ ~pad_valid /\ ~Loaded /\ ~Accepted /\ ~pad_reset
         /\ word_valid' /\ words_left' /\ pads' = word' /\ left' = Words
<1>1. ~Ends /\ (Starts \/ running) /\ ~Loaded /\ ~(pad_valid /\ ~Accepted)
  BY DEF Cycle, Count
<1>2. ~Accepted /\ ~pad_valid
  BY <1>1 DEF Ends
<1>3. ~running
  BY <1>1, <1>2 DEF UsbInv, Launched, AfterReset, Loaded, Loading
<1>4. Starts /\ word_valid /\ ~txe /\ ~pad_reset
  BY <1>1, <1>3 DEF Starts, UsbInv, AfterReset
<1>5. pads' = word
  BY <1>4, PadsFollow DEF Cycle
<1>6. word' = word /\ word_valid'
  BY <1>1, <1>4 DEF Cycle, NextWord, NeedBlock
<1>7. left' = Words /\ words_left'
  BY <1>1, <1>4 DEF Cycle, Count
<1>8. QED
  BY <1>1, <1>2, <1>3, <1>4, <1>5, <1>6, <1>7

LEMMA CycleLaunched ==
  ASSUME UsbInv, NEW ft_txe \in BOOLEAN, NEW arrivals \in 0 .. QueueSize, Cycle(ft_txe, arrivals)
  PROVE  Launched'
<1>1. Pads /\ pad_valid' = (Loaded \/ (pad_valid /\ ~Accepted))
  BY DEF Cycle, Count
<1>2. ~wr_pad' => pads' = due'
  BY <1>1, PadsFollow DEF Cycle
<1>3. pad_valid' <=> ~wr_pad'
  <2>1. CASE pad_reset
    BY <1>1, <2>1, PadsFollow DEF UsbInv, AfterReset, Loaded
  <2>2. CASE ~pad_reset
    BY <1>1, <2>2, PadsFollow
  <2>3. QED
    BY <2>1, <2>2 DEF UsbInv, UsbTypeOK
<1>4. pad_valid' => running'
  BY <1>1 DEF Cycle, Count, Ends, Loaded, Loading, UsbInv, Launched
<1>5. running' /\ ~pad_valid' => word_valid' /\ words_left' /\ pads' = word'
  BY CycleStarts
<1>6. QED
  BY <1>2, <1>3, <1>4, <1>5 DEF Launched

LEMMA CycleCounted ==
  ASSUME UsbInv, NEW ft_txe \in BOOLEAN, NEW arrivals \in 0 .. QueueSize, Cycle(ft_txe, arrivals)
  PROVE  Counted'
<1>1. /\ running' = (~Ends /\ (Starts \/ running))
      /\ halted' = (halted \/ (Ends /\ left # 0))
      /\ left' = IF Loaded THEN left - 1 ELSE IF Starts THEN Words ELSE left
      /\ words_left' = IF Loaded THEN left # 1 ELSE Starts \/ words_left
      /\ pad_valid' = (Loaded \/ (pad_valid /\ ~Accepted))
  BY DEF Cycle, Count, Halts
<1>2. left \in Nat /\ left <= Words /\ Words \in Nat \ {0} /\ due.number \in Nat
  BY UsbAssumption DEF UsbInv, UsbTypeOK, Word
<1>3. CASE pad_reset
  <2>1. ~Loaded /\ ~Starts /\ left = 0 /\ ~words_left /\ ~running /\ ~halted /\ ~pad_valid
    BY <1>3 DEF Loaded, Starts, UsbInv, AfterReset, Counted
  <2>2. ~running' /\ ~halted' /\ left' = 0 /\ ~words_left' /\ ~pad_valid'
    BY <1>1, <2>1
  <2>3. due'.number = 0
    BY <1>3 DEF Cycle, First
  <2>4. 0 % Words = 0
    BY <1>2, SMT
  <2>5. QED
    BY <2>2, <2>3, <2>4 DEF Counted
<1>4. CASE ~pad_reset
  <2>1. Loaded => running /\ left >= 1
    BY <1>2 DEF Loaded, Loading, UsbInv, Counted
  <2>2. Accepted => running /\ pad_valid
    BY <1>4, CycleMoves DEF UsbInv, Launched
  <2>3. Starts => ~running /\ ~halted
    BY DEF Starts
  <2>4. words_left' <=> left' # 0
    <3>1. CASE Loaded
      <4>1. left' = left - 1 /\ (left - 1 # 0 <=> left # 1)
        BY <1>1, <1>2, <2>1, <3>1
      <4>2. words_left' <=> left # 1
        BY <1>1, <3>1
      <4>3. QED
        BY <4>1, <4>2
    <3>2. CASE ~Loaded /\ Starts
      BY <1>1, <1>2, <3>2
    <3>3. CASE ~Loaded /\ ~Starts
      BY <1>1, <3>3 DEF UsbInv, Counted
    <3>4. QED
      BY <3>1, <3>2, <3>3
  <2>5. pad_valid' => left' < Words
    <3>1. CASE Loaded
      BY <1>1, <1>2, <2>1, <3>1
    <3>2. CASE ~Loaded
      BY <1>1, <2>3, <3>2 DEF UsbInv, Counted, Launched
    <3>3. QED
      BY <3>1, <3>2
  <2>6. running' /\ ~pad_valid' => left' = Words
    BY CycleStarts
  <2>7. running' => ~halted' /\ Began' \in Nat /\ Began' % Words = 0
    <3> SUFFICES ASSUME running' PROVE ~halted' /\ Began' \in Nat /\ Began' % Words = 0
      OBVIOUS
    <3>1. ~Ends /\ (Starts \/ running)
      BY <1>1
    <3>2. ~halted'
      BY <1>1, <2>3, <3>1 DEF UsbInv, Counted
    <3>3. CASE running
      <4>1. left' + (IF Loaded THEN 1 ELSE 0) = left
        BY <1>1, <1>2, <2>3, <3>3
      <4>2. due'.number + OnPads' = due.number + OnPads + (IF Loaded THEN 1 ELSE 0)
        BY <1>4, CycleMoves
      <4>3. OnPads \in Nat /\ OnPads' \in Nat /\ due'.number \in Nat
        BY CycleType DEF OnPads, UsbTypeOK, Word
      <4>4. Began' = Began
        <5> DEFINE l == IF Loaded THEN 1 ELSE 0
                   o == OnPads
                   p == OnPads'
        <5>1. l \in Nat /\ o \in Nat /\ p \in Nat /\ left' = left - l
          BY <1>2, <2>1, <4>1, <4>3, CycleType DEF UsbTypeOK
        <5>2. due'.number + p = due.number + o + l
          BY <4>2
        <5>3. Began = due.number + o + left - Words /\ Began' = due'.number + p + left' - Words
          BY DEF Began
        <5> HIDE DEF l, o, p
        <5>4. QED
          BY <1>2, <4>3, <5>1, <5>2, <5>3
      <4>5. QED
        BY <3>2, <3>3, <4>4 DEF UsbInv, Counted
    <3>4. CASE ~running
      <4>1. Starts /\ ~Loaded /\ ~Accepted /\ ~pad_valid
        BY <2>1, <2>2, <3>1, <3>4 DEF UsbInv, Launched
      <4>2. ~pad_valid' /\ left' = Words
        BY <1>1, <4>1
      <4>3. due'.number = due.number
        BY <1>2, <1>4, <4>1, CycleMoves
      <4>4. Began' = due.number
        BY <1>2, <4>2, <4>3 DEF Began, OnPads
      <4>5. QED
        BY <1>2, <1>4, <2>3, <3>2, <3>4, <4>1, <4>4 DEF UsbInv, Counted
    <3>5. QED
      BY <3>3, <3>4
  <2>8. ASSUME Ends
        PROVE  due'.number % Words = IF left = 0 THEN 0 ELSE Words - left
    <3>1. Accepted /\ ~Loaded /\ running /\ pad_valid
      BY <2>2, <2>8 DEF Ends
    <3>2. left < Words /\ Began \in Nat /\ Began % Words = 0
      BY <3>1 DEF UsbInv, Counted
    <3>3. due'.number = due.number + 1 /\ Began = due.number + 1 + left - Words
      BY <1>4, <3>1, CycleMoves DEF Began, OnPads
    <3> DEFINE b == Began
               d == Words - left
    <3>4. d \in 1 .. Words /\ due'.number = b + d /\ (d = Words <=> left = 0)
      BY <1>2, <3>2, <3>3
    <3>5. b \in Nat /\ b % Words = 0
      BY <3>2
    <3> HIDE DEF b, d
    <3>6. CASE d = Words
      BY <1>2, <3>4, <3>5, <3>6, PlaceOfEnd
    <3>7. CASE d # Words
      <4>1. d \in 1 .. Words - 1
        BY <1>2, <3>4, <3>7
      <4>2. (b + d) % Words = d
        BY <1>2, <3>5, <4>1, PlaceInside
      <4>3. QED
        BY <3>4, <3>7, <4>2 DEF d
    <3>8. QED
      BY <3>6, <3>7
  <2>9. ~Ends => due'.number = due.number \/ running'
    <3>1. CASE Accepted
      BY <1>1, <2>1, <3>1 DEF Ends
    <3>2. CASE ~Accepted
      BY <1>2, <1>4, <3>2, CycleMoves
    <3>3. QED
      BY <3>1, <3>2
  <2>10. ~running' /\ ~halted' /\ ~pad_reset' => due'.number % Words = 0
    <3> SUFFICES ASSUME ~running', ~halted' PROVE due'.number % Words = 0
      OBVIOUS
    <3>1. CASE Ends
      BY <1>1, <2>8, <3>1
    <3>2. CASE ~Ends
      <4>1. ~running /\ ~halted /\ due'.number = due.number
        BY <1>1, <2>9, <3>2
      <4>2. QED
        BY <1>4, <4>1 DEF UsbInv, Counted
    <3>3. QED
      BY <3>1, <3>2
  <2>11. halted' => due'.number % Words # 0
    <3> SUFFICES ASSUME halted' PROVE due'.number % Words # 0
      OBVIOUS
    <3>1. CASE Ends /\ left # 0
      <4>1. left < Words
        BY <2>2, <3>1 DEF Ends, UsbInv, Counted
      <4>2. QED
        BY <1>2, <2>8, <3>1, <4>1
    <3>2. CASE ~(Ends /\ left # 0)
      <4>1. halted /\ ~running
        BY <1>1, <3>2 DEF UsbInv, Counted
      <4>2. ~Accepted
        BY <2>2, <4>1
      <4>3. due'.number = due.number
        BY <1>2, <1>4, <4>2, CycleMoves
      <4>4. QED
        BY <4>1, <4>3 DEF UsbInv, Counted
    <3>3. QED
      BY <3>1, <3>2
  <2>12. QED
    BY <2>4, <2>5, <2>6, <2>7, <2>10, <2>11 DEF Counted
<1>5. QED
  BY <1>3, <1>4

(* The reset clears everything; the pads may still hold a word of the old  *)
(* stream, and it is the next one of that stream.                          *)
LEMMA ResetStep ==
  ASSUME UsbInv, NEW ft_txe \in BOOLEAN, ResetCycle(ft_txe)
  PROVE  UsbInv'
<1>1. /\ ~valid' /\ ~word_valid' /\ ~pad_valid' /\ ~running' /\ ~words_left' /\ ~halted' /\ pad_reset'
      /\ level' = 0 /\ left' = 0 /\ beat' = 0 /\ word' = NoWord /\ block' = NoWord
      /\ txe' \in BOOLEAN /\ Pads
  BY DEF ResetCycle
<1>2. BlockWords \in Nat \ {0} /\ Words \in Nat \ {0} /\ QueueSize \in Nat
      /\ due \in Word /\ next_word \in Word
  BY UsbAssumption DEF UsbInv, UsbTypeOK
<1>3. stream \in {0, 1}
  BY <1>2 DEF UsbInv, Fetched, AfterReset, First, Word
<1>4. next_word' = First(stream') /\ next_word' \in Word
  BY <1>3 DEF ResetCycle, UsbInv, AfterReset, First, Word
<1>5. due' \in Word
  BY <1>2, <1>3 DEF ResetCycle, First, After, Word
<1>6. ~wr_pad' => pads' = due'
  <2>1. CASE pad_reset
    BY <1>1, <2>1, PadsFollow
  <2>2. CASE ~pad_reset
    <3>1. due' = IF Accepted THEN After(due, 1) ELSE due
      BY <2>2 DEF ResetCycle
    <3>2. QED
      BY <1>1, <2>2, <3>1, PadsFollow
  <2>3. QED
    BY <2>1, <2>2
<1>7. UsbTypeOK'
  <2>1. {txe', valid', word_valid', pad_valid', wr_pad', running', words_left', halted', pad_reset'}
        \subseteq BOOLEAN
    <3>1. txe' \in BOOLEAN /\ wr_pad' \in BOOLEAN
      BY <1>1, PadsFollow
    <3>2. {valid', word_valid', pad_valid', running', words_left', halted', pad_reset'} \subseteq BOOLEAN
      BY Zenon DEF ResetCycle
    <3>3. QED
      BY <3>1, <3>2
  <2>2. level' \in 0 .. QueueSize /\ left' \in 0 .. Words /\ beat' \in 0 .. BlockWords - 1
    BY <1>1, <1>2
  <2>3. {next_word', due'} \subseteq Word /\ {word', block', pads'} \subseteq Word \cup {NoWord}
    BY <1>1, <1>4, <1>5, PadsFollow
  <2>4. QED
    BY <2>1, <2>2, <2>3 DEF UsbTypeOK
<1>8. AfterReset' /\ Fetched'
  BY <1>1, <1>4 DEF AfterReset, Fetched
<1>9. Launched' /\ Counted'
  BY <1>1, <1>6 DEF Launched, Counted
<1>10. QED
  BY <1>7, <1>8, <1>9 DEF UsbInv

-----------------------------------------------------------------------------
THEOREM UsbInvariance == UsbSpec => []UsbInv
<1>1. UsbInv /\ [UsbNext]_usb => UsbInv'
  <2> SUFFICES ASSUME UsbInv, [UsbNext]_usb PROVE UsbInv'
    OBVIOUS
  <2>1. ASSUME NEW ft_txe \in BOOLEAN, NEW arrivals \in 0 .. QueueSize, Cycle(ft_txe, arrivals)
        PROVE  UsbInv'
    <3>1. AfterReset'
      BY <2>1 DEF Cycle, AfterReset
    <3>2. QED
      BY <2>1, <3>1, CycleType, CycleFetched, CycleLaunched, CycleCounted DEF UsbInv
  <2>2. ASSUME NEW ft_txe \in BOOLEAN, ResetCycle(ft_txe)
        PROVE  UsbInv'
    BY <2>2, ResetStep
  <2>3. CASE UNCHANGED usb
    BY <2>3 DEF usb, queue, fetch, transfer, UsbInv, UsbTypeOK, AfterReset, Fetched, Launched,
                Counted, Began, OnPads
  <2>4. QED
    BY <2>1, <2>2, <2>3 DEF UsbNext
<1>2. QED
  BY Initially, <1>1, PTL DEF UsbSpec

(* The FT600 gets the words of a stream in order, each once, for every     *)
(* size of block, transfer and queue (usb_tx.v 7-9).                       *)
THEOREM WordsInOrder == UsbSpec => []InOrder
<1>1. UsbInv => InOrder
  BY DEF UsbInv, Launched, InOrder, Accepted
<1>2. QED
  BY UsbInvariance, <1>1, PTL

(* WR rises only between whole transfers, or to halt after an underrun,    *)
(* and never halts between transfers (usb_tx.v 3-5, 112-124).              *)
THEOREM TransfersWhole == UsbSpec => []WholeTransfers
<1>1. UsbInv => WholeTransfers
  <2> SUFFICES ASSUME UsbInv, wr_pad, ~pad_reset
               PROVE  halted <=> due.number % Words # 0
    BY DEF WholeTransfers
  <2>1. ~pad_valid
    BY DEF UsbInv, Launched
  <2>2. CASE running
    <3>1. Began = due.number
      BY <2>1, <2>2, UsbAssumption DEF UsbInv, Counted, Began, OnPads, UsbTypeOK, Word
    <3>2. QED
      BY <2>2, <3>1 DEF UsbInv, Counted
  <2>3. CASE ~running
    BY <2>3 DEF UsbInv, Counted
  <2>4. QED
    BY <2>2, <2>3
<1>2. QED
  BY UsbInvariance, <1>1, PTL

(* Both together.                                                          *)
THEOREM AlwaysSafe == UsbSpec => []UsbSafe
BY WordsInOrder, TransfersWhole, PTL DEF UsbSafe

-----------------------------------------------------------------------------
(* Copies of statistics, and their polls.                                  *)
\* The stages that already have the request are all before those that have not.
OneToken ==
    /\ request_meta = request => before.request = request
    /\ request_stable = request => request_meta = request
    /\ acknowledge = request => request_stable = request
    /\ before.acknowledge = request => acknowledge = request
    /\ acknowledge_meta = request => before.acknowledge = request
    /\ acknowledge_stable = request => acknowledge_meta = request

\* held is settled unless the source answered on the edge just past, and an
\* answer was loaded after its request.
HeldSettles ==
    /\ before.held # held => before.acknowledge # acknowledge
    /\ acknowledge = request => asked <= held
    /\ floor <= asked /\ asked <= source_value /\ held <= source_value

CopyInv == SnapshotTypeOK /\ OneToken /\ HeldSettles /\ NeverTorn /\ Fresh

LEMMA Numbers == \A v \in Values : v \in Int
BY SnapshotAssumption DEF SnapshotAssumption

LEMMA Start == SnapshotInit => CopyInv
<1> SUFFICES ASSUME SnapshotInit PROVE CopyInv
  OBVIOUS
<1> USE SnapshotAssumption DEF SnapshotAssumption, SnapshotInit, crossing
<1>1. SnapshotTypeOK
  BY DEF SnapshotTypeOK
<1>2. OneToken
  BY DEF OneToken
<1>3. HeldSettles
  BY DEF HeldSettles
<1>4. NeverTorn /\ Fresh
  BY DEF NeverTorn, Fresh
<1>5. QED
  BY <1>1, <1>2, <1>3, <1>4 DEF CopyInv

LEMMA SourceStep == CopyInv /\ SourceClock => CopyInv'
<1> SUFFICES ASSUME CopyInv, SourceClock PROVE CopyInv'
  OBVIOUS
<1>1. /\ source_value' \in Values /\ source_value' >= source_value
      /\ request_meta' \in {before.request, request} /\ request_stable' = request_meta
      /\ before' = [held |-> held, acknowledge |-> acknowledge, request |-> request]
      /\ UNCHANGED <<value, request, acknowledge_meta, acknowledge_stable, asked, floor>>
  BY DEF SourceClock, Edge, crossing, destination
<1>2. \/ load /\ held' = source_value /\ acknowledge' = request_stable
      \/ ~load /\ held' = held /\ acknowledge' = acknowledge
  BY DEF SourceClock
<1>3. /\ before'.held = held /\ before'.acknowledge = acknowledge /\ before'.request = request
  BY <1>1
<1>4. {source_value, held, asked, floor} \subseteq Int /\ source_value' \in Int
  BY <1>1, Numbers DEF CopyInv, SnapshotTypeOK
<1>5. {acknowledge, request_meta, request_stable, request, before.request} \subseteq BOOLEAN
  BY DEF CopyInv, SnapshotTypeOK
<1>6. SnapshotTypeOK'
  <2>1. held' \in Values /\ acknowledge' \in BOOLEAN
    BY <1>2, <1>5 DEF CopyInv, SnapshotTypeOK
  <2>2. request_meta' \in BOOLEAN /\ request_stable' \in BOOLEAN
    BY <1>1, <1>5
  <2>3. QED
    BY <1>1, <1>3, <2>1, <2>2 DEF CopyInv, SnapshotTypeOK
<1>7. OneToken'
  <2>1. request_meta' = request' => before'.request = request'
    BY <1>1, <1>3
  <2>2. request_stable' = request' => request_meta' = request'
    BY <1>1 DEF CopyInv, OneToken
  <2>3. acknowledge' = request' => request_stable' = request'
    BY <1>1, <1>2 DEF CopyInv, OneToken
  <2>4. before'.acknowledge = request' => acknowledge' = request'
    <3>1. acknowledge = request => ~load
      BY DEF CopyInv, OneToken, load
    <3>2. QED
      BY <1>1, <1>2, <1>3, <3>1
  <2>5. acknowledge_meta' = request' => before'.acknowledge = request'
    BY <1>1, <1>3 DEF CopyInv, OneToken
  <2>6. acknowledge_stable' = request' => acknowledge_meta' = request'
    BY <1>1 DEF CopyInv, OneToken
  <2>7. QED
    BY <2>1, <2>2, <2>3, <2>4, <2>5, <2>6 DEF OneToken
<1>8. HeldSettles'
  <2>1. before'.held # held' => before'.acknowledge # acknowledge'
    BY <1>2, <1>3 DEF load
  <2>2. acknowledge' = request' => asked' <= held'
    BY <1>1, <1>2, <1>4 DEF CopyInv, HeldSettles
  <2>3. floor' <= asked' /\ asked' <= source_value' /\ held' <= source_value'
    BY <1>1, <1>2, <1>4 DEF CopyInv, HeldSettles
  <2>4. QED
    BY <2>1, <2>2, <2>3 DEF HeldSettles
<1>9. NeverTorn'
  BY <1>1 DEF CopyInv, NeverTorn
<1>10. Fresh'
  <2> SUFFICES ASSUME NEW p \in Parts PROVE floor <= value[p] /\ value[p] <= source_value'
    BY <1>1 DEF Fresh
  <2>1. value[p] \in Int
    BY Numbers DEF CopyInv, SnapshotTypeOK
  <2>2. QED
    BY <1>1, <1>4, <2>1 DEF CopyInv, Fresh
<1>11. QED
  BY <1>6, <1>7, <1>8, <1>9, <1>10 DEF CopyInv

LEMMA DestinationStep == CopyInv /\ DestinationClock => CopyInv'
<1> SUFFICES ASSUME CopyInv, DestinationClock PROVE CopyInv'
  OBVIOUS
<1>1. /\ acknowledge_meta' \in {before.acknowledge, acknowledge}
      /\ acknowledge_stable' = acknowledge_meta
      /\ before' = [held |-> held, acknowledge |-> acknowledge, request |-> request]
      /\ UNCHANGED <<source_value, held, acknowledge, request_meta, request_stable>>
  BY DEF DestinationClock, Edge, crossing, source
<1>2. \/ /\ answered /\ value' \in [Parts -> {before.held, held}] /\ request' = ~request
         /\ floor' = asked /\ asked' = source_value
      \/ ~answered /\ UNCHANGED <<value, request, asked, floor>>
  BY DEF DestinationClock
<1>3. before'.held = held /\ before'.acknowledge = acknowledge /\ before'.request = request
  BY <1>1
<1>4. {source_value, held, asked, floor} \subseteq Int
  BY Numbers DEF CopyInv, SnapshotTypeOK
<1>5. {acknowledge, request_meta, request_stable, request, before.request, before.acknowledge,
       acknowledge_meta, acknowledge_stable} \subseteq BOOLEAN
  BY DEF CopyInv, SnapshotTypeOK
\* When the answer is back, every stage has the request and held is settled.
<1>6. answered => /\ request_meta = request /\ request_stable = request /\ acknowledge = request
                  /\ acknowledge_meta = request /\ before.request = request
                  /\ before.acknowledge = request /\ before.held = held
  BY DEF answered, CopyInv, OneToken, HeldSettles
<1>7. SnapshotTypeOK'
  <2>1. value' \in [Parts -> Values]
    BY <1>2 DEF CopyInv, SnapshotTypeOK
  <2>2. request' \in BOOLEAN /\ acknowledge_meta' \in BOOLEAN /\ acknowledge_stable' \in BOOLEAN
    <3>1. request \in BOOLEAN /\ (request' = ~request \/ request' = request)
      BY <1>2, <1>5
    <3>2. request' \in BOOLEAN
      BY Zenon, <3>1
    <3>3. QED
      BY <1>1, <1>5, <3>2
  <2>3. {floor', asked'} \subseteq Values
    BY <1>2 DEF CopyInv, SnapshotTypeOK
  <2>4. QED
    BY <1>1, <1>3, <2>1, <2>2, <2>3 DEF CopyInv, SnapshotTypeOK
<1>8. OneToken'
  <2>1. CASE answered
    <3>1. request' = ~request /\ request \in BOOLEAN
      BY <1>2, <1>5, <2>1
    <3>2. request' # request
      BY Zenon, <3>1
    <3>3. request_meta' = request /\ request_stable' = request /\ acknowledge' = request
          /\ acknowledge_meta' = request /\ acknowledge_stable' = request /\ before'.acknowledge = request
      BY <1>1, <1>3, <1>6, <2>1
    <3>4. QED
      BY <3>2, <3>3 DEF OneToken
  <2>2. CASE ~answered
    <3>1. request' = request
      BY <1>2, <2>2
    <3>2. request_meta' = request => before'.request = request
      BY <1>3
    <3>3. acknowledge_meta' = request => before'.acknowledge = request
      BY <1>1, <1>3 DEF CopyInv, OneToken
    <3>4. acknowledge_stable' = request => acknowledge_meta' = request
      BY <1>1 DEF CopyInv, OneToken
    <3>5. before'.acknowledge = request => acknowledge' = request
      BY <1>1, <1>3
    <3>6. QED
      BY <1>1, <3>1, <3>2, <3>3, <3>4, <3>5 DEF CopyInv, OneToken
  <2>3. QED
    BY <2>1, <2>2
<1>9. HeldSettles'
  <2>1. before'.held = held'
    BY <1>1, <1>3
  <2>2. CASE answered
    <3>1. request' # request
      <4>1. request' = ~request /\ request \in BOOLEAN
        BY <1>2, <1>5, <2>2
      <4>2. QED
        BY Zenon, <4>1
    <3>2. acknowledge' # request'
      BY <1>1, <1>6, <2>2, <3>1
    <3>3. floor' <= asked' /\ asked' <= source_value' /\ held' <= source_value'
      BY <1>1, <1>2, <1>4, <2>2 DEF CopyInv, HeldSettles
    <3>4. QED
      BY <2>1, <3>2, <3>3 DEF HeldSettles
  <2>3. CASE ~answered
    BY <1>1, <1>2, <2>1, <2>3 DEF CopyInv, HeldSettles
  <2>4. QED
    BY <2>2, <2>3
<1>10. NeverTorn'
  BY <1>2, <1>6 DEF CopyInv, NeverTorn
<1>11. Fresh'
  <2> SUFFICES ASSUME NEW p \in Parts PROVE floor' <= value'[p] /\ value'[p] <= source_value
    BY <1>1 DEF Fresh
  <2>1. CASE answered
    <3>1. value'[p] = held /\ floor' = asked
      BY <1>2, <1>6, <2>1
    <3>2. asked <= held /\ held <= source_value
      BY <1>6, <2>1 DEF CopyInv, HeldSettles
    <3>3. QED
      BY <3>1, <3>2
  <2>2. CASE ~answered
    BY <1>2, <2>2 DEF CopyInv, Fresh
  <2>3. QED
    BY <2>1, <2>2
<1>12. QED
  BY <1>7, <1>8, <1>9, <1>10, <1>11 DEF CopyInv
-----------------------------------------------------------------------------
THEOREM CopyInvariance == SnapshotSpec => []CopyInv
<1>1. CopyInv /\ UNCHANGED snapshot => CopyInv'
  BY DEF snapshot, source, destination, CopyInv, SnapshotTypeOK, OneToken, HeldSettles, NeverTorn, Fresh
<1>2. CopyInv /\ [SnapshotNext]_snapshot => CopyInv'
  BY <1>1, SourceStep, DestinationStep DEF SnapshotNext
<1>3. QED
  BY <1>2, Start, PTL DEF SnapshotSpec

\* snapshot.v 3-8: every copy is a value the source really had, never a
\* mixture of two, whatever the two clocks do.
THEOREM CopiesWhole == SnapshotSpec => []NeverTorn
BY CopyInvariance, PTL DEF CopyInv

\* A copy is never older than the request before its own, nor newer than the
\* source, so no counter read through it runs backwards.
THEOREM CopiesFresh == SnapshotSpec => []Fresh
BY CopyInvariance, PTL DEF CopyInv
-----------------------------------------------------------------------------
\* Copies only grow: the next one is never below the one that is shown.
Ahead == \A p \in Parts : value[p] <= held

\* What the words read so far are words of.  A low word read before the high
\* one moved does not count; the one read after it does.
ReadSoFar ==
    /\ poll.next # "high" => from <= Copy /\ poll.first = from \div Half
    /\ poll.next = "high again" =>
           \E c \in Values : from <= c /\ c <= Copy /\ poll.low = c % Half
    /\ poll.next = "low again" => poll.first < poll.high /\ poll.high <= HighWord
    /\ poll.next = "publish" =>
           \E c \in Values :
              /\ from <= c /\ c <= Copy /\ poll.low = c % Half
              /\ \/ poll.high = c \div Half
                 \/ poll.first < poll.high /\ poll.high <= c \div Half

PollTypeOK ==
    /\ poll = [next |-> poll.next, first |-> poll.first, low |-> poll.low, high |-> poll.high]
    /\ {poll.first, poll.low, poll.high} \subseteq Int
    /\ from \in Values

PollInv == CopyInv /\ Ahead /\ PollTypeOK /\ ReadSoFar

LEMMA PollWords ==
    ASSUME NEW a \in Nat
    PROVE  a = (a \div Half) * Half + (a % Half) /\ a \div Half \in Int /\ a % Half \in 0 .. Half - 1
BY PollAssumption DEF PollAssumption

LEMMA Larger ==
    ASSUME NEW a \in Int, NEW b \in Int, a < b
    PROVE  a * Half + Half <= b * Half
<1>1. b - a \in Nat /\ b - a >= 1 /\ Half \in Nat
  BY PollAssumption DEF PollAssumption
<1>2. (b - a) * Half >= Half
  BY <1>1
<1>3. QED
  BY <1>1, <1>2

LEMMA HighGrows ==
    ASSUME NEW a \in Nat, NEW b \in Nat, a <= b
    PROVE  a \div Half <= b \div Half
<1> SUFFICES ASSUME b \div Half < a \div Half PROVE FALSE
  BY PollWords
<1>1. (b \div Half) * Half + Half <= (a \div Half) * Half
  BY PollWords, Larger
<1>2. b < (b \div Half) * Half + Half
  BY PollWords, PollAssumption DEF PollAssumption
<1>3. QED
  BY <1>1, <1>2, PollWords, PollAssumption DEF PollAssumption

LEMMA CopyIs == CopyInv => Copy \in Values /\ Copy \in Nat
BY PollAssumption, SnapshotAssumption DEF PollAssumption, SnapshotAssumption, CopyInv, SnapshotTypeOK, Copy

\* The copy that a poll reads never goes down.
LEMMA CopyGrows ==
    ASSUME CopyInv, Ahead, SnapshotNext
    PROVE  Ahead' /\ Copy <= Copy' /\ Copy' \in Nat /\ CopyInv'
<1>1. CopyInv'
  BY SourceStep, DestinationStep DEF SnapshotNext
<1>2. \A p \in Parts : value[p] <= value'[p] /\ value'[p] <= held'
  <2> SUFFICES ASSUME NEW p \in Parts PROVE value[p] <= value'[p] /\ value'[p] <= held'
    OBVIOUS
  <2>1. {value[p], value'[p], held, held', source_value} \subseteq Int
    BY <1>1, Numbers DEF CopyInv, SnapshotTypeOK
  <2>2. CASE SourceClock
    <3>1. value' = value /\ (held' = source_value \/ held' = held)
      BY <2>2 DEF SourceClock, destination
    <3>2. value[p] <= source_value
      BY DEF CopyInv, Fresh
    <3>3. QED
      BY <2>1, <3>1, <3>2 DEF Ahead
  <2>3. CASE DestinationClock
    <3>1. held' = held /\ (value' = value \/ (answered /\ value' \in [Parts -> {before.held, held}]))
      BY <2>3 DEF DestinationClock, source
    <3>2. answered => before.held = held
      BY DEF answered, CopyInv, OneToken, HeldSettles, SnapshotTypeOK
    <3>3. QED
      BY <2>1, <3>1, <3>2 DEF Ahead
  <2>4. QED
    BY <2>2, <2>3 DEF SnapshotNext
<1>3. Ahead' /\ Copy <= Copy'
  BY <1>2, PollAssumption DEF Ahead, Copy, PollAssumption
<1>4. Copy' \in Nat
  BY <1>1, PollAssumption, SnapshotAssumption
  DEF PollAssumption, SnapshotAssumption, CopyInv, SnapshotTypeOK, Copy
<1>5. QED
  BY <1>1, <1>3, <1>4

LEMMA PollStart == PollInit => PollInv
<1> SUFFICES ASSUME PollInit PROVE PollInv
  OBVIOUS
<1>1. SnapshotInit /\ poll = [next |-> "high", first |-> 0, low |-> 0, high |-> 0] /\ from = 0
  BY DEF PollInit
<1>2. PollTypeOK /\ ReadSoFar
  BY <1>1, SnapshotAssumption DEF PollTypeOK, ReadSoFar, SnapshotAssumption
<1>3. Ahead
  <2>1. held = 0 /\ value = [p \in Parts |-> 0]
    BY <1>1 DEF SnapshotInit
  <2>2. ASSUME NEW p \in Parts PROVE value[p] <= held
    BY <2>1
  <2>3. QED
    BY <2>2 DEF Ahead
<1>4. QED
  BY <1>1, <1>2, <1>3, Start DEF PollInv

LEMMA HighIs == CopyInv => HighWord \in Int
BY CopyIs, PollWords DEF HighWord

\* Clocks between two reads: what was read stays a word of a copy between.
LEMMA ClockKeeps ==
    ASSUME PollInv, SnapshotNext, UNCHANGED <<poll, from>>
    PROVE  PollInv'
<1>1. CopyInv' /\ Ahead' /\ Copy <= Copy' /\ Copy' \in Nat
  BY CopyGrows DEF PollInv
<1>2. poll' = poll /\ from' = from /\ PollTypeOK'
  BY DEF PollInv, PollTypeOK
<1>3. Copy \in Nat /\ from \in Int /\ \A c \in Values : c \in Int
  BY CopyIs, Numbers DEF PollInv, PollTypeOK
<1>4. HighWord <= HighWord' /\ HighWord \in Int /\ HighWord' \in Int
  BY <1>1, <1>3, HighGrows, PollWords DEF HighWord
<1>5. ReadSoFar'
  <2>1. poll.next # "high" => from' <= Copy' /\ poll.first = from' \div Half
    <3>1. poll.next # "high" => from <= Copy /\ poll.first = from \div Half
      BY DEF PollInv, ReadSoFar
    <3>2. QED
      BY <1>1, <1>2, <1>3, <3>1
  <2>2. ASSUME NEW c \in Values, c <= Copy PROVE c <= Copy'
    BY <1>1, <1>3, <2>2
  <2>3. poll.next = "high again" =>
           \E c \in Values : from <= c /\ c <= Copy' /\ poll.low = c % Half
    BY <2>2 DEF PollInv, ReadSoFar
  <2>4. poll.next = "low again" => poll.first < poll.high /\ poll.high <= HighWord'
    <3>1. poll.next = "low again" => poll.first < poll.high /\ poll.high <= HighWord
      BY DEF PollInv, ReadSoFar
    <3>2. poll.first \in Int /\ poll.high \in Int
      BY DEF PollInv, PollTypeOK
    <3>3. HAVE poll.next = "low again"
    <3>4. poll.high <= HighWord
      BY <3>1, <3>3
    <3>5. poll.high <= HighWord'
      BY <1>4, <3>2, <3>4
    <3>6. QED
      BY <3>1, <3>3, <3>5
  <2>5. poll.next = "publish" =>
           \E c \in Values :
              /\ from <= c /\ c <= Copy' /\ poll.low = c % Half
              /\ \/ poll.high = c \div Half
                 \/ poll.first < poll.high /\ poll.high <= c \div Half
    BY <2>2 DEF PollInv, ReadSoFar
  <2>6. QED
    BY <1>2, <2>1, <2>3, <2>4, <2>5 DEF ReadSoFar
<1>6. QED
  BY <1>1, <1>2, <1>5 DEF PollInv

\* Reading a word moves no clock.
LEMMA ReadsKeep ==
    ASSUME PollInv, UNCHANGED snapshot
    PROVE  CopyInv' /\ Ahead' /\ Copy' = Copy /\ HighWord' = HighWord /\ LowWord' = LowWord
BY DEF PollInv, snapshot, source, destination, CopyInv, SnapshotTypeOK, OneToken, HeldSettles, NeverTorn,
       Fresh, Ahead, Copy, HighWord, LowWord

LEMMA ReadHighKeeps == PollInv /\ ReadHigh => PollInv'
<1> SUFFICES ASSUME PollInv, ReadHigh PROVE PollInv'
  OBVIOUS
<1>1. /\ poll' = [poll EXCEPT !.next = "low", !.first = HighWord]
      /\ from' = Copy /\ UNCHANGED snapshot
  BY DEF ReadHigh
<1>2. CopyInv' /\ Ahead' /\ Copy' = Copy
  BY <1>1, ReadsKeep
<1>3. Copy \in Values /\ Copy \in Int /\ HighWord \in Int
  BY CopyIs, HighIs DEF PollInv
<1>4. /\ poll'.next = "low" /\ poll'.first = HighWord /\ poll'.low = poll.low /\ poll'.high = poll.high
      /\ PollTypeOK'
  BY <1>1, <1>3 DEF PollInv, PollTypeOK
<1>5. ReadSoFar'
  BY <1>1, <1>2, <1>3, <1>4 DEF ReadSoFar, HighWord
<1>6. QED
  BY <1>2, <1>4, <1>5 DEF PollInv

LEMMA ReadLowKeeps == PollInv /\ ReadLow => PollInv'
<1> SUFFICES ASSUME PollInv, ReadLow PROVE PollInv'
  OBVIOUS
<1>1. /\ poll.next = "low" /\ poll' = [poll EXCEPT !.next = "high again", !.low = LowWord]
      /\ from' = from /\ UNCHANGED snapshot
  BY DEF ReadLow
<1>2. CopyInv' /\ Ahead' /\ Copy' = Copy
  BY <1>1, ReadsKeep
<1>3. Copy \in Values /\ Copy \in Int /\ LowWord \in Int
  BY CopyIs, PollWords DEF PollInv, LowWord
<1>4. /\ poll'.next = "high again" /\ poll'.first = poll.first /\ poll'.low = LowWord
      /\ PollTypeOK'
  BY <1>1, <1>3 DEF PollInv, PollTypeOK
<1>5. from <= Copy /\ poll.first = from \div Half
  BY <1>1 DEF PollInv, ReadSoFar
<1>6. ReadSoFar'
  BY <1>1, <1>2, <1>3, <1>4, <1>5 DEF ReadSoFar, LowWord
<1>7. QED
  BY <1>2, <1>4, <1>6 DEF PollInv

\* If the high word did not move, the copy the low word was read from had it.
LEMMA ReadHighAgainKeeps == PollInv /\ ReadHighAgain => PollInv'
<1> SUFFICES ASSUME PollInv, ReadHighAgain PROVE PollInv'
  OBVIOUS
<1>1. /\ poll.next = "high again" /\ from' = from /\ UNCHANGED snapshot
      /\ poll' = [poll EXCEPT !.next = IF Moved THEN "low again" ELSE "publish", !.high = HighWord]
  BY DEF ReadHighAgain
<1>2. CopyInv' /\ Ahead' /\ Copy' = Copy /\ HighWord' = HighWord
  BY <1>1, ReadsKeep
<1>3. Copy \in Nat /\ from \in Nat /\ HighWord \in Int /\ poll.first \in Int
  BY CopyIs, HighIs, SnapshotAssumption DEF PollInv, PollTypeOK, SnapshotAssumption
<1>4. /\ poll'.next = (IF Moved THEN "low again" ELSE "publish")
      /\ poll'.first = poll.first /\ poll'.low = poll.low /\ poll'.high = HighWord
      /\ PollTypeOK'
  BY <1>1, <1>3 DEF PollInv, PollTypeOK
<1>5. from <= Copy /\ poll.first = from \div Half
  BY <1>1 DEF PollInv, ReadSoFar
<1>6. PICK c \in Values : from <= c /\ c <= Copy /\ poll.low = c % Half
  BY <1>1 DEF PollInv, ReadSoFar
<1>7. c \in Nat
  BY SnapshotAssumption DEF SnapshotAssumption
<1>8. /\ from \div Half <= c \div Half /\ c \div Half <= HighWord
      /\ from \div Half \in Int /\ c \div Half \in Int
  BY <1>3, <1>6, <1>7, HighGrows, PollWords DEF HighWord
<1>9. ReadSoFar'
  <2>1. CASE Moved
    <3>1. poll'.next = "low again" /\ poll'.high = HighWord' /\ poll'.first = poll.first
      BY <1>2, <1>4, <2>1
    <3>2. HighWord' \in Int /\ HighWord' <= HighWord'
      BY <1>2, <1>3
    <3>3. poll.first < HighWord
      BY <1>3, <1>5, <1>8, <2>1 DEF Moved
    <3>4. poll'.first < poll'.high /\ poll'.high <= HighWord'
      BY <1>2, <3>1, <3>2, <3>3
    <3>5. from' <= Copy' /\ poll'.first = from' \div Half
      BY <1>1, <1>2, <1>4, <1>5
    <3>6. QED
      BY <3>1, <3>4, <3>5 DEF ReadSoFar
  <2>2. CASE ~Moved
    <3>1. HighWord = c \div Half
      BY <1>3, <1>5, <1>8, <2>2 DEF Moved
    <3>2. /\ poll'.next = "publish" /\ from' <= Copy' /\ poll'.first = from' \div Half
          /\ from' <= c /\ c <= Copy' /\ poll'.low = c % Half /\ poll'.high = c \div Half
      BY <1>1, <1>2, <1>4, <1>5, <1>6, <2>2, <3>1
    <3>3. QED
      BY <3>2 DEF ReadSoFar
  <2>3. QED
    BY <2>1, <2>2
<1>10. QED
  BY <1>2, <1>4, <1>9 DEF PollInv

LEMMA ReadLowAgainKeeps == PollInv /\ ReadLowAgain => PollInv'
<1> SUFFICES ASSUME PollInv, ReadLowAgain PROVE PollInv'
  OBVIOUS
<1>1. /\ poll.next = "low again" /\ from' = from /\ UNCHANGED snapshot
      /\ poll' = [poll EXCEPT !.next = "publish", !.low = LowWord]
  BY DEF ReadLowAgain
<1>2. CopyInv' /\ Ahead' /\ Copy' = Copy
  BY <1>1, ReadsKeep
<1>3. /\ Copy \in Values /\ Copy \in Int /\ LowWord \in Int
      /\ {from, poll.first, poll.high} \subseteq Int
  BY CopyIs, PollWords, Numbers DEF PollInv, PollTypeOK, LowWord
<1>4. /\ poll'.next = "publish" /\ poll'.first = poll.first /\ poll'.low = LowWord
      /\ poll'.high = poll.high /\ PollTypeOK'
  BY <1>1, <1>3 DEF PollInv, PollTypeOK
<1>5. /\ from <= Copy /\ poll.first = from \div Half
      /\ poll.first < poll.high /\ poll.high <= HighWord
  BY <1>1 DEF PollInv, ReadSoFar
<1>6. ReadSoFar'
  <2>1. /\ poll'.next = "publish" /\ poll'.first = from' \div Half /\ poll'.low = Copy % Half
    BY <1>1, <1>4, <1>5 DEF LowWord
  <2>2. from' <= Copy' /\ from' <= Copy
    BY <1>1, <1>2, <1>5
  <2>3. Copy <= Copy'
    BY <1>2, <1>3
  <2>4. poll'.first < poll'.high
    BY <1>4, <1>5
  <2>5. poll'.high <= Copy \div Half
    BY <1>4, <1>5 DEF HighWord
  <2>6. QED
    BY <1>3, <2>1, <2>2, <2>3, <2>4, <2>5 DEF ReadSoFar
<1>7. QED
  BY <1>2, <1>4, <1>6 DEF PollInv

LEMMA PublishKeeps == PollInv /\ Publish => PollInv'
<1> SUFFICES ASSUME PollInv, Publish PROVE PollInv'
  OBVIOUS
<1>1. poll' = [poll EXCEPT !.next = "high"] /\ from' = from /\ UNCHANGED snapshot
  BY DEF Publish
<1>2. CopyInv' /\ Ahead'
  BY <1>1, ReadsKeep
<1>3. poll'.next = "high" /\ PollTypeOK'
  BY <1>1 DEF PollInv, PollTypeOK
<1>4. QED
  BY <1>2, <1>3 DEF PollInv, ReadSoFar

\* As long as the high word moved once at most, a poll's words belong together.
LEMMA Together == PollInv => PollSound
<1> SUFFICES ASSUME PollInv, poll.next = "publish", HighWord <= from \div Half + 1
             PROVE  from <= poll.high * Half + poll.low /\ poll.high * Half + poll.low <= Copy
  BY DEF PollSound
<1>1. PICK c \in Values : /\ from <= c /\ c <= Copy /\ poll.low = c % Half
                          /\ \/ poll.high = c \div Half
                             \/ poll.first < poll.high /\ poll.high <= c \div Half
  BY DEF PollInv, ReadSoFar
<1>2. c \in Nat /\ Copy \in Nat /\ from \in Nat /\ HighWord \in Int /\ poll.high \in Int
  BY CopyIs, HighIs, SnapshotAssumption DEF PollInv, PollTypeOK, SnapshotAssumption
<1>3. c \div Half <= HighWord /\ c \div Half \in Int /\ from \div Half \in Int
  BY <1>1, <1>2, HighGrows, PollWords DEF HighWord
<1>4. poll.high = c \div Half
  BY <1>1, <1>2, <1>3 DEF PollInv, ReadSoFar
<1>5. poll.high * Half + poll.low = c
  BY <1>1, <1>2, <1>4, PollWords
<1>6. QED
  BY <1>1, <1>2, <1>5

\* serve.cpp 213-231 over snapshot.v: a statistic is reported as it was, from
\* the counter's own clock to the words the server puts together, for any
\* widths, values and clocks, wherever the copies are renewed between reads.
THEOREM Reported == PollSpec => []CopiesSound
<1>1. PollInv /\ [PollNext]_polling => PollInv'
  <2> SUFFICES ASSUME PollInv, [PollNext]_polling PROVE PollInv'
    OBVIOUS
  <2>1. CASE SnapshotNext /\ UNCHANGED <<poll, from>>
    BY <2>1, ClockKeeps
  <2>2. CASE UNCHANGED polling
    <3>1. UNCHANGED snapshot /\ poll' = poll /\ from' = from
      BY <2>2 DEF polling
    <3>2. QED
      BY <3>1, ReadsKeep DEF PollInv, PollTypeOK, ReadSoFar
  <2>3. QED
    BY <2>1, <2>2, ReadHighKeeps, ReadLowKeeps, ReadHighAgainKeeps, ReadLowAgainKeeps, PublishKeeps
    DEF PollNext
<1>2. PollInv => CopiesSound
  BY Together DEF CopiesSound, PollInv, CopyInv
<1>3. QED
  BY <1>1, <1>2, PollStart, PTL DEF PollSpec

-----------------------------------------------------------------------------
(* The FIFO between two clocks.                                            *)
(* Numbers and their bits.                                                 *)

\* Counting up to a bound, for a property given by the set of its numbers.
LEMMA Counting ==
    ASSUME NEW N \in Nat, NEW T, 0 \in T, \A i \in 0 .. N - 1 : i \in T => i + 1 \in T
    PROVE  \A i \in 0 .. N : i \in T
<1> SUFFICES ASSUME NEW j \in 0 .. N, j \notin T PROVE FALSE
  OBVIOUS
<1> DEFINE Missed == {k \in Nat : k \in 0 .. N /\ k \notin T}
           Less == {p \in Nat \X Nat : p[1] < p[2]}
<1>1. IsWellFoundedOn(Less, Nat)
  BY NatLessThanWellFounded DEF OpToRel
<1>2. Missed \in SUBSET Nat /\ Missed # {}
  OBVIOUS
<1>3. PICK i \in Missed : \A k \in Missed : ~(<<k, i>> \in Less)
  BY <1>1, <1>2, WFMin
<1>4. i # 0 /\ i - 1 \in 0 .. N - 1 /\ i - 1 \in Nat
  OBVIOUS
<1>5. i - 1 \notin T
  BY <1>4
<1>6. <<i - 1, i>> \in Less
  BY <1>4
<1>7. QED
  BY <1>3, <1>4, <1>5, <1>6

\* The powers of two are what their definition says.
LEMMA Powers ==
    /\ TwoTo[0] = 1
    /\ \A i \in 0 .. AddrBits : TwoTo[i + 1] = 2 * TwoTo[i]
    /\ \A i \in 0 .. AddrBits + 1 : TwoTo[i] \in Nat \ {0}
<1> USE FifoAssumption DEF FifoAssumption
<1> DEFINE Tables(n) == {f \in [0 .. n -> Nat \ {0}] :
                            f[0] = 1 /\ \A i \in 0 .. n - 1 : f[i + 1] = 2 * f[i]}
           Reached == {n \in Nat : Tables(n) # {}}
<1>1. 0 \in Reached
  <2>1. [i \in 0 .. 0 |-> 1] \in Tables(0)
    OBVIOUS
  <2>2. QED
    BY <2>1
<1>2. ASSUME NEW n \in 0 .. AddrBits, n \in Reached PROVE n + 1 \in Reached
  <2>1. PICK f : f \in Tables(n)
    BY <1>2
  <2> DEFINE g == [i \in 0 .. n + 1 |-> IF i = n + 1 THEN 2 * f[n] ELSE f[i]]
  <2>2. g \in [0 .. n + 1 -> Nat \ {0}] /\ g[0] = 1
    BY <2>1
  <2>3. \A i \in 0 .. n : g[i + 1] = 2 * g[i]
    BY <2>1
  <2> HIDE DEF g
  <2>4. n + 1 \in Nat /\ n + 1 - 1 = n
    OBVIOUS
  <2>5. QED
    BY <2>2, <2>3, <2>4
<1>3. AddrBits + 1 \in Reached
  <2> HIDE DEF Reached
  <2>1. \A i \in 0 .. AddrBits + 1 : i \in Reached
    BY <1>1, <1>2, Counting
  <2>2. QED
    BY <2>1
<1>4. PICK f : f \in Tables(AddrBits + 1)
  BY <1>3
<1>5. f = [i \in 0 .. AddrBits + 1 |-> IF i = 0 THEN 1 ELSE 2 * f[i - 1]]
  <2>1. f \in [0 .. AddrBits + 1 -> Nat \ {0}] /\ f[0] = 1
    BY <1>4
  <2>2. ASSUME NEW i \in 0 .. AddrBits + 1, i # 0 PROVE f[i] = 2 * f[i - 1]
    <3>1. i - 1 \in 0 .. AddrBits + 1 - 1 /\ (i - 1) + 1 = i
      BY <2>2
    <3>2. QED
      BY <1>4, <3>1
  <2>3. QED
    BY <2>1, <2>2
<1>6. TwoTo = [i \in 0 .. AddrBits + 1 |-> IF i = 0 THEN 1 ELSE 2 * TwoTo[i - 1]]
  BY <1>5 DEF TwoTo
<1>7. TwoTo[0] = 1 /\ \A i \in 0 .. AddrBits : TwoTo[i + 1] = 2 * TwoTo[i]
  BY <1>6
<1> DEFINE Known == {i \in Nat : TwoTo[i] \in Nat \ {0}}
<1>8. 0 \in Known /\ \A i \in 0 .. AddrBits : i \in Known => i + 1 \in Known
  BY <1>7
<1>9. \A i \in 0 .. AddrBits + 1 : i \in Known
  <2> HIDE DEF Known
  <2>1. QED
    BY <1>8, Counting
<1>10. QED
  BY <1>7, <1>9

\* A quotient is known by its remainder.
LEMMA Quotient ==
    ASSUME NEW p \in Nat \ {0}, NEW n \in Nat, NEW q \in Nat, NEW r \in 0 .. p - 1, n = p * q + r
    PROVE  n \div p = q
BY SMT

\* To halve a number shifted by i bits is to shift it by one more; what is lost is the bit.
LEMMA Halves ==
    ASSUME NEW p \in Nat \ {0}, NEW n \in Nat
    PROVE  /\ n \div p \in Nat /\ n \div (2 * p) \in Nat /\ (n \div p) % 2 \in {0, 1}
           /\ n \div p = 2 * (n \div (2 * p)) + ((n \div p) % 2)
<1>1. PICK w \in Nat \ {0} : w = 2 * p
  OBVIOUS
<1> DEFINE q == n \div w
           r == n % w
<1>2. n = w * q + r /\ q \in Nat /\ r \in 0 .. w - 1
  BY ONLY n \in Nat, w \in Nat \ {0}
<1> HIDE DEF q, r
<1>3. PICK b \in {0, 1}, s \in 0 .. p - 1 : r = p * b + s
  <2> USE <1>1
  <2>1. CASE r < p
    <3>1. r = p * 0 + r /\ r \in 0 .. p - 1
      BY <1>2, <2>1
    <3>2. QED
      BY <3>1
  <2>2. CASE r >= p
    <3>1. r = p * 1 + (r - p) /\ r - p \in 0 .. p - 1
      BY <1>2, <2>2
    <3>2. QED
      BY <3>1
  <2>3. QED
    BY <1>2, <2>1, <2>2
<1>4. n = p * (2 * q + b) + s /\ 2 * q + b \in Nat
  <2>1. w * q = p * (2 * q) /\ p * (2 * q + b) = p * (2 * q) + p * b
    BY <1>1, <1>2
  <2>2. PICK a \in Int : a = p * (2 * q)
    BY <1>2
  <2>3. PICK c \in Int : c = p * b
    OBVIOUS
  <2>4. QED
    BY <1>2, <1>3, <2>1, <2>2, <2>3
<1>5. n \div p = 2 * q + b
  BY <1>4, Quotient
<1>6. QED
  BY <1>1, <1>2, <1>5 DEF q

\* The bits of a pointer, from the top one down.
Shifted(n, i) == n \div TwoTo[i]

LEMMA BitsOf ==
    ASSUME NEW n \in Nat
    PROVE  /\ Shifted(n, 0) = n
           /\ \A i \in 0 .. AddrBits + 1 : Shifted(n, i) \in Nat /\ Bit(n, i) \in {0, 1} /\ Bit(n, i) = Shifted(n, i) % 2
           /\ \A i \in Bits : Shifted(n, i) = 2 * Shifted(n, i + 1) + Bit(n, i)
           /\ n < 2 * Depth => Shifted(n, AddrBits + 1) = 0 /\ Bit(n, AddrBits + 1) = 0
<1> USE FifoAssumption DEF FifoAssumption, Bits
<1>1. Shifted(n, 0) = n
  BY Powers DEF Shifted
<1>2. \A i \in 0 .. AddrBits + 1 : Shifted(n, i) \in Nat /\ Bit(n, i) \in {0, 1} /\ Bit(n, i) = Shifted(n, i) % 2
  <2> TAKE i \in 0 .. AddrBits + 1
  <2>1. PICK p \in Nat \ {0} : p = TwoTo[i]
    BY Powers
  <2>2. QED
    BY <2>1, Halves DEF Shifted, Bit
<1>3. \A i \in Bits : Shifted(n, i) = 2 * Shifted(n, i + 1) + Bit(n, i)
  <2> TAKE i \in Bits
  <2>1. PICK p \in Nat \ {0} : p = TwoTo[i] /\ TwoTo[i + 1] = 2 * p
    BY Powers
  <2>2. QED
    BY <2>1, Halves DEF Shifted, Bit
<1>4. ASSUME n < 2 * Depth PROVE Shifted(n, AddrBits + 1) = 0 /\ Bit(n, AddrBits + 1) = 0
  <2>1. PICK p \in Nat \ {0} : p = TwoTo[AddrBits + 1] /\ n < p
    BY Powers, <1>4 DEF Depth
  <2>2. n \div p = 0
    BY <2>1
  <2>3. QED
    BY <2>1, <2>2, <1>2 DEF Shifted
<1>5. QED
  BY <1>1, <1>2, <1>3, <1>4

LEMMA DepthIs == Depth \in Nat /\ Depth >= 4 /\ TwoTo[AddrBits + 1] = 2 * Depth
<1> USE FifoAssumption DEF FifoAssumption
<1> DEFINE Large == {i \in Nat : i >= 2 => TwoTo[i] >= 4}
<1>1. TwoTo[1] = 2 /\ TwoTo[2] = 4
  <2>1. TwoTo[0 + 1] = 2 * TwoTo[0] /\ TwoTo[1 + 1] = 2 * TwoTo[1]
    BY Powers
  <2>2. QED
    BY <2>1, Powers
<1>2. 0 \in Large /\ \A i \in 0 .. AddrBits - 1 : i \in Large => i + 1 \in Large
  <2> SUFFICES ASSUME NEW i \in 0 .. AddrBits - 1, i \in Large, i + 1 >= 2 PROVE TwoTo[i + 1] >= 4
    OBVIOUS
  <2>1. CASE i = 1
    BY <1>1, <2>1
  <2>2. CASE i >= 2
    BY <2>2, Powers
  <2>3. QED
    BY <2>1, <2>2
<1>3. AddrBits \in Large
  <2> HIDE DEF Large
  <2>1. QED
    BY <1>2, Counting
<1>4. QED
  BY <1>3, Powers DEF Depth

LEMMA Parity ==
    ASSUME NEW a \in {0, 1}, NEW b \in {0, 1}, NEW q \in Nat, b = q % 2
    PROVE  (((a + b) % 2) + q) % 2 = a
OBVIOUS

\* async_fifo.v 49-56: the decoder undoes the code.
LEMMA Decoded == ASSUME NEW n \in Pointer PROVE FromGray(Gray(n)) = n
<1> USE FifoAssumption DEF FifoAssumption, Bits
<1>0. n \in Nat /\ n < 2 * Depth
  BY DepthIs DEF Pointer
<1>b. PICK S \in [0 .. AddrBits + 1 -> Nat] : \A i \in 0 .. AddrBits + 1 : S[i] = Shifted(n, i)
  <2>1. [i \in 0 .. AddrBits + 1 |-> Shifted(n, i)] \in [0 .. AddrBits + 1 -> Nat]
    BY <1>0, BitsOf
  <2>2. QED
    BY <2>1
<1>g. PICK g : g = Gray(n)
  OBVIOUS
<1>1. \A i \in Bits : S[i] = 2 * S[i + 1] + ((g[i] + S[i + 1]) % 2)
  <2> TAKE i \in Bits
  <2>0. i \in 0 .. AddrBits + 1 /\ i + 1 \in 0 .. AddrBits + 1
    OBVIOUS
  <2>1. /\ Bit(n, i) \in {0, 1} /\ Bit(n, i + 1) \in {0, 1}
        /\ Bit(n, i + 1) = S[i + 1] % 2 /\ S[i] = 2 * S[i + 1] + Bit(n, i)
    <3>1. /\ \A j \in 0 .. AddrBits + 1 : Bit(n, j) \in {0, 1} /\ Bit(n, j) = Shifted(n, j) % 2
          /\ \A j \in Bits : Shifted(n, j) = 2 * Shifted(n, j + 1) + Bit(n, j)
      BY <1>0, BitsOf
    <3>2. S[i] = Shifted(n, i) /\ S[i + 1] = Shifted(n, i + 1)
      BY <1>b, <2>0
    <3>3. Shifted(n, i) = 2 * Shifted(n, i + 1) + Bit(n, i)
      BY <3>1
    <3>4. QED
      BY <3>1, <3>2, <3>3, <2>0
  <2>2. g[i] = (Bit(n, i) + Bit(n, i + 1)) % 2
    BY <1>g DEF Gray
  <2>3. S[i + 1] \in Nat
    BY <2>0
  <2>4. (g[i] + S[i + 1]) % 2 = Bit(n, i)
    <3>1. PICK a \in {0, 1}, b \in {0, 1}, q \in Nat :
              /\ a = Bit(n, i) /\ b = Bit(n, i + 1) /\ b = q % 2 /\ q = S[i + 1] /\ g[i] = (a + b) % 2
      BY <2>1, <2>2, <2>3
    <3>2. (((a + b) % 2) + q) % 2 = a
      <4>1. b = q % 2
        BY <3>1
      <4>2. QED
        BY ONLY <4>1, Parity
    <3>3. QED
      BY <3>1, <3>2
  <2>5. QED
    BY <2>1, <2>4
<1>2. S[AddrBits + 1] = 0 /\ S[0] = n
  BY <1>0, <1>b, BitsOf
<1> DEFINE Unfold(f) == [i \in 0 .. AddrBits + 1 |->
                            IF i > AddrBits THEN 0 ELSE 2 * f[i + 1] + ((g[i] + f[i + 1]) % 2)]
           found == CHOOSE f : f = Unfold(f)
<1>3. S = Unfold(S)
  BY <1>1, <1>2
<1>4. found = Unfold(found)
  BY <1>3
<1>5. FromGray(g) = found[0]
  BY DEF FromGray
<1> HIDE DEF found
<1> DEFINE Same == {k \in Nat : found[AddrBits + 1 - k] = S[AddrBits + 1 - k]}
<1>6. 0 \in Same
  BY <1>2, <1>4
<1>7. \A k \in 0 .. AddrBits : k \in Same => k + 1 \in Same
  <2> SUFFICES ASSUME NEW k \in 0 .. AddrBits, k \in Same PROVE k + 1 \in Same
    OBVIOUS
  <2>1. PICK i \in Bits : i = AddrBits - k
    OBVIOUS
  <2>2. found[i + 1] = S[i + 1]
    BY <2>1
  <2>3. found[i] = 2 * found[i + 1] + ((g[i] + found[i + 1]) % 2)
    BY <1>4
  <2>4. found[i] = S[i]
    BY <1>1, <2>2, <2>3
  <2>5. QED
    BY <2>1, <2>4
<1>8. AddrBits + 1 \in Same
  <2> HIDE DEF Same
  <2>1. AddrBits + 1 \in Nat /\ (AddrBits + 1) - 1 = AddrBits
    OBVIOUS
  <2>2. \A k \in 0 .. AddrBits + 1 : k \in Same
    BY ONLY <1>6, <1>7, <2>1, Counting
  <2>3. QED
    BY <2>1, <2>2
<1>9. QED
  BY <1>2, <1>5, <1>8, <1>g

\* Adding one carries into a bit when it carries into the one below, and that is set.
LEMMA Carry ==
    ASSUME NEW n \in Nat
    PROVE  /\ \A i \in 0 .. AddrBits + 1 : Shifted(n + 1, i) \in {Shifted(n, i), Shifted(n, i) + 1}
           /\ \A i \in Bits : Shifted(n + 1, i + 1) = Shifted(n, i + 1) + 1 <=>
                                  Shifted(n + 1, i) = Shifted(n, i) + 1 /\ Bit(n, i) = 1
<1> USE FifoAssumption DEF FifoAssumption, Bits
<1>1. /\ \A i \in 0 .. AddrBits + 1 : Shifted(n, i) \in Nat
      /\ \A i \in Bits : Shifted(n, i) = 2 * Shifted(n, i + 1) + Bit(n, i) /\ Bit(n, i) \in {0, 1}
      /\ Shifted(n, 0) = n
  BY BitsOf
<1>2. /\ n + 1 \in Nat
      /\ \A i \in 0 .. AddrBits + 1 : Shifted(n + 1, i) \in Nat
      /\ \A i \in Bits : Shifted(n + 1, i) = 2 * Shifted(n + 1, i + 1) + Bit(n + 1, i) /\ Bit(n + 1, i) \in {0, 1}
      /\ Shifted(n + 1, 0) = n + 1
  BY BitsOf
<1> DEFINE Near == {i \in Nat : Shifted(n + 1, i) \in {Shifted(n, i), Shifted(n, i) + 1}}
<1>3. ASSUME NEW i \in Bits, i \in Near
      PROVE  /\ i + 1 \in Near
             /\ Shifted(n + 1, i + 1) = Shifted(n, i + 1) + 1 <=>
                    Shifted(n + 1, i) = Shifted(n, i) + 1 /\ Bit(n, i) = 1
  <2>1. PICK a \in Nat, b \in Nat, c \in {0, 1}, d \in {0, 1} :
            /\ a = Shifted(n, i + 1) /\ b = Shifted(n + 1, i + 1) /\ c = Bit(n, i) /\ d = Bit(n + 1, i)
            /\ Shifted(n, i) = 2 * a + c /\ Shifted(n + 1, i) = 2 * b + d
    BY <1>1, <1>2
  <2>2. 2 * b + d \in {2 * a + c, 2 * a + c + 1}
    BY <1>3, <2>1
  <2>3. /\ b \in {a, a + 1}
        /\ b = a + 1 <=> 2 * b + d = 2 * a + c + 1 /\ c = 1
    BY <2>2
  <2>4. QED
    BY <2>1, <2>3
<1>4. \A i \in 0 .. AddrBits + 1 : i \in Near
  <2>1. 0 \in Near
    BY <1>1, <1>2
  <2>2. \A i \in 0 .. (AddrBits + 1) - 1 : i \in Near => i + 1 \in Near
    BY <1>3
  <2> HIDE DEF Near
  <2>3. AddrBits + 1 \in Nat
    OBVIOUS
  <2>4. QED
    BY ONLY <2>1, <2>2, <2>3, Counting
<1>5. QED
  <2>1. \A i \in Bits : i \in Near
    BY <1>4
  <2>2. QED
    BY <1>3, <1>4, <2>1

\* The code of the next number differs in one bit.
LEMMA OneBit ==
    ASSUME NEW n \in Pointer
    PROVE  \E k \in Bits : \A i \in Bits \ {k} : Gray(Plus(n, 1))[i] = Gray(n)[i]
<1> USE FifoAssumption DEF FifoAssumption, Bits
<1>0. n \in Nat /\ n < 2 * Depth /\ n + 1 \in Nat
  BY DepthIs DEF Pointer
<1>1. /\ \A i \in 0 .. AddrBits + 1 : Shifted(n, i) \in Nat /\ Bit(n, i) \in {0, 1} /\ Bit(n, i) = Shifted(n, i) % 2
      /\ Shifted(n, AddrBits + 1) = 0 /\ Bit(n, AddrBits + 1) = 0 /\ Shifted(n, 0) = n
  BY <1>0, BitsOf
<1>2. /\ \A i \in 0 .. AddrBits + 1 : Shifted(n + 1, i) \in Nat /\ Bit(n + 1, i) \in {0, 1} /\ Bit(n + 1, i) = Shifted(n + 1, i) % 2
      /\ n + 1 < 2 * Depth => Shifted(n + 1, AddrBits + 1) = 0
      /\ Shifted(n + 1, 0) = n + 1
  BY <1>0, BitsOf
<1> DEFINE Carried == {i \in 0 .. AddrBits + 1 : Shifted(n + 1, i) = Shifted(n, i) + 1}
<1>3. 0 \in Carried
  BY <1>1, <1>2
<1>4. \A i \in Bits : i + 1 \in Carried <=> i \in Carried /\ Bit(n, i) = 1
  BY <1>0, Carry
<1>5. \A i \in 0 .. AddrBits + 1 : Shifted(n + 1, i) = IF i \in Carried THEN Shifted(n, i) + 1 ELSE Shifted(n, i)
  BY <1>0, Carry
<1>6. \A i \in 0 .. AddrBits + 1 : Bit(n + 1, i) = IF i \in Carried THEN 1 - Bit(n, i) ELSE Bit(n, i)
  <2> TAKE i \in 0 .. AddrBits + 1
  <2>1. PICK a \in Nat, b \in {0, 1} : a = Shifted(n, i) /\ b = Bit(n, i) /\ b = a % 2
    BY <1>1
  <2>2. (a + 1) % 2 = 1 - (a % 2)
    OBVIOUS
  <2>3. Bit(n + 1, i) = IF i \in Carried THEN (a + 1) % 2 ELSE a % 2
    BY <1>2, <1>5, <2>1
  <2>4. QED
    BY <2>1, <2>2, <2>3
<1>7. \A i \in Bits : i + 1 \in 0 .. AddrBits + 1 /\ i \in 0 .. AddrBits + 1
  OBVIOUS
<1>8. ASSUME NEW i \in Bits, i \in Carried <=> i + 1 \in Carried
      PROVE  Gray(n + 1)[i] = Gray(n)[i]
  <2>1. PICK a \in {0, 1}, b \in {0, 1} : a = Bit(n, i) /\ b = Bit(n, i + 1)
    BY <1>1, <1>7
  <2>2. \/ Bit(n + 1, i) = a /\ Bit(n + 1, i + 1) = b
        \/ Bit(n + 1, i) = 1 - a /\ Bit(n + 1, i + 1) = 1 - b
    BY <1>6, <1>7, <1>8, <2>1
  <2>3. ((1 - a) + (1 - b)) % 2 = (a + b) % 2
    OBVIOUS
  <2>4. QED
    BY <2>1, <2>2, <2>3 DEF Gray
<1>9. CASE n + 1 < 2 * Depth
  <2>1. Plus(n, 1) = n + 1
    BY <1>0, <1>9, DepthIs DEF Plus
  <2>2. AddrBits + 1 \notin Carried
    BY <1>1, <1>2, <1>9
  <2> HIDE DEF Carried
  <2>3. PICK k \in Bits : k \in Carried /\ k + 1 \notin Carried
    <3> SUFFICES ASSUME \A k \in 0 .. (AddrBits + 1) - 1 : k \in Carried => k + 1 \in Carried PROVE FALSE
      OBVIOUS
    <3>1. AddrBits + 1 \in Nat /\ AddrBits + 1 \in 0 .. AddrBits + 1
      OBVIOUS
    <3>2. \A i \in 0 .. AddrBits + 1 : i \in Carried
      BY <1>3, <3>1, Counting
    <3>3. QED
      BY <2>2, <3>1, <3>2
  <2>4. \A i \in 0 .. AddrBits - k : k + 1 + i \notin Carried
    <3> DEFINE Above == {i \in Nat : k + 1 + i \notin Carried}
    <3>1. 0 \in Above
      BY <2>3
    <3>2. \A i \in 0 .. (AddrBits - k) - 1 : i \in Above => i + 1 \in Above
      <4> SUFFICES ASSUME NEW i \in 0 .. (AddrBits - k) - 1, i \in Above PROVE i + 1 \in Above
        OBVIOUS
      <4>1. k + 1 + i \in Bits /\ k + 1 + i + 1 = k + 1 + (i + 1)
        OBVIOUS
      <4>2. QED
        BY <1>4, <4>1
    <3>3. AddrBits - k \in Nat
      OBVIOUS
    <3> HIDE DEF Above
    <3>4. \A i \in 0 .. AddrBits - k : i \in Above
      BY ONLY <3>1, <3>2, <3>3, Counting
    <3>5. QED
      BY <3>4 DEF Above
  <2>5. \A i \in 0 .. k : k - i \in Carried
    <3> DEFINE Below == {i \in Nat : k - i \in Carried}
    <3>1. 0 \in Below
      BY <2>3
    <3>2. \A i \in 0 .. k - 1 : i \in Below => i + 1 \in Below
      <4> SUFFICES ASSUME NEW i \in 0 .. k - 1, i \in Below PROVE i + 1 \in Below
        OBVIOUS
      <4>1. k - (i + 1) \in Bits /\ (k - (i + 1)) + 1 = k - i
        OBVIOUS
      <4>2. QED
        BY <1>4, <4>1
    <3>3. k \in Nat
      OBVIOUS
    <3> HIDE DEF Below
    <3>4. \A i \in 0 .. k : i \in Below
      BY ONLY <3>1, <3>2, <3>3, Counting
    <3>5. QED
      BY <3>4 DEF Below
  <2>6. ASSUME NEW i \in Bits \ {k} PROVE i \in Carried <=> i + 1 \in Carried
    <3>1. CASE i < k
      <4>1. k - i \in 0 .. k /\ k - (i + 1) \in 0 .. k /\ k - (k - i) = i /\ k - (k - (i + 1)) = i + 1
        BY <3>1
      <4>2. QED
        BY <2>5, <4>1
    <3>2. CASE i > k
      <4>1. i - k - 1 \in 0 .. AddrBits - k /\ i - k \in 0 .. AddrBits - k
            /\ k + 1 + (i - k - 1) = i /\ k + 1 + (i - k) = i + 1
        BY <3>2
      <4>2. QED
        BY <2>4, <4>1
    <3>3. QED
      BY <3>1, <3>2
  <2>7. QED
    BY <1>8, <2>1, <2>6
<1>10. CASE n + 1 = 2 * Depth
  <2>1. Plus(n, 1) = 0
    BY <1>0, <1>10, DepthIs DEF Plus
  <2>2. \A i \in 0 .. AddrBits + 1 : Bit(0, i) = 0
    <3> TAKE i \in 0 .. AddrBits + 1
    <3>1. PICK p \in Nat \ {0} : p = TwoTo[i]
      BY Powers
    <3>2. 0 \div p = 0
      OBVIOUS
    <3>3. QED
      BY <3>1, <3>2 DEF Bit
  <2>3. AddrBits + 1 \in Carried
    <3>1. PICK p \in Nat \ {0} : p = TwoTo[AddrBits + 1] /\ n + 1 = p
      BY <1>10, Powers, DepthIs
    <3>2. p \div p = 1
      OBVIOUS
    <3>3. Shifted(n + 1, AddrBits + 1) = 1
      BY <3>1, <3>2 DEF Shifted
    <3>4. QED
      BY <1>1, <3>3
  <2> HIDE DEF Carried
  <2>4. \A i \in Bits : i \in Carried /\ Bit(n, i) = 1
    <3> DEFINE Down == {j \in Nat : AddrBits + 1 - j \in Carried}
    <3>1. 0 \in Down
      BY <2>3
    <3>2. \A j \in 0 .. (AddrBits + 1) - 1 : j \in Down => j + 1 \in Down
      <4> SUFFICES ASSUME NEW j \in 0 .. AddrBits, j \in Down PROVE j + 1 \in Down
        OBVIOUS
      <4>1. AddrBits - j \in Bits /\ (AddrBits - j) + 1 = AddrBits + 1 - j /\ AddrBits + 1 - (j + 1) = AddrBits - j
        OBVIOUS
      <4>2. QED
        BY <1>4, <4>1
    <3>3. AddrBits + 1 \in Nat
      OBVIOUS
    <3> HIDE DEF Down
    <3>4. \A j \in 0 .. AddrBits + 1 : j \in Down
      BY ONLY <3>1, <3>2, <3>3, Counting
    <3>5. ASSUME NEW i \in Bits PROVE i + 1 \in Carried
      <4>1. AddrBits - i \in 0 .. AddrBits + 1 /\ AddrBits + 1 - (AddrBits - i) = i + 1
        OBVIOUS
      <4>2. QED
        BY <3>4, <4>1 DEF Down
    <3>6. QED
      BY <1>4, <3>5
  <2>5. \A i \in Bits \ {AddrBits} : i + 1 \in Bits
    OBVIOUS
  <2>6. \A i \in Bits \ {AddrBits} : Gray(0)[i] = 0 /\ Gray(n)[i] = 0
    BY <2>2, <2>4, <2>5, <1>7 DEF Gray
  <2>7. AddrBits \in Bits
    OBVIOUS
  <2>8. QED
    BY <2>1, <2>6, <2>7
<1>11. QED
  BY <1>0, <1>9, <1>10, DepthIs

LEMMA NextPointer == \A n \in Pointer : Plus(n, 1) \in Pointer
BY DepthIs DEF Pointer, Plus

LEMMA Coded == ASSUME NEW n \in Nat PROVE Gray(n) \in [Bits -> {0, 1}]
<1>1. \A i \in Bits : Bit(n, i) \in {0, 1} /\ Bit(n, i + 1) \in {0, 1}
  BY BitsOf, FifoAssumption DEF FifoAssumption, Bits
<1>2. \A a, b \in {0, 1} : (a + b) % 2 \in {0, 1}
  OBVIOUS
<1>3. QED
  BY <1>1, <1>2 DEF Gray

\* A register that samples a pointer on the edge at which it advances holds
\* the one before or the one after it, whatever becomes of each bit.
LEMMA OldOrNew ==
    ASSUME NEW old \in Pointer, NEW now \in {old, Plus(old, 1)}, NEW g \in Sampled(old, now)
    PROVE  g = Gray(old) \/ g = Gray(now)
<1> USE FifoAssumption DEF FifoAssumption
<1>1. PICK k \in Bits : \A i \in Bits \ {k} : Gray(now)[i] = Gray(old)[i]
  <2>1. CASE now = old
    <3>1. 0 \in Bits
      BY DEF Bits
    <3>2. QED
      BY <2>1, <3>1
  <2>2. CASE now = Plus(old, 1)
    BY <2>2, OneBit
  <2>3. QED
    BY <2>1, <2>2
<1>2. Gray(old) \in [Bits -> {0, 1}] /\ Gray(now) \in [Bits -> {0, 1}]
  BY Coded, NextPointer, DepthIs DEF Pointer
<1>3. g \in [Bits -> {0, 1}] /\ \A i \in Bits : g[i] \in {Gray(old)[i], Gray(now)[i]}
  BY DEF Sampled
<1>4. CASE g[k] = Gray(old)[k]
  <2>1. \A i \in Bits : g[i] = Gray(old)[i]
    BY <1>1, <1>3, <1>4
  <2>2. QED
    BY <1>2, <1>3, <2>1
<1>5. CASE g[k] = Gray(now)[k]
  <2>1. \A i \in Bits : g[i] = Gray(now)[i]
    BY <1>1, <1>3, <1>5
  <2>2. QED
    BY <1>2, <1>3, <2>1
<1>6. QED
  BY <1>3, <1>4, <1>5

\* Half the pointers further every bit but the top one is the same.
LEMMA HalfTurn ==
    ASSUME NEW n \in Nat, n < Depth
    PROVE  Turned(Gray(n)) = Gray(n + Depth) /\ Turned(Gray(n + Depth)) = Gray(n)
<1> USE FifoAssumption DEF FifoAssumption, Bits
<1>0. n + Depth \in Nat /\ n < 2 * Depth /\ n + Depth < 2 * Depth
  BY DepthIs
<1>1. /\ \A i \in 0 .. AddrBits + 1 : Shifted(n, i) \in Nat /\ Bit(n, i) \in {0, 1} /\ Bit(n, i) = Shifted(n, i) % 2
      /\ \A i \in Bits : Shifted(n, i) = 2 * Shifted(n, i + 1) + Bit(n, i)
      /\ Bit(n, AddrBits + 1) = 0 /\ Shifted(n, 0) = n
  BY <1>0, BitsOf
<1>2. /\ \A i \in 0 .. AddrBits + 1 : Shifted(n + Depth, i) \in Nat /\ Bit(n + Depth, i) \in {0, 1}
                                      /\ Bit(n + Depth, i) = Shifted(n + Depth, i) % 2
      /\ \A i \in Bits : Shifted(n + Depth, i) = 2 * Shifted(n + Depth, i + 1) + Bit(n + Depth, i)
      /\ Bit(n + Depth, AddrBits + 1) = 0 /\ Shifted(n + Depth, 0) = n + Depth
  BY <1>0, BitsOf
<1> DEFINE Off == {i \in Nat : Shifted(n + Depth, i) = Shifted(n, i) + TwoTo[AddrBits - i]}
<1>3. 0 \in Off
  BY <1>1, <1>2 DEF Depth
<1>4. ASSUME NEW i \in 0 .. AddrBits - 1, i \in Off PROVE i + 1 \in Off /\ Bit(n + Depth, i) = Bit(n, i)
  <2>1. PICK a \in Nat, b \in Nat, c \in {0, 1}, d \in {0, 1} :
            /\ a = Shifted(n, i + 1) /\ b = Shifted(n + Depth, i + 1) /\ c = Bit(n, i) /\ d = Bit(n + Depth, i)
            /\ Shifted(n, i) = 2 * a + c /\ Shifted(n + Depth, i) = 2 * b + d
    <3>1. i \in 0 .. AddrBits + 1 /\ i + 1 \in 0 .. AddrBits + 1 /\ i \in Bits
      OBVIOUS
    <3>2. /\ Shifted(n, i + 1) \in Nat /\ Bit(n, i) \in {0, 1}
          /\ Shifted(n, i) = 2 * Shifted(n, i + 1) + Bit(n, i)
      BY <1>1, <3>1
    <3>3. /\ Shifted(n + Depth, i + 1) \in Nat /\ Bit(n + Depth, i) \in {0, 1}
          /\ Shifted(n + Depth, i) = 2 * Shifted(n + Depth, i + 1) + Bit(n + Depth, i)
      BY <1>2, <3>1
    <3>4. QED
      BY <3>2, <3>3
  <2>2. AddrBits - (i + 1) \in 0 .. AddrBits /\ (AddrBits - (i + 1)) + 1 = AddrBits - i
    OBVIOUS
  <2>3. PICK e \in Nat : e = TwoTo[AddrBits - (i + 1)] /\ TwoTo[AddrBits - i] = 2 * e
    BY Powers, <2>2
  <2>4. 2 * b + d = 2 * a + c + 2 * e
    BY <1>4, <2>1, <2>3
  <2>5. b = a + e /\ d = c
    BY <2>4
  <2>6. QED
    BY <2>1, <2>3, <2>5
<1>5. \A i \in 0 .. AddrBits : i \in Off
  <2>1. \A i \in 0 .. AddrBits - 1 : i \in Off => i + 1 \in Off
    BY <1>4
  <2> HIDE DEF Off
  <2>2. AddrBits \in Nat
    OBVIOUS
  <2>3. QED
    BY ONLY <1>3, <2>1, <2>2, Counting
<1>6. \A i \in 0 .. AddrBits - 1 : Bit(n + Depth, i) = Bit(n, i)
  <2> TAKE i \in 0 .. AddrBits - 1
  <2>1. i \in Off
    BY <1>5
  <2>2. QED
    BY <1>4, <2>1
<1>7. Bit(n, AddrBits) = 0 /\ Bit(n + Depth, AddrBits) = 1
  <2>1. Shifted(n, AddrBits) = 0
    <3>1. PICK p \in Nat \ {0} : p = Depth
      BY DepthIs
    <3>2. n \div p = 0
      BY <3>1
    <3>3. QED
      BY <3>1, <3>2 DEF Shifted, Depth
  <2>2. Shifted(n + Depth, AddrBits) = 1
    <3>1. AddrBits \in Off /\ AddrBits - AddrBits = 0
      BY <1>5
    <3>2. QED
      BY <2>1, <3>1, Powers
  <2>3. AddrBits \in 0 .. AddrBits + 1 /\ 0 % 2 = 0 /\ 1 % 2 = 1
    OBVIOUS
  <2>4. QED
    BY <1>1, <1>2, <2>1, <2>2, <2>3
<1>8. \A m \in Nat : \A i \in Bits : Gray(m)[i] = (Bit(m, i) + Bit(m, i + 1)) % 2
  BY DEF Gray
<1>9. Gray(n) \in [Bits -> {0, 1}] /\ Gray(n + Depth) \in [Bits -> {0, 1}]
  BY <1>0, Coded
<1>10. ASSUME NEW i \in Bits
       PROVE  Gray(n + Depth)[i] = IF i >= AddrBits - 1 THEN 1 - Gray(n)[i] ELSE Gray(n)[i]
  <2>1. CASE i = AddrBits
    <3>1. Gray(n)[i] = (0 + 0) % 2 /\ Gray(n + Depth)[i] = (1 + 0) % 2
      <4>1. /\ Gray(n)[i] = (Bit(n, i) + Bit(n, i + 1)) % 2
            /\ Gray(n + Depth)[i] = (Bit(n + Depth, i) + Bit(n + Depth, i + 1)) % 2
        BY <1>0, <1>8
      <4>2. QED
        BY <1>1, <1>2, <1>7, <2>1, <4>1
    <3>2. QED
      BY <2>1, <3>1
  <2>2. CASE i = AddrBits - 1
    <3>1. i + 1 = AddrBits /\ i \in 0 .. AddrBits - 1 /\ i \in 0 .. AddrBits + 1
      BY <2>2
    <3>2. PICK b \in {0, 1} : b = Bit(n, i)
      BY <1>1, <3>1
    <3>3. Gray(n)[i] = (b + 0) % 2 /\ Gray(n + Depth)[i] = (b + 1) % 2
      BY <1>0, <1>6, <1>7, <1>8, <3>1, <3>2
    <3>4. QED
      BY <2>2, <3>2, <3>3
  <2>3. CASE i < AddrBits - 1
    <3>1. i + 1 \in 0 .. AddrBits - 1 /\ i \in 0 .. AddrBits - 1
      BY <2>3
    <3>2. Bit(n + Depth, i) = Bit(n, i) /\ Bit(n + Depth, i + 1) = Bit(n, i + 1)
      BY <1>6, <3>1
    <3>3. QED
      BY <1>0, <1>8, <2>3, <3>2
  <2>4. QED
    BY <2>1, <2>2, <2>3
<1>11. Turned(Gray(n)) = Gray(n + Depth)
  BY <1>9, <1>10 DEF Turned
<1>12. Turned(Gray(n + Depth)) = Gray(n)
  <2>1. \A i \in Bits : Gray(n)[i] = IF i >= AddrBits - 1 THEN 1 - Gray(n + Depth)[i] ELSE Gray(n + Depth)[i]
    BY <1>9, <1>10
  <2>2. QED
    BY <1>9, <2>1 DEF Turned
<1>13. QED
  BY <1>11, <1>12

LEMMA Difference ==
    ASSUME NEW a \in Pointer, NEW b \in Pointer
    PROVE  /\ Minus(a, b) = IF a >= b THEN a - b ELSE a - b + 2 * Depth
           /\ Minus(a, b) \in 0 .. 2 * Depth - 1
<1>1. PICK w \in Nat \ {0} : w = 2 * Depth
  BY DepthIs
<1>2. a \in 0 .. w - 1 /\ b \in 0 .. w - 1
  BY <1>1 DEF Pointer
<1>3. (a - b) % w = IF a >= b THEN a - b ELSE a - b + w
  BY <1>2
<1>4. QED
  BY <1>1, <1>2, <1>3 DEF Minus

LEMMA Advanced ==
    ASSUME NEW a \in Pointer, NEW k \in 0 .. 2 * Depth - 1
    PROVE  Plus(a, k) = (IF a + k >= 2 * Depth THEN a + k - 2 * Depth ELSE a + k) /\ Plus(a, k) \in Pointer
<1>1. PICK w \in Nat \ {0} : w = 2 * Depth
  BY DepthIs
<1>2. a \in 0 .. w - 1 /\ k \in 0 .. w - 1
  BY <1>1 DEF Pointer
<1>3. (a + k) % w = IF a + k >= w THEN a + k - w ELSE a + k
  BY <1>2
<1>4. QED
  BY <1>1, <1>2, <1>3 DEF Plus, Pointer

LEMMA Cyclic ==
    ASSUME NEW b \in Pointer, NEW c \in Pointer
    PROVE  /\ b \in Int /\ c \in Int /\ Depth \in Int /\ 0 < Depth
           /\ 0 <= b /\ b < 2 * Depth /\ 0 <= c /\ c < 2 * Depth
BY DepthIs DEF Pointer

\* What full and empty compare (async_fifo.v 60-61).
LEMMA Tests ==
    ASSUME NEW a \in Pointer, NEW b \in Pointer
    PROVE  /\ Gray(a) = Gray(b) <=> a = b
           /\ Gray(a) = Turned(Gray(b)) <=> Minus(a, b) = Depth
<1>1. \A c, d \in Pointer : Gray(c) = Gray(d) => c = d
  <2> SUFFICES ASSUME NEW c \in Pointer, NEW d \in Pointer, Gray(c) = Gray(d) PROVE c = d
    OBVIOUS
  <2>1. FromGray(Gray(c)) = c /\ FromGray(Gray(d)) = d
    BY Decoded
  <2>2. QED
    BY <2>1
<1>2. PICK e \in Pointer : Turned(Gray(b)) = Gray(e) /\ (\A c \in Pointer : Minus(c, b) = Depth <=> c = e)
  <2>1. CASE b < Depth
    <3>1. b + Depth \in Pointer /\ b \in Nat
      BY <2>1, DepthIs DEF Pointer
    <3>2. \A c \in Pointer : Minus(c, b) = Depth <=> c = b + Depth
      <4> TAKE c \in Pointer
      <4>1. QED
        BY <2>1, Cyclic, Difference
    <3>3. QED
      BY <2>1, <3>1, <3>2, HalfTurn
  <2>2. CASE b >= Depth
    <3>1. b - Depth \in Pointer /\ b - Depth \in Nat /\ b - Depth < Depth /\ (b - Depth) + Depth = b
      BY <2>2, DepthIs DEF Pointer
    <3>2. \A c \in Pointer : Minus(c, b) = Depth <=> c = b - Depth
      <4> TAKE c \in Pointer
      <4>1. QED
        BY <2>2, Cyclic, Difference
    <3>3. Turned(Gray((b - Depth) + Depth)) = Gray(b - Depth)
      BY <3>1, HalfTurn
    <3>4. QED
      BY <3>1, <3>2, <3>3
  <2>3. QED
    BY <2>1, <2>2, DepthIs DEF Pointer
<1>3. QED
  BY <1>1, <1>2

-----------------------------------------------------------------------------
(* The values the registers of both sides can have.                        *)
FifoTypeOK ==
    /\ show_ahead \in BOOLEAN /\ rd_valid \in BOOLEAN
    /\ wr_bin \in Pointer /\ rd_bin \in Pointer /\ wr_before \in Pointer /\ rd_before \in Pointer
    /\ rd_gray_sync1 \in [Bits -> {0, 1}] /\ rd_gray_sync2 \in [Bits -> {0, 1}]
    /\ wr_gray_sync1 \in [Bits -> {0, 1}] /\ wr_gray_sync2 \in [Bits -> {0, 1}]
    /\ memory \in [0 .. Depth - 1 -> Pointer] /\ rd_data \in Pointer
    /\ clear \in BOOLEAN /\ wr_reset \in BOOLEAN /\ rd_reset \in BOOLEAN

\* Each pointer has just moved by one, or not.
OneStep ==
    /\ wr_bin \in {wr_before, Plus(wr_before, 1)}
    /\ rd_bin \in {rd_before, Plus(rd_before, 1)}

\* What the writer knows of the reader: a pointer it had, which only moved on,
\* and no more than Depth behind the writer's own.
WriterKnows(seen1, seen2) ==
    /\ rd_gray_sync1 = Gray(seen1) /\ rd_gray_sync2 = Gray(seen2)
    /\ stored <= Minus(wr_bin, rd_before) /\ Minus(wr_bin, rd_before) <= Minus(wr_bin, seen1)
    /\ Minus(wr_bin, seen1) <= Minus(wr_bin, seen2) /\ Minus(wr_bin, seen2) <= Depth

\* What the reader knows of the writer: a pointer it had, not behind the reader's own.
ReaderKnows(seen1, seen2) ==
    /\ wr_gray_sync1 = Gray(seen1) /\ wr_gray_sync2 = Gray(seen2)
    /\ Minus(seen2, rd_bin) <= Minus(seen1, rd_bin) /\ Minus(seen1, rd_bin) <= Minus(wr_before, rd_bin)
    /\ Minus(wr_before, rd_bin) <= stored

\* A side that is held in reset has an empty FIFO before it.
HeldEmpty ==
    /\ wr_reset => wr_bin = 0 /\ rd_bin = 0
    /\ rd_reset => rd_bin = 0

Crossed ==
    /\ OneStep /\ HeldEmpty
    /\ \E seen1, seen2 \in Pointer : WriterKnows(seen1, seen2)
    /\ \E seen1, seen2 \in Pointer : ReaderKnows(seen1, seen2)

FifoInv == FifoTypeOK /\ (~clear => Crossed)

-----------------------------------------------------------------------------
(* Distances between pointers.                                             *)
LEMMA Apart ==
    ASSUME NEW a \in Pointer, NEW b \in Pointer
    PROVE  /\ Minus(a, b) \in Int /\ 0 <= Minus(a, b) /\ Minus(a, b) < 2 * Depth
           /\ Minus(a, b) = 0 <=> a = b
           /\ Plus(b, Minus(a, b)) = a
<1>1. Minus(a, b) \in 0 .. 2 * Depth - 1
  BY Difference
<1>2. Minus(a, b) = 0 <=> a = b
  BY Difference, Cyclic
<1>3. Plus(b, Minus(a, b)) = a
  <2>1. PICK d \in 0 .. 2 * Depth - 1 : d = Minus(a, b) /\ d = IF a >= b THEN a - b ELSE a - b + 2 * Depth
    BY Difference
  <2>2. Plus(b, d) = IF b + d >= 2 * Depth THEN b + d - 2 * Depth ELSE b + d
    BY Advanced
  <2>3. QED
    BY <2>1, <2>2, Cyclic
<1>4. QED
  BY <1>1, <1>2, <1>3, DepthIs

LEMMA OneMore ==
    ASSUME NEW a \in Pointer, NEW b \in Pointer, Minus(a, b) <= Depth
    PROVE  Plus(a, 1) \in Pointer /\ Minus(Plus(a, 1), b) = Minus(a, b) + 1
<1>1. PICK c \in Pointer : c = Plus(a, 1) /\ c = IF a + 1 >= 2 * Depth THEN a + 1 - 2 * Depth ELSE a + 1
  BY Advanced, DepthIs
<1>2. /\ Minus(a, b) = IF a >= b THEN a - b ELSE a - b + 2 * Depth
      /\ Minus(c, b) = IF c >= b THEN c - b ELSE c - b + 2 * Depth
  BY Difference
<1>3. QED
  BY <1>1, <1>2, Cyclic, DepthIs

LEMMA OneLess ==
    ASSUME NEW a \in Pointer, NEW b \in Pointer, a # b
    PROVE  Plus(b, 1) \in Pointer /\ Minus(a, Plus(b, 1)) = Minus(a, b) - 1
<1>1. PICK c \in Pointer : c = Plus(b, 1) /\ c = IF b + 1 >= 2 * Depth THEN b + 1 - 2 * Depth ELSE b + 1
  BY Advanced, DepthIs
<1>2. /\ Minus(a, b) = IF a >= b THEN a - b ELSE a - b + 2 * Depth
      /\ Minus(a, c) = IF a >= c THEN a - c ELSE a - c + 2 * Depth
  BY Difference
<1>3. QED
  BY <1>1, <1>2, Cyclic, DepthIs

LEMMA Zero == 0 \in Pointer /\ Minus(0, 0) = 0 /\ Plus(0, 1) \in Pointer
<1>1. 0 \in Pointer
  BY DepthIs DEF Pointer
<1>2. QED
  BY <1>1, Apart, NextPointer

-----------------------------------------------------------------------------
(* The invariant.                                                          *)
LEMMA FifoStart == FifoInit => FifoInv
<1> SUFFICES ASSUME FifoInit PROVE FifoInv
  OBVIOUS
<1> USE FifoAssumption DEF FifoAssumption, FifoInit
<1>1. FifoTypeOK
  <2>1. Gray(0) \in [Bits -> {0, 1}]
    BY Coded
  <2>2. QED
    BY <2>1, Zero DEF FifoTypeOK
<1>2. OneStep /\ HeldEmpty
  BY DEF OneStep, HeldEmpty
<1>3. WriterKnows(0, 0) /\ ReaderKnows(0, 0)
  BY Zero, DepthIs DEF WriterKnows, ReaderKnows, stored
<1>4. QED
  BY <1>1, <1>2, <1>3, Zero DEF FifoInv, Crossed

LEMMA Samples ==
    ASSUME NEW old, NEW now, NEW g \in Sampled(old, now)
    PROVE  g \in [Bits -> {0, 1}]
BY DEF Sampled

LEMMA FifoTypes == FifoTypeOK /\ [FifoNext]_fifo => FifoTypeOK'
<1> SUFFICES ASSUME FifoTypeOK, [FifoNext]_fifo PROVE FifoTypeOK'
  OBVIOUS
<1> USE DEF FifoTypeOK
<1>0. Gray(0) \in [Bits -> {0, 1}] /\ 0 \in Pointer
  BY Coded, Zero
<1>1. CASE WriteClock
  <2>1. rd_gray_sync1' \in [Bits -> {0, 1}]
    BY <1>1, Samples DEF WriteClock
  <2>2. wr_bin' \in Pointer /\ memory' \in [0 .. Depth - 1 -> Pointer]
    BY <1>1, NextPointer DEF WriteClock
  <2>3. QED
    BY <1>1, <2>1, <2>2 DEF WriteClock, EitherEdge, readSide, resets
<1>2. CASE WriteResetClock
  BY <1>0, <1>2 DEF WriteResetClock, EitherEdge, readSide, resets
<1>3. ASSUME NEW rd_enable \in BOOLEAN, ReadClock(rd_enable) PROVE FifoTypeOK'
  <2>1. wr_gray_sync1' \in [Bits -> {0, 1}]
    BY <1>3, Samples DEF ReadClock
  <2>2. rd_bin % Depth \in 0 .. Depth - 1
    BY DepthIs DEF Pointer
  <2>3. rd_bin' \in Pointer /\ rd_data' \in Pointer
    BY <1>3, <2>2, NextPointer DEF ReadClock
  <2>4. rd_valid' \in BOOLEAN
    BY <1>3, Zenon DEF ReadClock, readAdvance, empty
  <2>5. QED
    BY <1>3, <2>1, <2>3, <2>4 DEF ReadClock, EitherEdge, writeSide, resets
<1>4. CASE ReadResetClock
  BY <1>0, <1>4 DEF ReadResetClock, EitherEdge, writeSide, resets
<1>5. CASE RaiseClear
  BY <1>5 DEF RaiseClear, writeSide, readSide
<1>6. CASE DropClear
  BY <1>6 DEF DropClear, writeSide, readSide
<1>7. CASE ResetFollows
  BY <1>7 DEF ResetFollows, writeSide, readSide
<1>8. CASE UNCHANGED fifo
  BY <1>8 DEF fifo, writeSide, readSide, resets
<1>9. QED
  BY <1>1, <1>2, <1>3, <1>4, <1>5, <1>6, <1>7, <1>8 DEF FifoNext, Writing, Reading, Resetting

LEMMA WriteCrosses == FifoTypeOK /\ Crossed /\ WriteClock => Crossed'
<1> SUFFICES ASSUME FifoTypeOK, Crossed, WriteClock PROVE Crossed'
  OBVIOUS
<1>1. /\ wr_bin \in Pointer /\ rd_bin \in Pointer /\ wr_before \in Pointer /\ rd_before \in Pointer
  BY DEF FifoTypeOK
<1>2. /\ wr_before' = wr_bin /\ rd_before' = rd_bin /\ rd_bin' = rd_bin
      /\ wr_gray_sync1' = wr_gray_sync1 /\ wr_gray_sync2' = wr_gray_sync2
      /\ wr_reset' = wr_reset /\ rd_reset' = rd_reset /\ ~wr_reset
      /\ rd_gray_sync2' = rd_gray_sync1
  BY DEF WriteClock, EitherEdge, readSide, resets
<1>3. PICK s1 \in Pointer, s2 \in Pointer : WriterKnows(s1, s2)
  BY DEF Crossed
<1>4. PICK t1 \in Pointer, t2 \in Pointer : ReaderKnows(t1, t2)
  BY DEF Crossed
<1>5. PICK s \in {rd_before, rd_bin} : rd_gray_sync1' = Gray(s)
  <2>1. rd_gray_sync1' \in Sampled(rd_before, rd_bin)
    BY DEF WriteClock
  <2>2. rd_bin \in {rd_before, Plus(rd_before, 1)}
    BY DEF Crossed, OneStep
  <2>3. QED
    BY <1>1, <2>1, <2>2, OldOrNew
<1>6. wr_bin' = wr_bin \/ (wr_bin' = Plus(wr_bin, 1) /\ Minus(wr_bin, s2) # Depth)
  BY <1>1, <1>3, Tests DEF WriteClock, full, WriterKnows
<1>7. OneStep' /\ HeldEmpty'
  BY <1>2, <1>6 DEF OneStep, HeldEmpty, Crossed
<1> DEFINE far(x) == Minus(wr_bin, x)
<1>8. PICK k \in {0, 1} :
         /\ wr_bin' \in Pointer
         /\ \A x \in {rd_bin, rd_before, s1, s2} : Minus(wr_bin', x) = Minus(wr_bin, x) + k
         /\ Minus(wr_bin, s2) + k <= Depth
  <2>1. \A x \in {rd_bin, rd_before, s1, s2} : x \in Pointer /\ Minus(wr_bin, x) \in Int /\ Minus(wr_bin, x) <= Depth
    BY <1>1, <1>3, Apart, DepthIs DEF WriterKnows, stored
  <2>2. CASE wr_bin' = wr_bin
    BY <1>1, <1>3, <2>1, <2>2 DEF WriterKnows
  <2>3. CASE wr_bin' = Plus(wr_bin, 1) /\ Minus(wr_bin, s2) # Depth
    <3>1. \A x \in {rd_bin, rd_before, s1, s2} : Minus(wr_bin', x) = Minus(wr_bin, x) + 1
      BY <1>1, <2>1, <2>3, OneMore
    <3>2. QED
      BY <1>1, <2>1, <2>3, <3>1, NextPointer, DepthIs
  <2>4. QED
    BY <1>6, <2>2, <2>3
<1>9. WriterKnows(s, s1)'
  <2>1. stored' = Minus(wr_bin, rd_bin) + k
    BY <1>2, <1>8 DEF stored
  <2>2. QED
    BY <1>1, <1>2, <1>3, <1>5, <1>8, <2>1, Apart, DepthIs DEF WriterKnows, stored
<1>10. ReaderKnows(t1, t2)'
  <2>1. stored' = Minus(wr_bin, rd_bin) + k
    BY <1>2, <1>8 DEF stored
  <2>2. QED
    BY <1>1, <1>2, <1>4, <2>1, Apart, DepthIs DEF ReaderKnows, stored
<1>11. QED
  BY <1>1, <1>5, <1>7, <1>9, <1>10 DEF Crossed

LEMMA ReadCrosses ==
    ASSUME NEW rd_enable \in BOOLEAN
    PROVE  FifoTypeOK /\ Crossed /\ ReadClock(rd_enable) => Crossed'
<1> SUFFICES ASSUME FifoTypeOK, Crossed, ReadClock(rd_enable) PROVE Crossed'
  OBVIOUS
<1>1. /\ wr_bin \in Pointer /\ rd_bin \in Pointer /\ wr_before \in Pointer /\ rd_before \in Pointer
  BY DEF FifoTypeOK
<1>2. /\ wr_before' = wr_bin /\ rd_before' = rd_bin /\ wr_bin' = wr_bin
      /\ rd_gray_sync1' = rd_gray_sync1 /\ rd_gray_sync2' = rd_gray_sync2
      /\ wr_reset' = wr_reset /\ rd_reset' = rd_reset /\ ~rd_reset
      /\ wr_gray_sync2' = wr_gray_sync1
  BY DEF ReadClock, EitherEdge, writeSide, resets
<1>3. PICK s1 \in Pointer, s2 \in Pointer : WriterKnows(s1, s2)
  BY DEF Crossed
<1>4. PICK t1 \in Pointer, t2 \in Pointer : ReaderKnows(t1, t2)
  BY DEF Crossed
<1>5. PICK t \in {wr_before, wr_bin} : wr_gray_sync1' = Gray(t)
  <2>1. wr_gray_sync1' \in Sampled(wr_before, wr_bin)
    BY DEF ReadClock
  <2>2. wr_bin \in {wr_before, Plus(wr_before, 1)}
    BY DEF Crossed, OneStep
  <2>3. QED
    BY <1>1, <2>1, <2>2, OldOrNew
<1>6. rd_bin' = rd_bin \/ (rd_bin' = Plus(rd_bin, 1) /\ t2 # rd_bin)
  BY <1>1, <1>4, Tests DEF ReadClock, empty, ReaderKnows
<1>7. \A x \in {t1, t2, wr_before, wr_bin} : x \in Pointer /\ Minus(x, rd_bin) \in Int /\ 0 <= Minus(x, rd_bin)
  BY <1>1, <1>4, Apart
<1>8. PICK k \in {0, 1} :
         /\ rd_bin' \in Pointer
         /\ \A x \in {t1, t2, wr_before, wr_bin} : Minus(x, rd_bin') = Minus(x, rd_bin) - k
         /\ rd_bin' = rd_bin \/ stored > 0
  <2>2. CASE rd_bin' = rd_bin
    BY <1>1, <1>7, <2>2
  <2>3. CASE rd_bin' = Plus(rd_bin, 1) /\ t2 # rd_bin
    <3>1. Minus(t2, rd_bin) > 0
      BY <1>1, <1>4, <2>3, Apart
    <3>2. \A x \in {t1, t2, wr_before, wr_bin} : Minus(x, rd_bin) > 0
      BY <1>4, <1>7, <3>1 DEF ReaderKnows, stored
    <3>3. \A x \in {t1, t2, wr_before, wr_bin} : x # rd_bin
      BY <1>1, <1>7, <3>2, Apart
    <3>4. \A x \in {t1, t2, wr_before, wr_bin} : Minus(x, rd_bin') = Minus(x, rd_bin) - 1
      BY <1>1, <1>7, <2>3, <3>3, OneLess
    <3>5. QED
      BY <1>1, <2>3, <3>2, <3>4, NextPointer DEF stored
  <2>4. QED
    BY <1>6, <2>2, <2>3
<1>9. OneStep' /\ HeldEmpty'
  <2>1. OneStep'
    BY <1>2, <1>6 DEF OneStep
  <2>2. wr_reset => rd_bin' = 0
    BY <1>8, Zero DEF Crossed, HeldEmpty, stored
  <2>3. QED
    BY <1>2, <2>1, <2>2 DEF HeldEmpty, Crossed
<1>10. WriterKnows(s1, s2)'
  <2>1. stored' = stored - k /\ stored \in Int
    BY <1>2, <1>7, <1>8 DEF stored
  <2>2. QED
    BY <1>1, <1>2, <1>3, <2>1, Apart, DepthIs DEF WriterKnows, stored
<1>11. ReaderKnows(t, t1)'
  <2>1. stored' = Minus(wr_bin, rd_bin')
    BY <1>2 DEF stored
  <2>2. QED
    BY <1>2, <1>4, <1>5, <1>7, <1>8, <2>1 DEF ReaderKnows, stored
<1>12. QED
  BY <1>1, <1>5, <1>9, <1>10, <1>11 DEF Crossed

LEMMA WriteResetCrosses == FifoTypeOK /\ Crossed /\ WriteResetClock => Crossed'
<1> SUFFICES ASSUME FifoTypeOK, Crossed, WriteResetClock PROVE Crossed'
  OBVIOUS
<1>1. /\ wr_bin = 0 /\ rd_bin = 0 /\ wr_reset
  BY DEF Crossed, HeldEmpty, WriteResetClock
<1>2. /\ wr_before' = 0 /\ rd_before' = 0 /\ rd_bin' = 0 /\ wr_bin' = 0
      /\ wr_gray_sync1' = wr_gray_sync1 /\ wr_gray_sync2' = wr_gray_sync2
      /\ wr_reset' = wr_reset /\ rd_reset' = rd_reset
      /\ rd_gray_sync1' = Gray(0) /\ rd_gray_sync2' = Gray(0)
  BY <1>1 DEF WriteResetClock, EitherEdge, readSide, resets
<1>3. PICK t1 \in Pointer, t2 \in Pointer : ReaderKnows(t1, t2)
  BY DEF Crossed
<1>4. OneStep' /\ HeldEmpty'
  BY <1>2 DEF OneStep, HeldEmpty
<1>5. WriterKnows(0, 0)'
  BY <1>2, Zero, DepthIs DEF WriterKnows, stored
<1>6. ReaderKnows(t1, t2)'
  <2>1. wr_before \in Pointer /\ Minus(wr_before, 0) \in Int /\ 0 <= Minus(wr_before, 0)
    BY Apart, Zero DEF FifoTypeOK
  <2>2. Minus(t1, 0) <= 0 /\ Minus(t2, 0) <= 0
    BY <1>1, <1>3, <2>1, Zero, Apart DEF ReaderKnows, stored
  <2>3. QED
    BY <1>1, <1>2, <1>3, <2>2, Zero DEF ReaderKnows, stored
<1>7. QED
  BY <1>4, <1>5, <1>6, Zero DEF Crossed

LEMMA ReadResetCrosses == FifoTypeOK /\ Crossed /\ ReadResetClock => Crossed'
<1> SUFFICES ASSUME FifoTypeOK, Crossed, ReadResetClock PROVE Crossed'
  OBVIOUS
<1>1. /\ rd_bin = 0 /\ rd_reset /\ wr_bin \in Pointer
  BY DEF Crossed, HeldEmpty, ReadResetClock, FifoTypeOK
<1>2. /\ wr_before' = wr_bin /\ rd_before' = 0 /\ rd_bin' = 0 /\ wr_bin' = wr_bin
      /\ rd_gray_sync1' = rd_gray_sync1 /\ rd_gray_sync2' = rd_gray_sync2
      /\ wr_reset' = wr_reset /\ rd_reset' = rd_reset
      /\ wr_gray_sync1' = Gray(0) /\ wr_gray_sync2' = Gray(0)
  BY <1>1 DEF ReadResetClock, EitherEdge, writeSide, resets
<1>3. PICK s1 \in Pointer, s2 \in Pointer : WriterKnows(s1, s2)
  BY DEF Crossed
<1>4. OneStep' /\ HeldEmpty'
  BY <1>1, <1>2 DEF OneStep, HeldEmpty, Crossed
<1>5. /\ Minus(wr_bin, 0) \in Int /\ 0 <= Minus(wr_bin, 0)
      /\ rd_before \in Pointer /\ Minus(wr_bin, rd_before) \in Int
      /\ Minus(wr_bin, s1) \in Int /\ Minus(wr_bin, s2) \in Int
  BY <1>1, Zero, Apart DEF FifoTypeOK
<1>6. WriterKnows(s1, s2)'
  BY <1>1, <1>2, <1>3, <1>5, DepthIs DEF WriterKnows, stored
<1>7. ReaderKnows(0, 0)'
  BY <1>1, <1>2, <1>5, Zero DEF ReaderKnows, stored
<1>8. QED
  BY <1>4, <1>6, <1>7, Zero DEF Crossed

LEMMA Opens == FifoTypeOK /\ settled /\ UNCHANGED <<writeSide, readSide, wr_before, rd_before, wr_reset, rd_reset>> => Crossed'
<1> SUFFICES ASSUME settled, UNCHANGED <<writeSide, readSide, wr_before, rd_before, wr_reset, rd_reset>> PROVE Crossed'
  OBVIOUS
<1>1. /\ wr_bin' = 0 /\ rd_bin' = 0 /\ wr_before' = 0 /\ rd_before' = 0
      /\ rd_gray_sync1' = Gray(0) /\ rd_gray_sync2' = Gray(0)
      /\ wr_gray_sync1' = Gray(0) /\ wr_gray_sync2' = Gray(0)
  BY DEF settled, writeSide, readSide
<1>2. OneStep' /\ HeldEmpty'
  BY <1>1 DEF OneStep, HeldEmpty
<1>3. WriterKnows(0, 0)' /\ ReaderKnows(0, 0)'
  BY <1>1, Zero, DepthIs DEF WriterKnows, ReaderKnows, stored
<1>4. QED
  BY <1>2, <1>3, Zero DEF Crossed

LEMMA Idles ==
    /\ Crossed /\ UNCHANGED <<writeSide, readSide, wr_before, rd_before>>
    /\ (wr_reset' => wr_reset) /\ (rd_reset' => rd_reset)
    => Crossed'
<1> SUFFICES ASSUME Crossed, UNCHANGED <<writeSide, readSide, wr_before, rd_before>>,
                    wr_reset' => wr_reset, rd_reset' => rd_reset
             PROVE  Crossed'
  OBVIOUS
<1>1. UNCHANGED <<wr_bin, rd_bin, wr_before, rd_before, rd_gray_sync1, rd_gray_sync2, wr_gray_sync1, wr_gray_sync2>>
  BY DEF writeSide, readSide
<1>2. OneStep' /\ HeldEmpty'
  BY <1>1 DEF Crossed, OneStep, HeldEmpty
<1>3. \A s1, s2 \in Pointer : WriterKnows(s1, s2) => WriterKnows(s1, s2)'
  BY <1>1 DEF WriterKnows, stored
<1>4. \A t1, t2 \in Pointer : ReaderKnows(t1, t2) => ReaderKnows(t1, t2)'
  BY <1>1 DEF ReaderKnows, stored
<1>5. QED
  BY <1>2, <1>3, <1>4 DEF Crossed

LEMMA FifoStep == FifoInv /\ [FifoNext]_fifo => FifoInv'
<1> SUFFICES ASSUME FifoInv, [FifoNext]_fifo, ~clear' PROVE Crossed'
  BY FifoTypes DEF FifoInv
<1>1. FifoTypeOK /\ (~clear => Crossed)
  BY DEF FifoInv
<1>2. CASE WriteClock
  BY <1>1, <1>2, WriteCrosses DEF WriteClock, resets
<1>3. CASE WriteResetClock
  BY <1>1, <1>3, WriteResetCrosses DEF WriteResetClock, resets
<1>4. ASSUME NEW rd_enable \in BOOLEAN, ReadClock(rd_enable) PROVE Crossed'
  BY <1>1, <1>4, ReadCrosses DEF ReadClock, resets
<1>5. CASE ReadResetClock
  BY <1>1, <1>5, ReadResetCrosses DEF ReadResetClock, resets
<1>6. CASE RaiseClear
  BY <1>6 DEF RaiseClear
<1>7. CASE DropClear
  BY <1>1, <1>7, Opens DEF DropClear
<1>8. CASE ResetFollows
  <2>1. ~clear /\ UNCHANGED <<writeSide, readSide, wr_before, rd_before>>
    BY <1>8 DEF ResetFollows
  <2>2. (wr_reset' => wr_reset) /\ (rd_reset' => rd_reset)
    BY <1>8, <2>1 DEF ResetFollows
  <2>3. QED
    BY <1>1, <2>1, <2>2, Idles
<1>9. CASE UNCHANGED fifo
  BY <1>1, <1>9, Idles DEF fifo, resets
<1>10. QED
  BY <1>2, <1>3, <1>4, <1>5, <1>6, <1>7, <1>8, <1>9 DEF FifoNext, Writing, Reading, Resetting

(* What each domain knows of the other is a pointer the other one had, and  *)
(* the two agree on the order of all of them (async_fifo.v 67-118), through *)
(* clears and resets that reach the sides at different times.              *)
THEOREM FifoInvariance == FifoSpec => []FifoInv
BY FifoStart, FifoStep, PTL DEF FifoSpec

LEMMA LevelsFollow == FifoInv => LevelsSafe
<1> SUFFICES ASSUME FifoTypeOK, Crossed PROVE
        /\ stored <= wr_level /\ wr_level <= Depth
        /\ rd_level <= stored + (IF show_ahead /\ rd_valid THEN 1 ELSE 0)
  BY DEF FifoInv, LevelsSafe
<1>1. PICK s1 \in Pointer, s2 \in Pointer : WriterKnows(s1, s2)
  BY DEF Crossed
<1>2. PICK t1 \in Pointer, t2 \in Pointer : ReaderKnows(t1, t2)
  BY DEF Crossed
<1>3. /\ wr_bin \in Pointer /\ rd_bin \in Pointer /\ wr_before \in Pointer /\ rd_before \in Pointer
  BY DEF FifoTypeOK
<1>4. wr_level = Minus(wr_bin, s2)
  BY <1>1, Decoded DEF wr_level, rd_bin_in_wr_domain, WriterKnows
<1>5. /\ Minus(wr_bin, rd_bin) \in Int /\ Minus(wr_bin, rd_before) \in Int
      /\ Minus(wr_bin, s1) \in Int /\ Minus(wr_bin, s2) \in Int
      /\ Minus(t2, rd_bin) \in Int /\ Minus(t1, rd_bin) \in Int /\ Minus(wr_before, rd_bin) \in Int
      /\ 0 <= Minus(t2, rd_bin)
  BY <1>3, Apart
<1>6. stored <= wr_level /\ wr_level <= Depth
  BY <1>1, <1>4, <1>5, DepthIs DEF WriterKnows, stored
<1>7. PICK d \in Int : d = Minus(t2, rd_bin) /\ 0 <= d /\ d <= stored /\ d <= Depth
  BY <1>1, <1>2, <1>5, DepthIs DEF ReaderKnows, WriterKnows, stored
<1>8. wr_bin_in_rd_domain = t2
  BY <1>2, Decoded DEF wr_bin_in_rd_domain, ReaderKnows
<1>9. ASSUME NEW e \in {0, 1} PROVE Plus(d, e) = d + e
  <2>1. d \in Pointer /\ e \in 0 .. 2 * Depth - 1 /\ d + e < 2 * Depth
    BY <1>7, DepthIs DEF Pointer
  <2>2. QED
    BY <2>1, Advanced, DepthIs
<1>10. QED
  BY <1>5, <1>6, <1>7, <1>8, <1>9 DEF rd_level, stored

(* async_fifo.v 58-61: neither side ever believes in more room or in more   *)
(* words than there are, for any size and any two clocks.                   *)
THEOREM LevelsHonest == FifoSpec => []LevelsSafe
BY FifoInvariance, LevelsFollow, PTL

-----------------------------------------------------------------------------
(* The words stored, as the sequence they make.                            *)
LEMMA SlotIs ==
    ASSUME NEW a \in Pointer
    PROVE  a % Depth = (IF a >= Depth THEN a - Depth ELSE a) /\ a % Depth \in 0 .. Depth - 1
<1>1. PICK w \in Nat \ {0} : w = Depth
  BY DepthIs
<1>2. a \in 0 .. 2 * w - 1
  BY <1>1 DEF Pointer
<1>3. a % w = IF a >= w THEN a - w ELSE a
  BY <1>2
<1>4. QED
  BY <1>1, <1>2, <1>3

\* The place the writer fills is none of those stored.
LEMMA OtherSlots ==
    ASSUME NEW a \in Pointer, NEW b \in Pointer, Minus(a, b) < Depth, NEW k \in 0 .. Minus(a, b) - 1
    PROVE  Plus(b, k) \in Pointer /\ Plus(b, k) % Depth # a % Depth
<1>1. PICK d \in 0 .. 2 * Depth - 1 : d = Minus(a, b) /\ d = IF a >= b THEN a - b ELSE a - b + 2 * Depth
  BY Difference
<1>2. k \in 0 .. 2 * Depth - 1 /\ k < d /\ d < Depth
  BY <1>1, DepthIs
<1>3. PICK c \in Pointer : c = Plus(b, k) /\ c = IF b + k >= 2 * Depth THEN b + k - 2 * Depth ELSE b + k
  BY <1>2, Advanced
<1>4. /\ a % Depth = IF a >= Depth THEN a - Depth ELSE a
      /\ c % Depth = IF c >= Depth THEN c - Depth ELSE c
  BY SlotIs
<1>5. QED
  BY <1>1, <1>2, <1>3, <1>4, Cyclic

LEMMA NextPlace ==
    ASSUME NEW b \in Pointer, NEW k \in 0 .. Depth
    PROVE  Plus(Plus(b, 1), k) = Plus(b, k + 1) /\ Plus(b, 0) = b
<1>1. 1 \in 0 .. 2 * Depth - 1 /\ k \in 0 .. 2 * Depth - 1 /\ k + 1 \in 0 .. 2 * Depth - 1 /\ 0 \in 0 .. 2 * Depth - 1
  BY DepthIs
<1>2. PICK c \in Pointer : c = Plus(b, 1) /\ c = IF b + 1 >= 2 * Depth THEN b + 1 - 2 * Depth ELSE b + 1
  BY <1>1, Advanced
<1>3. Plus(c, k) = IF c + k >= 2 * Depth THEN c + k - 2 * Depth ELSE c + k
  BY <1>1, Advanced
<1>4. Plus(b, k + 1) = IF b + (k + 1) >= 2 * Depth THEN b + (k + 1) - 2 * Depth ELSE b + (k + 1)
  BY <1>1, Advanced
<1>5. Plus(b, 0) = IF b + 0 >= 2 * Depth THEN b + 0 - 2 * Depth ELSE b + 0
  BY <1>1, Advanced
<1>6. QED
  BY <1>1, <1>2, <1>3, <1>4, <1>5, Cyclic

LEMMA StoredIs ==
    FifoInv /\ ~clear => stored \in Nat /\ stored <= Depth
<1> SUFFICES ASSUME FifoTypeOK, Crossed PROVE stored \in Nat /\ stored <= Depth
  BY DEF FifoInv
<1>1. PICK s1 \in Pointer, s2 \in Pointer : WriterKnows(s1, s2)
  BY DEF Crossed
<1>2. wr_bin \in Pointer /\ rd_bin \in Pointer /\ rd_before \in Pointer
  BY DEF FifoTypeOK
<1>3. stored \in Int /\ 0 <= stored /\ Minus(wr_bin, rd_before) \in Int /\ Minus(wr_bin, s1) \in Int /\ Minus(wr_bin, s2) \in Int
  BY <1>2, Apart DEF stored
<1>4. QED
  BY <1>1, <1>3, DepthIs DEF WriterKnows

\* A word is written where none is stored, behind the others.
LEMMA WritePushes ==
    FifoInv /\ ~clear /\ WriteClock => Fifo!Push \/ UNCHANGED <<~clear, contents, rd_data>>
<1> SUFFICES ASSUME FifoInv, ~clear, WriteClock PROVE Fifo!Push \/ UNCHANGED <<~clear, contents, rd_data>>
  OBVIOUS
<1>1. /\ clear' = clear /\ rd_bin' = rd_bin /\ rd_data' = rd_data
      /\ wr_bin \in Pointer /\ rd_bin \in Pointer /\ memory \in [0 .. Depth - 1 -> Pointer]
  BY DEF WriteClock, resets, readSide, FifoInv, FifoTypeOK
<1>2. CASE UNCHANGED <<wr_bin, memory>>
  BY <1>1, <1>2 DEF contents, stored
<1>3. CASE /\ ~full /\ memory' = [memory EXCEPT ![wr_bin % Depth] = wr_bin]
           /\ wr_bin' = Plus(wr_bin, 1)
  <2>1. stored \in Nat /\ stored < Depth
    <3>1. PICK s1 \in Pointer, s2 \in Pointer : WriterKnows(s1, s2)
      BY DEF Crossed, FifoInv
    <3>2. Minus(wr_bin, s2) # Depth
      BY <1>1, <1>3, <3>1, Tests DEF full, WriterKnows
    <3>3. /\ rd_before \in Pointer /\ Minus(wr_bin, rd_before) \in Int
          /\ Minus(wr_bin, s1) \in Int /\ Minus(wr_bin, s2) \in Int
      BY <1>1, Apart DEF FifoInv, FifoTypeOK
    <3>4. QED
      BY <3>1, <3>2, <3>3, StoredIs, DepthIs DEF WriterKnows
  <2>2. stored' = stored + 1
    <3>1. Minus(wr_bin, rd_bin) <= Depth
      BY <2>1, DepthIs DEF stored
    <3>2. Minus(Plus(wr_bin, 1), rd_bin) = Minus(wr_bin, rd_bin) + 1
      BY <1>1, <3>1, OneMore
    <3>3. QED
      BY <1>1, <1>3, <3>2 DEF stored
  <2>3. PICK n \in Nat : n = stored /\ n < Depth
    BY <2>1
  <2>4. contents = [i \in 1 .. n |-> memory[Plus(rd_bin, i - 1) % Depth]]
    BY <2>3 DEF contents
  <2>5. contents' = [i \in 1 .. n + 1 |-> memory'[Plus(rd_bin, i - 1) % Depth]]
    BY <1>1, <2>2, <2>3 DEF contents
  <2>6. ASSUME NEW i \in 1 .. n PROVE memory'[Plus(rd_bin, i - 1) % Depth] = memory[Plus(rd_bin, i - 1) % Depth]
    <3>1. i - 1 \in 0 .. Minus(wr_bin, rd_bin) - 1 /\ Minus(wr_bin, rd_bin) < Depth
      BY <2>3 DEF stored
    <3>2. Plus(rd_bin, i - 1) \in Pointer /\ Plus(rd_bin, i - 1) % Depth # wr_bin % Depth
      BY <1>1, <3>1, OtherSlots
    <3>3. Plus(rd_bin, i - 1) % Depth \in 0 .. Depth - 1
      BY <3>2, SlotIs
    <3>4. QED
      BY <1>1, <1>3, <3>2, <3>3
  <2>7. memory'[Plus(rd_bin, (n + 1) - 1) % Depth] = wr_bin
    <3>1. Plus(rd_bin, (n + 1) - 1) = wr_bin
      BY <1>1, <2>3, Apart DEF stored
    <3>2. QED
      BY <1>1, <1>3, <3>1, SlotIs
  <2>8. contents \in Seq(Payloads) /\ Len(contents) = n
    <3>1. \A i \in 1 .. n : memory[Plus(rd_bin, i - 1) % Depth] \in Payloads
      <4> TAKE i \in 1 .. n
      <4>1. i - 1 \in 0 .. Minus(wr_bin, rd_bin) - 1 /\ Minus(wr_bin, rd_bin) < Depth
        BY <2>3 DEF stored
      <4>2. Plus(rd_bin, i - 1) % Depth \in 0 .. Depth - 1
        BY <1>1, <4>1, OtherSlots, SlotIs
      <4>3. QED
        BY <1>1, <4>2 DEF Payloads
    <3>2. QED
      BY <2>4, <3>1
  <2>9. contents' = Append(contents, wr_bin)
    BY <2>4, <2>5, <2>6, <2>7, <2>8
  <2>10. QED
    BY <1>1, <2>3, <2>8, <2>9 DEF Fifo!Push, Payloads
<1>4. QED
  BY <1>2, <1>3 DEF WriteClock

\* What is read is the word stored first.
LEMMA ReadPops ==
    ASSUME NEW rd_enable \in BOOLEAN
    PROVE  FifoInv /\ ~clear /\ ReadClock(rd_enable) => Fifo!Pop \/ UNCHANGED <<~clear, contents, rd_data>>
<1> SUFFICES ASSUME FifoInv, ~clear, ReadClock(rd_enable) PROVE Fifo!Pop \/ UNCHANGED <<~clear, contents, rd_data>>
  OBVIOUS
<1>1. /\ clear' = clear /\ wr_bin' = wr_bin /\ memory' = memory
      /\ wr_bin \in Pointer /\ rd_bin \in Pointer /\ memory \in [0 .. Depth - 1 -> Pointer]
  BY DEF ReadClock, resets, writeSide, FifoInv, FifoTypeOK
<1>2. CASE UNCHANGED <<rd_data, rd_bin>>
  BY <1>1, <1>2 DEF contents, stored
<1>3. CASE ~empty /\ rd_data' = memory[rd_bin % Depth] /\ rd_bin' = Plus(rd_bin, 1)
  <2>1. PICK n \in Nat : n = stored /\ n <= Depth /\ n > 0 /\ wr_bin # rd_bin
    <3>1. PICK t1 \in Pointer, t2 \in Pointer : ReaderKnows(t1, t2)
      BY DEF Crossed, FifoInv
    <3>2. t2 # rd_bin
      BY <1>1, <1>3, <3>1, Tests DEF empty, ReaderKnows
    <3>3. /\ wr_before \in Pointer /\ Minus(wr_before, rd_bin) \in Int
          /\ Minus(t1, rd_bin) \in Int /\ Minus(t2, rd_bin) \in Int /\ Minus(t2, rd_bin) > 0
      <4>1. wr_before \in Pointer
        BY DEF FifoInv, FifoTypeOK
      <4>2. Minus(t2, rd_bin) \in Int /\ 0 <= Minus(t2, rd_bin) /\ Minus(t2, rd_bin) # 0
        BY <1>1, <3>2, Apart
      <4>3. Minus(wr_before, rd_bin) \in Int /\ Minus(t1, rd_bin) \in Int
        BY <1>1, <4>1, Apart
      <4>4. QED
        BY <4>1, <4>2, <4>3
    <3>4. stored \in Nat /\ stored <= Depth /\ stored > 0
      BY <3>1, <3>3, StoredIs DEF ReaderKnows
    <3>5. QED
      BY <1>1, <3>4, Apart DEF stored
  <2>2. stored' = n - 1
    BY <1>1, <1>3, <2>1, OneLess DEF stored
  <2>3. contents = [i \in 1 .. n |-> memory[Plus(rd_bin, i - 1) % Depth]]
    BY <2>1 DEF contents
  <2>4. contents' = [i \in 1 .. n - 1 |-> memory[Plus(Plus(rd_bin, 1), i - 1) % Depth]]
    BY <1>1, <1>3, <2>2 DEF contents
  <2>5. \A i \in 1 .. n - 1 : Plus(Plus(rd_bin, 1), i - 1) = Plus(rd_bin, (i + 1) - 1)
    <3> TAKE i \in 1 .. n - 1
    <3>1. i - 1 \in 0 .. Depth /\ (i - 1) + 1 = (i + 1) - 1
      BY <2>1, DepthIs
    <3>2. QED
      BY <1>1, <3>1, NextPlace
  <2>6. contents \in Seq(Payloads) /\ Len(contents) = n
    <3>1. \A i \in 1 .. n : memory[Plus(rd_bin, i - 1) % Depth] \in Payloads
      <4> TAKE i \in 1 .. n
      <4>1. i - 1 \in 0 .. 2 * Depth - 1
        BY <2>1, DepthIs
      <4>2. Plus(rd_bin, i - 1) % Depth \in 0 .. Depth - 1
        BY <1>1, <4>1, Advanced, SlotIs
      <4>3. QED
        BY <1>1, <4>2 DEF Payloads
    <3>2. QED
      BY <2>3, <3>1
  <2>7. Tail(contents) = contents'
    BY <2>1, <2>3, <2>4, <2>5, <2>6
  <2>8. Head(contents) = rd_data'
    <3>1. Plus(rd_bin, 1 - 1) = rd_bin
      BY <1>1, NextPlace, DepthIs
    <3>2. QED
      BY <1>3, <2>1, <2>3, <3>1
  <2>9. QED
    BY <1>1, <2>1, <2>6, <2>7, <2>8 DEF Fifo!Pop
<1>4. QED
  BY <1>2, <1>3 DEF ReadClock

LEMMA StepRefines == FifoInv /\ [FifoNext]_fifo => [Fifo!Next]_<<~clear, contents, rd_data>>
<1> SUFFICES ASSUME FifoInv, [FifoNext]_fifo PROVE Fifo!Next \/ UNCHANGED <<~clear, contents, rd_data>>
  OBVIOUS
<1>1. rd_data' \in Payloads
  BY FifoTypes DEF FifoInv, FifoTypeOK, Payloads
<1>2. CASE clear /\ clear'
  BY <1>1, <1>2 DEF contents, Fifo!Next, Fifo!Garbage
<1>3. CASE RaiseClear
  BY <1>3 DEF RaiseClear, contents, readSide, Fifo!Next, Fifo!Close
<1>4. CASE DropClear
  <2>1. clear /\ ~clear' /\ rd_data' = rd_data /\ wr_bin' = 0 /\ rd_bin' = 0
    BY <1>4 DEF DropClear, settled, readSide, writeSide
  <2>2. contents = <<>> /\ contents' = <<>>
    BY <2>1, Zero DEF contents, stored
  <2>3. QED
    BY <2>1, <2>2 DEF Fifo!Next, Fifo!Open
<1>5. CASE ~clear /\ ~clear'
  <2>1. CASE WriteClock
    BY <1>5, <2>1, WritePushes DEF Fifo!Next
  <2>2. CASE WriteResetClock
    <3>1. wr_bin = 0 /\ wr_bin' = 0 /\ UNCHANGED <<memory, rd_bin, rd_data>>
      BY <1>5, <2>2 DEF WriteResetClock, readSide, FifoInv, Crossed, HeldEmpty
    <3>2. QED
      BY <1>5, <3>1 DEF contents, stored
  <2>3. ASSUME NEW rd_enable \in BOOLEAN, ReadClock(rd_enable) PROVE Fifo!Next \/ UNCHANGED <<~clear, contents, rd_data>>
    BY <1>5, <2>3, ReadPops DEF Fifo!Next
  <2>4. CASE ReadResetClock
    <3>1. rd_bin = 0 /\ rd_bin' = 0 /\ UNCHANGED <<memory, wr_bin, rd_data>>
      BY <1>5, <2>4 DEF ReadResetClock, writeSide, FifoInv, Crossed, HeldEmpty
    <3>2. QED
      BY <1>5, <3>1 DEF contents, stored
  <2>5. CASE ResetFollows \/ UNCHANGED fifo
    <3>1. UNCHANGED <<memory, wr_bin, rd_bin, rd_data>>
      BY <2>5 DEF ResetFollows, fifo, writeSide, readSide
    <3>2. QED
      BY <1>5, <3>1 DEF contents, stored
  <2>6. QED
    BY <1>5, <2>1, <2>2, <2>3, <2>4, <2>5 DEF FifoNext, Writing, Reading, Resetting, RaiseClear, DropClear
<1>6. clear' = clear \/ RaiseClear \/ DropClear
  BY DEF FifoNext, Writing, Reading, Resetting, WriteClock, WriteResetClock, ReadClock, ReadResetClock,
         ResetFollows, fifo, resets
<1>7. QED
  BY <1>2, <1>3, <1>4, <1>5, <1>6 DEF FifoInv, FifoTypeOK

(* async_fifo.v 3-5: every step of the two clocks is one of a FIFO that     *)
(* hands out its words in order, each once, and never holds more than       *)
(* Depth of them; a clear empties it.                                       *)
THEOREM WordsCross == FifoSpec => ImplementsFifo
<1>1. FifoInit => Fifo!Init
  BY Zero DEF FifoInit, Fifo!Init, contents, stored, Payloads
<1>2. QED
  BY <1>1, FifoInvariance, StepRefines, PTL DEF FifoSpec, ImplementsFifo, Fifo!Spec
=============================================================================
