---------------------------- MODULE ClockedFifo ----------------------------
(***************************************************************************)
(* What the dual-clock FIFO promises while neither side is being reset:    *)
(* words leave in the order they were accepted, each once, and no more     *)
(* than Depth of them are stored.  Nothing is promised of the words read   *)
(* while the FIFO is closed.                                               *)
(***************************************************************************)
EXTENDS Naturals, Sequences

CONSTANTS Words, Depth

VARIABLES open, queue, word     \* serving; the words stored; the word presented

Init == open = TRUE /\ queue = <<>> /\ word \in Words

Push == /\ open /\ Len(queue) < Depth
        /\ \E w \in Words : queue' = Append(queue, w)
        /\ UNCHANGED <<open, word>>

Pop == /\ open /\ queue # <<>>
       /\ word' = Head(queue) /\ queue' = Tail(queue)
       /\ UNCHANGED open

Close == open /\ open' = FALSE /\ queue' = <<>> /\ UNCHANGED word
Garbage == ~open /\ word' \in Words /\ UNCHANGED <<open, queue>>
Open == ~open /\ open' = TRUE /\ UNCHANGED <<queue, word>>

Next == Push \/ Pop \/ Close \/ Garbage \/ Open
Spec == Init /\ [][Next]_<<open, queue, word>>
=============================================================================
