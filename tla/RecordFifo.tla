----------------------------- MODULE RecordFifo -----------------------------
(***************************************************************************)
(* What the 256 MiB DDR3 ring promises to the two sides of it, without the *)
(* memory controller, its handshakes or any pointer: a bounded FIFO of     *)
(* beats whose readable part is always a whole number of records.          *)
(*                                                                         *)
(* Beats carry numbers modulo Wrap.  `open' counts the beats at the tail   *)
(* of the queue that belong to a record whose end has not arrived; `whole' *)
(* counts the beats at its head that may be delivered.                     *)
(***************************************************************************)
EXTENDS Integers, Sequences

CONSTANTS Size,     \* beats the ring can hold
          Wrap,     \* beats are numbered modulo Wrap
          Reserve,  \* beats of the longest record
          NoBeat    \* nothing delivered yet

VARIABLES queue, open, whole, out

fifo == <<queue, open, whole, out>>

Init == queue = <<>> /\ open = 0 /\ whole = 0 /\ out = NoBeat

(* The oldest beat leaves, if `delivered', and only out of whole records.  *)
Deliver(delivered) ==
    /\ delivered => whole > 0
    /\ out' = IF delivered THEN Head(queue) ELSE out

Rest(delivered) == IF delivered THEN Tail(queue) ELSE queue
Gone(delivered) == IF delivered THEN 1 ELSE 0

(* A beat is appended: it extends the incomplete record, ends it (0), or   *)
(* ends it and starts another one (1).                                     *)
Accept ==
    /\ Len(queue) < Size
    /\ open' \in {0, 1, open + 1} \cap (0 .. Reserve - 1)
    /\ \E delivered \in BOOLEAN :
          /\ whole' = whole - Gone(delivered)
          /\ Deliver(delivered)
          /\ queue' \in {Append(Rest(delivered), number) : number \in 0 .. Wrap - 1}

(* The readable part grows, never past the last complete record.           *)
Release ==
    /\ UNCHANGED open
    /\ \E delivered \in BOOLEAN :
          /\ whole' + Gone(delivered) \in whole .. Len(queue) - open
          /\ Deliver(delivered)
          /\ queue' = Rest(delivered)

(* A new stream: everything held is discarded.                             *)
Clear == queue' = <<>> /\ open' = 0 /\ whole' = 0 /\ out' = NoBeat

Next == Accept \/ Release \/ Clear

Spec == Init /\ [][Next]_fifo
=============================================================================
