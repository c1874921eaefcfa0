---------------------------- MODULE SampleStream ----------------------------
(***************************************************************************)
(* What the FPGA promises the host about the samples of one run, without   *)
(* banks, stages or bytes: records of consecutive samples, each with its   *)
(* place in the run's sample time, every delivered sample in exactly one   *)
(* record, in order, and at the end one total that also counts the samples *)
(* known to be lost.                                                       *)
(***************************************************************************)
EXTENDS Integers, Sequences

CONSTANTS BlockSize,    \* samples of the longest record
          Gaps,         \* lengths of the gaps samples can be lost in
          NoRecord      \* nothing written yet

VARIABLES position,     \* sample time: samples delivered and lost so far
          pending,      \* places of the samples delivered and not yet in a record
          record,       \* the record written last
          total         \* the END record, NoRecord before it

stream == <<position, pending, record, total>>

Init == position = 0 /\ pending = <<>> /\ record = NoRecord /\ total = NoRecord

(* A sample arrives behind those that stay pending, or a gap, or nothing.  *)
Arrival(staying) ==
    \/ position' = position + 1 /\ pending' = Append(staying, position)
    \/ \E n \in Gaps : position' = position + n /\ pending' = staying
    \/ position' = position /\ pending' = staying

Arrive == Arrival(pending) /\ UNCHANGED <<record, total>>

(* The first n pending samples, which follow each other, leave as a record.*)
WriteRecord ==
    \E n \in 1 .. BlockSize :
        /\ n <= Len(pending)
        /\ \A i \in 1 .. n : pending[i] = pending[1] + i - 1
        /\ record' = [index |-> pending[1], pairs |-> SubSeq(pending, 1, n)]
        /\ Arrival(SubSeq(pending, n + 1, Len(pending)))
        /\ UNCHANGED total

(* The run ends with nothing pending.                                      *)
End == pending = <<>> /\ total' = position /\ UNCHANGED <<position, pending, record>>

(* A new run.                                                              *)
Clear == position' = 0 /\ pending' = <<>> /\ record' = NoRecord /\ total' = NoRecord

Next == (total = NoRecord /\ (Arrive \/ WriteRecord \/ End)) \/ Clear

Spec == Init /\ [][Next]_stream
=============================================================================
