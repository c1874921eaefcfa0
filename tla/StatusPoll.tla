----------------------------- MODULE StatusPoll ------------------------------
(***************************************************************************)
(* The server's poll of a 64-bit FPGA statistic (poll_fpga, host/src/      *)
(* serve.cpp 213-231) over the control port, which reads one word at a     *)
(* time of the copy that Snapshot keeps: high, low, high again, and low    *)
(* again if the high word moved.  The copy is renewed between the reads.   *)
(***************************************************************************)
EXTENDS Snapshot

CONSTANTS Half          \* values of a word (2^32)

ASSUME PollAssumption == Half \in Nat \ {0} /\ Parts # {}

VARIABLES
    poll,               \* the next read, and the words read
    from                \* ghost: the statistic's copy when the poll began

polling == <<snapshot, poll, from>>

Copy == value[CHOOSE p \in Parts : TRUE]
HighWord == Copy \div Half
LowWord == Copy % Half

PollInit == SnapshotInit /\ poll = [next |-> "high", first |-> 0, low |-> 0, high |-> 0] /\ from = 0

ReadHigh ==
    /\ poll.next = "high"
    /\ poll' = [poll EXCEPT !.next = "low", !.first = HighWord]
    /\ from' = Copy
    /\ UNCHANGED snapshot
ReadLow ==
    /\ poll.next = "low"
    /\ poll' = [poll EXCEPT !.next = "high again", !.low = LowWord]
    /\ UNCHANGED <<snapshot, from>>
NeverMoved == FALSE     \* mutant: the low word is not read again
Moved == HighWord # poll.first
ReadHighAgain ==
    /\ poll.next = "high again"
    /\ poll' = [poll EXCEPT !.next = IF Moved THEN "low again" ELSE "publish", !.high = HighWord]
    /\ UNCHANGED <<snapshot, from>>
ReadLowAgain ==
    /\ poll.next = "low again"
    /\ poll' = [poll EXCEPT !.next = "publish", !.low = LowWord]
    /\ UNCHANGED <<snapshot, from>>
Publish ==
    /\ poll.next = "publish"
    /\ poll' = [poll EXCEPT !.next = "high"]
    /\ UNCHANGED <<snapshot, from>>

PollNext ==
    \/ SnapshotNext /\ UNCHANGED <<poll, from>>
    \/ ReadHigh \/ ReadLow \/ ReadHighAgain \/ ReadLowAgain \/ Publish
PollSpec == PollInit /\ [][PollNext]_polling

-----------------------------------------------------------------------------
(* What is published lies between the copy at the first read and the one   *)
(* at the end, whenever the copies change, as long as the high word moves  *)
(* once at most in the time of a poll (a second word takes minutes).       *)
PollSound ==
    poll.next = "publish" /\ HighWord <= from \div Half + 1 =>
        LET published == poll.high * Half + poll.low IN from <= published /\ published <= Copy

(* A statistic is reported as it was, from the counter to the page.        *)
CopiesSound == NeverTorn /\ Fresh /\ PollSound
=============================================================================
