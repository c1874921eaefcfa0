---------------------------- MODULE RecordOrder ----------------------------
(***************************************************************************)
(* What the host's decoder promises (host/src/decoder.h): jobs are written *)
(* in the order they were submitted, one at a time, and the first job that *)
(* is not acceptable ends the output for good, nothing after it being      *)
(* written or submitted.                                                   *)
(***************************************************************************)
EXTENDS Naturals, Sequences

VARIABLES submitted,    \* the jobs submitted so far
          written,      \* how many of them are in the output
          failed        \* an error is pending for the caller

order == <<submitted, written, failed>>

\* A job follows the ones before it: its own checks pass, it does not go back
\* in sample time, and an END record was computed over exactly those jobs.
Acceptable(n) ==
    LET job == submitted[n] IN
    /\ job.sound
    /\ job.first >= (IF n = 1 THEN 0 ELSE submitted[n - 1].last)
    /\ job.end => job.crc = [i \in 1 .. n |-> i]

Init == submitted = <<>> /\ written = 0 /\ failed = FALSE

Submit == /\ ~failed
          /\ Len(submitted') = Len(submitted) + 1
          /\ SubSeq(submitted', 1, Len(submitted)) = submitted
          /\ UNCHANGED <<written, failed>>

Write == /\ ~failed /\ written < Len(submitted)
         /\ Acceptable(written + 1)
         /\ written' = written + 1
         /\ UNCHANGED <<submitted, failed>>

\* An unacceptable job, or an output that cannot be written.
Fail == /\ ~failed /\ written < Len(submitted)
        /\ failed' = TRUE
        /\ UNCHANGED <<submitted, written>>

Next == Submit \/ Write \/ Fail

Spec == Init /\ [][Next]_order
=============================================================================
