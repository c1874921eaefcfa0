--------------------------- MODULE StreamDecoder ---------------------------
(***************************************************************************)
(* The host's parallel, order-preserving decoder (host/src/decoder.cpp).   *)
(* The caller cuts the record stream into jobs, worker threads decode them *)
(* in any order, and the writer thread takes the results in the order of   *)
(* submission, checks them against each other and writes them.  One mutex  *)
(* and one condition variable, changed_, serve all of them; a thread whose *)
(* predicate is false sleeps until the next notify_all.                    *)
(*                                                                         *)
(* A job is abstracted to what the checks tell apart: the sample indices   *)
(* it covers, whether its records pass their own checks, and whether it    *)
(* holds the END record and of which jobs that carries the CRC.  A CRC     *)
(* stands as the sequence of the jobs it was computed over.                *)
(***************************************************************************)
EXTENDS Integers, Sequences

CONSTANTS Workers,          \* the decoding threads
          MaxQueuedJobs,    \* kMaxQueuedJobs
          Jobs,             \* bound: jobs the caller submits
          Caller, Writer, NoJob

ASSUME DecoderAssumption ==
    /\ MaxQueuedJobs \in Nat \ {0} /\ Jobs \in Nat
    /\ Caller \notin Workers /\ Writer \notin Workers /\ Caller # Writer
    /\ NoJob \notin Nat

Threads == Workers \cup {Caller, Writer}

VARIABLES
    pc,                 \* where each thread is
    asleep,             \* the threads waiting for a notification
    submitted,          \* the jobs submitted so far
    batch, end_seen,    \* the caller's batch_ and end_seen_
    jobs, ordered,      \* jobs_, ordered_: job numbers
    doing,              \* the job each worker and the writer has
    result,             \* what became of each submitted job's promise
    totals, error, stopping,
    output              \* ghost: the numbers of the jobs written

threads == <<pc, asleep, doing>>
queues  == <<submitted, jobs, ordered, result>>
calling == <<batch, end_seen>>
vars == <<threads, queues, calling, totals, error, stopping, output>>

NoTotals == [pairs |-> 0, span |-> 0, gaps |-> 0, crc |-> <<>>, ended |-> FALSE]

Init ==
    /\ pc = [t \in Threads |-> IF t = Caller THEN "free" ELSE "wait"]
    /\ asleep = {}
    /\ submitted = <<>> /\ batch = NoJob /\ end_seen = FALSE
    /\ jobs = <<>> /\ ordered = <<>> /\ result = <<>>
    /\ doing = [t \in Workers \cup {Writer} |-> NoJob]
    /\ totals = NoTotals
    /\ error = FALSE /\ stopping = FALSE /\ output = <<>>

Go(t, to) == pc' = [pc EXCEPT ![t] = to]
Sleep(t) == asleep' = asleep \cup {t}
At(t, places) == t \notin asleep /\ pc[t] \in places
NotifyAll == asleep' = {}
-----------------------------------------------------------------------------
(* The caller. *)

\* The end of the last job cut from the stream.
StreamEnd == IF submitted = <<>> THEN 0 ELSE submitted[Len(submitted)].last
UpTo(n) == [i \in 1 .. n |-> i]

\* A batch of one pair per job: in sequence, after a gap of one pair, or
\* reaching back; possibly corrupt; possibly with an END record, whose CRC is
\* of all the jobs or of all but one.
Batches ==
    LET n == Len(submitted) + 1 IN
    {[first |-> first, last |-> first + 1, sound |-> sound, end |-> end, crc |-> crc] :
        first \in {StreamEnd, StreamEnd + 1} \cup ({StreamEnd - 1} \cap Nat),
        sound \in BOOLEAN, end \in BOOLEAN, crc \in {UpTo(n), UpTo(n - 1)}}

\* add() cuts a batch of kBatchBytes or up to the END record; submit_batch()
\* waits for room below.
Add ==
    /\ pc[Caller] = "free" /\ ~end_seen
    /\ IF error THEN Go(Caller, "thrown") /\ UNCHANGED calling
       ELSE /\ Len(submitted) < Jobs
            /\ batch' \in Batches /\ end_seen' = batch'.end
            /\ Go(Caller, "submit")
    /\ UNCHANGED <<asleep, doing, queues, totals, error, stopping, output>>

\* A corrupt header or data after the END record in add(), a stream that ends
\* inside a record in finish(): the call throws.
Reject ==
    /\ pc[Caller] = "free"
    /\ Go(Caller, "thrown")
    /\ UNCHANGED <<asleep, doing, queues, calling, totals, error, stopping, output>>

\* finish() submits what add() has not.
Finish ==
    /\ pc[Caller] = "free"
    /\ \/ batch' \in Batches /\ ~batch'.end /\ ~end_seen /\ Len(submitted) < Jobs
          /\ Go(Caller, "flush")
       \/ batch' = NoJob /\ Go(Caller, "finish")
    /\ UNCHANGED <<asleep, doing, queues, end_seen, totals, error, stopping, output>>

Room == Len(ordered) < MaxQueuedJobs
SubmitBatch ==
    /\ At(Caller, {"submit", "flush"})
    /\ IF ~(Room \/ error)
       THEN Sleep(Caller) /\ UNCHANGED <<pc, queues, batch>>
       ELSE IF error
       THEN Go(Caller, "thrown") /\ UNCHANGED <<asleep, queues, batch>>
       ELSE LET n == Len(submitted) + 1 IN
            /\ submitted' = Append(submitted, batch) /\ batch' = NoJob
            /\ result' = Append(result, "pending")
            /\ ordered' = Append(ordered, n) /\ jobs' = Append(jobs, n)
            /\ NotifyAll
            /\ Go(Caller, IF pc[Caller] = "flush" THEN "finish" ELSE "free")
    /\ UNCHANGED <<doing, end_seen, totals, error, stopping, output>>

WrittenJobsDone == jobs = <<>>     \* mutant: waits for the wrong queue
AllWritten == ordered = <<>>
AwaitWritten ==
    /\ At(Caller, {"finish"})
    /\ IF ~(AllWritten \/ error)
       THEN Sleep(Caller) /\ UNCHANGED pc
       ELSE /\ \/ error /\ Go(Caller, "thrown")
               \/ ~error /\ Go(Caller, "finished")
               \/ ~error /\ Go(Caller, "thrown")      \* fflush failed
            /\ UNCHANGED asleep
    /\ UNCHANGED <<doing, queues, calling, totals, error, stopping, output>>

\* The destructor, after a return, an exception or no finish() at all.
Destroy ==
    /\ pc[Caller] \in {"free", "thrown", "finished"}
    /\ stopping' = TRUE /\ NotifyAll
    /\ Go(Caller, "joining")
    /\ UNCHANGED <<doing, queues, calling, totals, error, output>>

Join ==
    /\ pc[Caller] = "joining"
    /\ \A t \in Threads \ {Caller} : pc[t] = "exited"
    /\ Go(Caller, "gone")
    /\ UNCHANGED <<asleep, doing, queues, calling, totals, error, stopping, output>>
-----------------------------------------------------------------------------
(* The workers. *)
WorkerLeavesEarly == stopping     \* mutant: leaves jobs behind
WorkerLeaves == jobs = <<>>
TakeJob(w) ==
    /\ At(w, {"wait"})
    /\ IF ~(stopping \/ jobs # <<>>)
       THEN Sleep(w) /\ UNCHANGED <<pc, doing, jobs>>
       ELSE IF WorkerLeaves
       THEN Go(w, "exited") /\ UNCHANGED <<asleep, doing, jobs>>
       ELSE /\ doing' = [doing EXCEPT ![w] = Head(jobs)] /\ jobs' = Tail(jobs)
            /\ Go(w, "decode") /\ UNCHANGED asleep
    /\ UNCHANGED <<submitted, ordered, result, calling, totals, error, stopping, output>>

\* The promise is kept outside the lock; the future wakes the writer itself.
Decode(w) ==
    /\ pc[w] = "decode"
    /\ result' = [result EXCEPT ![doing[w]] =
           IF submitted[doing[w]].sound THEN "decoded" ELSE "failed"]
    /\ doing' = [doing EXCEPT ![w] = NoJob]
    /\ Go(w, "wait")
    /\ UNCHANGED <<asleep, submitted, jobs, ordered, calling, totals, error, stopping, output>>
-----------------------------------------------------------------------------
(* The writer. *)
Await ==
    /\ At(Writer, {"wait"})
    /\ IF ~(stopping \/ ordered # <<>>)
       THEN Sleep(Writer) /\ UNCHANGED <<pc, doing>>
       ELSE IF ordered = <<>>
       THEN Go(Writer, "exited") /\ UNCHANGED <<asleep, doing>>
       ELSE /\ doing' = [doing EXCEPT ![Writer] = Head(ordered)]
            /\ Go(Writer, "get") /\ UNCHANGED asleep
    /\ UNCHANGED <<queues, calling, totals, error, stopping, output>>

Kept(n) == result[n] # "pending"
Backwards(job) == job.first < totals.span
Mismatch(job, n) == job.end /\ job.crc # Append(totals.crc, n)
Sound(n) == /\ result[n] = "decoded"
            /\ ~Backwards(submitted[n]) /\ ~Mismatch(submitted[n], n)

\* Checked and written to the output, still at the front of ordered_.
WriteJob ==
    LET n == doing[Writer] IN
    /\ pc[Writer] = "get" /\ Kept(n) /\ Sound(n)
    /\ output' = Append(output, n)
    /\ Go(Writer, "commit")
    /\ UNCHANGED <<asleep, doing, queues, calling, totals, error, stopping>>

GapInsideOnly(job) == 0     \* mutant: the gap between two jobs is not counted
GapBefore(job) == IF job.first > totals.span THEN 1 ELSE 0
CommitSilently == UNCHANGED asleep     \* mutant: nobody is told of the room
CommitNotice == NotifyAll
CommitJob ==
    LET n == doing[Writer]
        job == submitted[n]
    IN
    /\ pc[Writer] = "commit"
    /\ totals' = [pairs |-> totals.pairs + (job.last - job.first),
                  span  |-> job.last,
                  gaps  |-> totals.gaps + GapBefore(job),
                  crc   |-> Append(totals.crc, n),
                  ended |-> totals.ended \/ job.end]
    /\ ordered' = Tail(ordered)
    /\ CommitNotice
    /\ doing' = [doing EXCEPT ![Writer] = NoJob]
    /\ Go(Writer, "wait")
    /\ UNCHANGED <<submitted, jobs, result, calling, error, stopping, output>>

RestKept == ordered' = Tail(ordered)     \* mutant: only the failed job is given up
RestGivenUp == ordered' = <<>>
\* The job failed its checks, or the output could not be written.
FailJob ==
    /\ pc[Writer] = "get" /\ Kept(doing[Writer])
    /\ error' = TRUE
    /\ RestGivenUp /\ NotifyAll
    /\ doing' = [doing EXCEPT ![Writer] = NoJob]
    /\ Go(Writer, "wait")
    /\ UNCHANGED <<submitted, jobs, result, calling, totals, stopping, output>>
-----------------------------------------------------------------------------
CallerWaits == SubmitBatch \/ AwaitWritten \/ Join
Calls == Add \/ Reject \/ Finish \/ Destroy
Worker(w) == TakeJob(w) \/ Decode(w)
WriterActs == Await \/ WriteJob \/ CommitJob \/ FailJob
Gone == pc[Caller] = "gone" /\ UNCHANGED vars

Next == CallerWaits \/ Calls \/ WriterActs \/ (\E w \in Workers : Worker(w)) \/ Gone

Spec == Init /\ [][Next]_vars

\* Every thread is scheduled; nothing obliges the caller to make a call.
FairSpec == /\ Spec
            /\ WF_vars(CallerWaits) /\ WF_vars(WriterActs)
            /\ \A w \in Workers : WF_vars(Worker(w))
-----------------------------------------------------------------------------
Job == [first : Nat, last : Nat, sound : BOOLEAN, end : BOOLEAN, crc : Seq(Nat)]

\* Every variable has its type, and ordered_ holds no more than its bound.
TypeOK ==
    /\ \A t \in Workers : pc[t] \in {"wait", "decode", "exited"}
    /\ pc[Caller] \in {"free", "submit", "flush", "finish", "finished", "thrown", "joining", "gone"}
    /\ pc[Writer] \in {"wait", "get", "commit", "exited"}
    /\ asleep \subseteq Threads
    /\ submitted \in Seq(Job) /\ (batch = NoJob \/ batch \in Job) /\ end_seen \in BOOLEAN
    /\ jobs \in Seq(1 .. Len(submitted))
    /\ ordered \in Seq(1 .. Len(submitted)) /\ Len(ordered) <= MaxQueuedJobs
    /\ \A t \in DOMAIN doing : doing[t] # NoJob => doing[t] \in 1 .. Len(submitted)
    /\ result \in Seq({"pending", "decoded", "failed"}) /\ Len(result) = Len(submitted)
    /\ error \in BOOLEAN /\ stopping \in BOOLEAN
    /\ output \in Seq(1 .. Len(submitted))

\* Whatever order the workers finish in, jobs reach the output as an in-order
\* prefix of what was submitted, each following the ones before it, and
\* nothing is written or submitted after the first failure.
Order == INSTANCE RecordOrder WITH written <- Len(output), failed <- error
ImplementsOrder == Order!Spec

\* finish() returns only when everything submitted was acceptable and is in
\* the output (decoder.cpp 98-107); an error is never lost on the way to the
\* caller.
FinishedWhole ==
    pc[Caller] = "finished" =>
        /\ output = UpTo(Len(submitted))
        /\ \A n \in DOMAIN submitted : Order!Acceptable(n)

\* The totals a sequential decoder would have after the first n jobs.
Reference[n \in Nat] ==
    IF n = 0 THEN NoTotals
    ELSE LET before == Reference[n - 1]
             job == submitted[n]
         IN  [pairs |-> before.pairs + 1,
              span  |-> job.last,
              gaps  |-> before.gaps + (IF job.first = before.span THEN 0 ELSE 1),
              crc   |-> UpTo(n),
              ended |-> job.end]

\* The totals are at any time those of a sequential decoder after the jobs
\* that have left ordered_, so progress() and finish() never count a job that
\* is not in the output, or one twice (decoder.cpp 224-233).
TotalsExact == ~error => totals = Reference[Len(submitted) - Len(ordered)]

\* What finish() returns: everything, and its true totals.
FinishedExact == FinishedWhole /\ TotalsExact

\* A caller that waits for room or for the end of the output gets an answer:
\* no notification it needs is missing.
CallsReturn == pc[Caller] \in {"submit", "flush", "finish"} ~>
                   pc[Caller] \in {"free", "finished", "thrown"}

\* The destructor joins every thread, whatever is still queued.
DestructorEnds == pc[Caller] = "joining" ~> pc[Caller] = "gone"
=============================================================================
