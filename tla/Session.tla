------------------------------ MODULE Session -------------------------------
(***************************************************************************)
(* One run of the receiver: run_capture of the host (host/src/capture.cpp) *)
(* with the control port of each device, the command loop of the ESP       *)
(* (esp32s3/src/main.c), the run controls of the FPGA                      *)
(* (fpga/rtl/iqstream_top.v) and the USB pipe between them.                *)
(*                                                                         *)
(* The host opens the devices (class Devices), makes runs, and may die at  *)
(* any moment; the next process finds whatever it left.  serve.cpp reopens *)
(* the devices in the same way after an exception.  Each loop of the host  *)
(* is a state in pc.  The ESP answers requests in order, RUN only once the *)
(* acquisition has ended; the FPGA answers at once, but a request or its   *)
(* reply may be lost.  A unit of samples is its position in the run.       *)
(***************************************************************************)
EXTENDS Integers, Sequences, FiniteSets

CONSTANTS MaxOpens,     \* processes (or reopenings) in a behaviour
          MaxRuns,      \* calls of run_capture in a behaviour
          MaxUnits,     \* units an acquisition sends
          MaxLosses,    \* exchanges with the FPGA that are lost
          UsbSize       \* items the FT600 and its driver hold

VARIABLES
    pc,             \* where the host is
    opens, runs, losses,    \* counts, for the bounds; runs numbers the runs
    seq,            \* sequence_ of the ESP's control port
    runSeq, stopSeq,    \* sequence numbers of this run's RUN and STOP, or 0
    failure,        \* an error of this run has been kept
    lowered, released,  \* ESP_OUTPUTS 0 and FPGA_RELEASE were answered
    verdict,        \* what run_capture is about to return: "none", "ok" or "failed"
    reader,         \* the receiver thread: "off", "reading", "ended" or "error"
    received,       \* what the decoder has got in this run
    espIn, espOut,  \* requests and replies on the ESP's serial port
    acquiring,      \* the RUN request the ESP is executing: <<>> or <<request>>
    outputs,        \* the ESP drives the link lines
    stats,          \* the ESP's statistics
    fpga,           \* run controls of the FPGA
    stream,         \* units taken into the FPGA's stream since ARM
    pipe,           \* what is on its way through the FPGA (reorder to usb_tx)
    usb             \* what is in the FT600 and the driver

asked   == <<seq, runSeq, stopSeq>>
result  == <<failure, lowered, released, verdict>>
host    == <<pc, opens, runs, asked, result>>
reading == <<reader, received>>
port    == <<espIn, espOut>>
esp     == <<acquiring, outputs, stats>>
board   == <<fpga, stream, pipe>>
vars    == <<host, losses, reading, port, esp, board, usb>>

NoReport == [run |-> 0, ok |-> FALSE, units |-> 0]
Unit == [run : 1 .. MaxRuns, at : 1 .. MaxUnits]
End  == [crc : Seq(Unit)]
EndOf(s) == [crc |-> s]
IsEnd(item) == "crc" \in DOMAIN item
Unarmed == [armed |-> FALSE, open |-> FALSE, started |-> FALSE, fault |-> FALSE, ended |-> FALSE]

Init ==
    /\ pc = "off" /\ opens = 0 /\ runs = 0 /\ losses = 0
    /\ seq = 0 /\ runSeq = 0 /\ stopSeq = 0
    /\ failure = FALSE /\ lowered = FALSE /\ released = FALSE
    /\ verdict = "none"
    /\ reader = "off" /\ received = <<>>
    /\ espIn = <<>> /\ espOut = <<>>
    /\ acquiring = <<>> /\ outputs = FALSE /\ stats = NoReport
    /\ fpga = Unarmed /\ stream = <<>> /\ pipe = <<>> /\ usb = <<>>

-----------------------------------------------------------------------------
(* The control ports, serial.cpp.                                          *)
Request(op, s) == Append(espIn, [op |-> op, seq |-> s, run |-> runs])
Send(op) ==
    /\ seq' = seq + 1
    /\ espIn' = Request(op, seq + 1)
    /\ UNCHANGED espOut

(* receive() skips the replies to other requests.                          *)
Answers(op, s) == {i \in DOMAIN espOut : espOut[i].op = op /\ espOut[i].seq = s}
Answered(op, s, reply) ==
    /\ Answers(op, s) # {}
    /\ LET i == CHOOSE i \in Answers(op, s) : \A j \in Answers(op, s) : i <= j
       IN  reply = espOut[i] /\ espOut' = SubSeq(espOut, i + 1, Len(espOut))
    /\ UNCHANGED espIn
Replies == {espOut[i] : i \in DOMAIN espOut}
Got(op, s) == \E reply \in Replies : Answered(op, s, reply)
TimedOutNever(op, s) == FALSE       \* mutant: waits without a limit
TimedOut(op, s) == Answers(op, s) = {} /\ espOut' = <<>> /\ UNCHANGED espIn

(* An exchange with the FPGA: answered, or lost before or after its        *)
(* request was executed.  Both losses are a timeout to the host.           *)
Outcome == {"answered"} \cup (IF losses < MaxLosses THEN {"unheard", "unanswered"} ELSE {})
Exchange(o) == losses' = losses + (IF o = "answered" THEN 0 ELSE 1)
Executed(o) == o # "unheard"

Disarmed(f) == [f EXCEPT !.armed = FALSE]
ReleasedArmed(f) == [f EXCEPT !.open = FALSE]   \* mutant: the receiver keeps running
Released(f) == [f EXCEPT !.armed = FALSE, !.open = FALSE]
Command(o, effect) == /\ Exchange(o)
                      /\ fpga' = IF Executed(o) THEN effect ELSE fpga
                      /\ UNCHANGED <<stream, pipe>>

Go(place) == pc' = place

-----------------------------------------------------------------------------
(* class Devices: the ports are opened and flushed, the devices identified *)
(* and the FPGA's flags read.  Replies the flush does not reach stay.      *)
Open ==
    /\ pc = "off" /\ opens < MaxOpens
    /\ opens' = opens + 1
    /\ seq' = 1
    /\ espIn' = Request("info", 1)
    /\ \E n \in 0 .. Len(espOut) : espOut' = SubSeq(espOut, n + 1, Len(espOut))
    /\ Go("info")
    /\ UNCHANGED <<runs, losses, runSeq, stopSeq, result, reading, esp, board, usb>>

Identify ==
    /\ pc = "info"
    /\ \/ Got("info", 1) /\ \E o \in Outcome : Exchange(o) /\ Go(IF o = "answered" THEN "idle" ELSE "off")
       \/ TimedOut("info", 1) /\ Go("off") /\ UNCHANGED losses
    /\ UNCHANGED <<opens, runs, asked, result, reading, esp, board, usb>>

(* run_capture begins: a stream that is still open is closed first.        *)
FoundOpen == IF fpga.open THEN "release" ELSE "outputs"
Begin ==
    /\ pc = "idle" /\ runs < MaxRuns
    /\ runs' = runs + 1
    /\ lowered' = FALSE /\ released' = FALSE
    /\ \E o \in Outcome : Exchange(o) /\ Go(IF o = "answered" THEN FoundOpen ELSE "off")
    /\ UNCHANGED <<opens, asked, failure, verdict, reading, port, esp, board, usb>>

ReleaseLeftOver ==
    /\ pc = "release"
    /\ \E o \in Outcome : Command(o, Released(fpga)) /\ Go(IF o = "answered" THEN "outputs" ELSE "off")
    /\ UNCHANGED <<opens, runs, asked, result, reading, port, esp, usb>>

DriveOutputs ==
    /\ pc = "outputs" /\ Send("high") /\ Go("driving")
    /\ UNCHANGED <<opens, runs, losses, runSeq, stopSeq, result, reading, esp, board, usb>>
OutputsDriven ==
    /\ pc = "driving"
    /\ \/ Got("high", seq) /\ Go("arm")
       \/ TimedOut("high", seq) /\ Go("off")
    /\ UNCHANGED <<opens, runs, losses, asked, result, reading, esp, board, usb>>

(* ARM clears the pipeline.  It is refused when a stream is open or the    *)
(* FPGA is not ready; the host then throws, without an OpenStream to close.*)
Armed == [armed |-> TRUE, open |-> TRUE, started |-> TRUE, fault |-> FALSE, ended |-> FALSE]
ClearedNot == UNCHANGED pipe    \* mutant: the pipeline keeps the old stream
Cleared == pipe' = <<>>
Arm ==
    /\ pc = "arm"
    /\ \E o \in Outcome, ready \in BOOLEAN :
        LET accepted == ready /\ ~fpga.open /\ Executed(o) IN
        /\ Exchange(o)
        /\ IF accepted THEN fpga' = Armed /\ stream' = <<>> /\ Cleared ELSE UNCHANGED board
        /\ Go(IF accepted /\ o = "answered" THEN "drain" ELSE "off")
    /\ UNCHANGED <<opens, runs, asked, result, reading, port, esp, usb>>

(* Ft600::drain reads until nothing has come for 200 ms.                   *)
Emptied == usb = <<>>
Drain ==
    /\ pc = "drain" /\ usb # <<>>
    /\ usb' = Tail(usb)
    /\ UNCHANGED <<host, losses, reading, port, esp, board>>

StartRun ==
    /\ pc = "drain" /\ Emptied
    /\ Send("run") /\ runSeq' = seq'
    /\ reader' = "reading"
    /\ Go("running")
    /\ UNCHANGED <<opens, runs, losses, stopSeq, result, received, esp, board, usb>>

(* The loop while the ESP acquires.                                        *)
RunReplied ==
    /\ pc = "running"
    /\ \E reply \in Replies : Answered("run", runSeq, reply) /\ failure' = ~reply.ok
    /\ Go("stop")
    /\ UNCHANGED <<opens, runs, losses, asked, lowered, released, verdict, reading, esp, board, usb>>

StopWanted ==
    /\ pc = "running" /\ stopSeq = 0
    /\ Send("stop") /\ stopSeq' = seq'
    /\ UNCHANGED <<pc, opens, runs, losses, runSeq, result, reading, esp, board, usb>>

(* A clock fault, an FPGA that does not answer, a run that does not end, a *)
(* stream that does not: each throws.                                      *)
Fail ==
    /\ failure' = TRUE /\ Go("abort")
    /\ UNCHANGED <<opens, runs, asked, lowered, released, verdict, reading, esp, board, usb>>

Watch == /\ pc \in {"running", "end"}
         /\ \E o \in Outcome : Exchange(o) /\ (o # "answered" \/ fpga.fault)
         /\ UNCHANGED port /\ Fail

GiveUp == pc = "running" /\ TimedOut("run", runSeq) /\ UNCHANGED losses /\ Fail

NoEnd == pc = "end" /\ reader = "reading" /\ usb = <<>> /\ UNCHANGED <<losses, port>> /\ Fail

(* The run has ended: stop the receiver, which makes the FPGA end the      *)
(* stream, lower the outputs and wait for the END record.                  *)
StopReceiver ==
    /\ pc = "stop"
    /\ \E o \in Outcome :
        /\ Command(o, Disarmed(fpga))
        /\ IF o = "answered"
           THEN Go(IF stopSeq = 0 THEN "lower" ELSE "stopping") /\ UNCHANGED failure
           ELSE Go("abort") /\ failure' = TRUE
    /\ UNCHANGED <<opens, runs, asked, lowered, released, verdict, reading, port, esp, usb>>

Stopped ==
    /\ pc \in {"stopping", "abort_stopping"}
    /\ Got("stop", stopSeq) \/ TimedOut("stop", stopSeq)
    /\ Go(IF pc = "stopping" THEN "lower" ELSE "abort_lower")
    /\ UNCHANGED <<opens, runs, losses, asked, result, reading, esp, board, usb>>

Lower ==
    /\ pc \in {"lower", "abort_lower"} /\ Send("low")
    /\ Go(IF pc = "lower" THEN "lowering" ELSE "abort_lowering")
    /\ UNCHANGED <<opens, runs, losses, runSeq, stopSeq, result, reading, esp, board, usb>>

Lowered ==
    /\ pc \in {"lowering", "abort_lowering"}
    /\ \/ /\ Got("low", seq) /\ lowered' = TRUE /\ UNCHANGED failure
          /\ Go(IF pc = "lowering" THEN "end" ELSE "finish")
       \/ /\ TimedOut("low", seq) /\ failure' = TRUE /\ UNCHANGED lowered
          /\ Go(IF pc = "lowering" THEN "abort" ELSE "finish")
    /\ UNCHANGED <<opens, runs, losses, asked, released, verdict, reading, esp, board, usb>>

StreamEnded ==
    /\ pc = "end" /\ reader # "reading" /\ Go("finish")
    /\ UNCHANGED <<opens, runs, losses, asked, result, reading, port, esp, board, usb>>

(* However a step failed: stop both devices, as far as they answer.        *)
AbortStop ==
    /\ pc = "abort"
    /\ \E o \in Outcome : Command(o, Disarmed(fpga))
    /\ Send("stop") /\ stopSeq' = seq'
    /\ Go("abort_stopping")
    /\ UNCHANGED <<opens, runs, runSeq, result, reading, esp, usb>>

(* The receiver thread is joined, the decoder finished (its output may     *)
(* fail), the statistics of both devices read, and the verdict reached.    *)
Finish ==
    /\ pc = "finish"
    /\ reader' = IF reader = "reading" THEN "off" ELSE reader
    /\ failure' \in {failure \/ reader = "error", TRUE}
    /\ Send("stats") /\ Go("stats")
    /\ UNCHANGED <<opens, runs, losses, runSeq, stopSeq, lowered, released, verdict, received, esp, board, usb>>

GapsIn(s) == IF s = <<>> THEN 0 ELSE s[Len(s)].at - Len(s)
AgreesNot(r) == TRUE            \* mutant: the counts of the two devices are not compared
Agrees(r) == Len(stream) + GapsIn(stream) = r.units
Passed(r) == /\ ~failure /\ ~fpga.fault /\ r.ok
             /\ reader = "ended"
             /\ Agrees(r)
             /\ received = stream
Judge ==
    /\ pc = "stats"
    /\ \/ \E reply \in Replies, o \in Outcome :
             /\ Answered("stats", seq, reply)
             /\ Exchange(o)
             /\ verdict' = IF o = "answered" /\ Passed(reply.stats) THEN "ok" ELSE "failed"
       \/ TimedOut("stats", seq) /\ verdict' = "failed" /\ UNCHANGED losses
    /\ Go("close")
    /\ UNCHANGED <<opens, runs, asked, failure, lowered, released, reading, esp, board, usb>>

(* The destructor of OpenStream, whose failure is swallowed, and the end   *)
(* of run_capture's variables.                                             *)
LeaveRun ==
    /\ failure' = FALSE /\ verdict' = "none" /\ runSeq' = 0 /\ stopSeq' = 0
    /\ reader' = "off" /\ received' = <<>>
CloseStream ==
    /\ pc = "close"
    /\ \E o \in Outcome : Command(o, Released(fpga)) /\ released' = (o = "answered")
    /\ LeaveRun /\ Go("idle")
    /\ UNCHANGED <<opens, runs, seq, lowered, port, esp, usb>>

(* The process ends, or dies wherever it is.                               *)
ProcessDies ==
    /\ pc # "off" /\ Go("off")
    /\ LeaveRun /\ lowered' = FALSE /\ released' = FALSE /\ seq' = 0
    /\ UNCHANGED <<opens, runs, losses, port, esp, board, usb>>

-----------------------------------------------------------------------------
(* The receiver thread and the decoder it feeds: positions must advance,   *)
(* and the END record must match what came before it.                      *)
ReadStream ==
    /\ reader = "reading" /\ usb # <<>>
    /\ usb' = Tail(usb)
    /\ LET item == Head(usb) IN
       IF IsEnd(item)
       THEN reader' = (IF item.crc = received THEN "ended" ELSE "error") /\ UNCHANGED received
       ELSE IF received # <<>> /\ item.at <= received[Len(received)].at
       THEN reader' = "error" /\ UNCHANGED received
       ELSE received' = Append(received, item) /\ UNCHANGED reader
    /\ UNCHANGED <<host, losses, port, esp, board>>

(* A USB error, a damaged record or an output that cannot be written.      *)
ReceiverFails ==
    /\ reader = "reading" /\ reader' = "error"
    /\ UNCHANGED <<host, losses, received, port, esp, board, usb>>

-----------------------------------------------------------------------------
(* The ESP's command loop.                                                 *)
Reply(r, ok) ==
    espOut' = Append(espOut, [op |-> r.op, seq |-> r.seq, ok |-> ok,
                              stats |-> IF r.op = "stats" THEN stats ELSE NoReport])

Execute ==
    /\ acquiring = <<>> /\ espIn # <<>>
    /\ espIn' = Tail(espIn)
    /\ LET r == Head(espIn) IN
       IF r.op = "run" /\ outputs
       THEN /\ acquiring' = <<r>>
            /\ stats' = [run |-> r.run, ok |-> TRUE, units |-> 0]
            /\ UNCHANGED <<outputs, espOut>>
       ELSE /\ outputs' = (r.op = "high" \/ (outputs /\ r.op # "low"))
            /\ UNCHANGED <<acquiring, stats>>
            /\ Reply(r, r.op # "run")
    /\ UNCHANGED <<host, losses, reading, board, usb>>

(* A unit leaves the ESP.  The FPGA takes it while its receiver runs, or   *)
(* misses it; what it takes it takes whole and in order (Reorder).         *)
Transmit ==
    /\ acquiring # <<>> /\ stats.units < MaxUnits
    /\ stats' = [stats EXCEPT !.units = @ + 1]
    /\ LET unit == [run |-> stats.run, at |-> stats.units + 1] IN
       \/ fpga.armed /\ stream' = Append(stream, unit) /\ pipe' = Append(pipe, unit)
       \/ UNCHANGED <<stream, pipe>>
    /\ UNCHANGED <<host, losses, reading, port, acquiring, outputs, fpga, usb>>

(* The acquisition ends at its duration, at any byte from the host, or     *)
(* with a failure (Acquisition); only then is RUN answered.                *)
EndRun ==
    /\ acquiring # <<>>
    /\ \E ok \in BOOLEAN : stats' = [stats EXCEPT !.ok = ok] /\ Reply(acquiring[1], ok)
    /\ acquiring' = <<>>
    /\ UNCHANGED <<host, losses, reading, espIn, outputs, board, usb>>

(* One second without a command.                                           *)
IdleRelease ==
    /\ acquiring = <<>> /\ outputs /\ outputs' = FALSE
    /\ UNCHANGED <<host, losses, reading, port, acquiring, stats, board, usb>>

-----------------------------------------------------------------------------
(* The FPGA: the clock from the ESP stops; the receiver is off and the     *)
(* input idle, so the stream is ended; a word leaves for USB.              *)
ClockFault ==
    /\ fpga.open /\ ~fpga.fault
    /\ fpga' = [fpga EXCEPT !.fault = TRUE, !.armed = FALSE]
    /\ UNCHANGED <<host, losses, reading, port, esp, stream, pipe, usb>>

FlushNeeded == fpga.started /\ ~fpga.armed /\ ~fpga.fault
EndStream ==
    /\ FlushNeeded /\ ~fpga.ended
    /\ fpga' = [fpga EXCEPT !.ended = TRUE]
    /\ pipe' = Append(pipe, EndOf(stream))
    /\ UNCHANGED <<host, losses, reading, port, esp, stream, usb>>

Flow ==
    /\ pipe # <<>> /\ Len(usb) < UsbSize
    /\ usb' = Append(usb, Head(pipe)) /\ pipe' = Tail(pipe)
    /\ UNCHANGED <<host, losses, reading, port, esp, fpga, stream>>

-----------------------------------------------------------------------------
Ending == \/ RunReplied \/ StopReceiver \/ Stopped \/ Lower \/ Lowered \/ StreamEnded
          \/ AbortStop \/ Finish \/ Judge \/ CloseStream
Starting == Identify \/ ReleaseLeftOver \/ DriveOutputs \/ OutputsDriven \/ Arm \/ Drain \/ StartRun
Device == Execute \/ Transmit \/ EndRun \/ IdleRelease \/ ClockFault \/ EndStream \/ Flow

Next == \/ Open \/ Begin \/ Starting \/ StopWanted \/ Watch \/ GiveUp \/ NoEnd \/ Ending \/ ProcessDies
        \/ ReadStream \/ ReceiverFails \/ Device

Spec == Init /\ [][Next]_vars

(* The host's threads are scheduled, and its clock runs: a wait that has a *)
(* limit ends.  Nothing obliges a device to answer or to fail, or a user   *)
(* to stop.                                                                *)
Host == \/ Starting \/ Ending \/ NoEnd
        \/ (Watch /\ losses' = losses)
        \/ (GiveUp /\ stopSeq # 0)
        \/ (StopWanted /\ reader # "reading")
FairSpec == Spec /\ WF_vars(Host) /\ WF_vars(ReadStream)

-----------------------------------------------------------------------------
(* Types of the variables; requests and replies only where they can be.    *)
Op == {"info", "high", "low", "run", "stop", "stats"}
Stats == [run : 0 .. MaxRuns, ok : BOOLEAN, units : 0 .. MaxUnits]
TypeOK ==
    /\ reader \in {"off", "reading", "ended", "error"}
    /\ verdict \in {"none", "ok", "failed"}
    /\ stats \in Stats
    /\ received \in Seq(Unit) /\ stream \in Seq(Unit)
    /\ \A i \in DOMAIN espIn : espIn[i].op \in Op /\ espIn[i].seq \in Nat
    /\ \A i \in DOMAIN espOut : espOut[i].op \in Op /\ espOut[i].stats \in Stats
    /\ Len(acquiring) <= 1 /\ outputs \in BOOLEAN
    /\ fpga.armed => fpga.open /\ fpga.started /\ ~fpga.fault /\ ~fpga.ended
    /\ Len(usb) <= UsbSize

(* A run never receives anything of another run, whoever left it behind:   *)
(* neither from the FPGA's pipeline nor from the FT600 (capture.cpp:219-   *)
(* 227) nor from an acquisition that still went on.                        *)
OwnStream ==
    reader # "off" => \A i \in DOMAIN received : received[i].run = runs

(* A run is reported good only when the ESP acquired for it without a      *)
(* failure and every unit it sent was received or lies in a gap between    *)
(* two that were (capture.cpp:317-388): nothing is missing at the end.     *)
VerdictSound ==
    verdict = "ok" =>
        /\ stats.run = runs /\ stats.ok /\ acquiring = <<>>
        /\ \A i \in DOMAIN received : received[i].run = runs
        /\ stats.units = IF received = <<>> THEN 0 ELSE received[Len(received)].at

(* However run_capture ends, when the closing commands were answered both  *)
(* devices are left safe (capture.cpp:299-309, 171-176): the receiver off, *)
(* the stream closed, no acquisition, the link lines released.             *)
LeftSafe ==
    pc = "idle" /\ lowered /\ released =>
        ~fpga.armed /\ ~fpga.open /\ acquiring = <<>> /\ ~outputs

(* run_capture returns, whatever the devices do: every wait has a limit.   *)
(* Only a run nobody stops may go on.                                      *)
Beginning == pc \in {"info", "release", "outputs", "driving", "arm", "drain"}
MustEnd == IF pc = "running" THEN stopSeq # 0 \/ fpga.fault \/ reader # "reading"
             ELSE pc \notin {"off", "idle"} /\ ~Beginning
SessionEnds ==
    /\ Beginning ~> pc \in {"off", "idle", "running"}
    /\ MustEnd ~> pc \in {"off", "idle"}
=============================================================================
