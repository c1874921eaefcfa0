---------------------------- MODULE ControlPort -----------------------------
(***************************************************************************)
(* The control protocol on one serial port: processes of the host that     *)
(* open the port one after another and may die at any point                *)
(* (host/src/serial.cpp), and the device at its other end: the command     *)
(* loop of the ESP (esp32s3/src/main.c) or the port of the FPGA            *)
(* (fpga/rtl/control_port.v).                                              *)
(*                                                                         *)
(* A byte is known by the frame it belongs to, its place in it, and        *)
(* whether it equals the magic byte; the magic value may occur inside a    *)
(* frame.  A CRC holds exactly for the bytes of one frame in order.        *)
(***************************************************************************)
EXTENDS Integers, Sequences, FiniteSetsExt

CONSTANTS FrameBytes,       \* bytes of a frame (10 and 16 in the code)
          InnerMagic,       \* places inside a frame that may equal the magic byte; 0: none
          MaxOpens,         \* bound: processes that open the port
          MaxRequests       \* bound: requests begun

ASSUME ControlAssumption ==
    FrameBytes \in Nat \ {0} /\ {MaxOpens, MaxRequests} \subseteq Nat

VARIABLES
    device,                 \* "esp" or "fpga"
    asked,                  \* every request begun: its operation and sequence number
    opens,
    port,                   \* the ControlPort of the process that has it open
    toDevice, toHost,       \* bytes on the way
    request, arg_high,      \* what the device has received of a request; the kept half
    pending, executing,     \* requests the device has accepted, and is busy with
    seen, executed,      \* history: requests seen by the device, and executed
    answers                 \* history: for which request which reply was taken

line == <<device, asked, opens, port, toDevice, toHost, request, arg_high, pending, executing,
          seen, executed, answers>>

Closed == [phase |-> "closed", sequence |-> 0, written |-> 0, frame |-> <<>>,
           waiting |-> 0, then |-> 0, buffer |-> <<>>]

ControlInit ==
    /\ device \in {"esp", "fpga"}
    /\ asked = <<>> /\ opens = 0 /\ port = Closed
    /\ toDevice = <<>> /\ toHost = <<>> /\ request = <<>> /\ arg_high = 0
    /\ pending = 0 /\ executing = 0 /\ seen = {} /\ executed = {} /\ answers = {}

Frame(id, inner) ==
    [place \in 1 .. FrameBytes |-> [of |-> id, place |-> place, magic |-> place \in {1, inner}]]
Intact(bytes) == \A i \in 1 .. FrameBytes : bytes[i].place = i /\ bytes[i].of = bytes[1].of
FromMagic(bytes) ==
    LET at == {i \in DOMAIN bytes : bytes[i].magic}
    IN  IF at = {} THEN <<>> ELSE SubSeq(bytes, Min(at), Len(bytes))

-----------------------------------------------------------------------------
(* The host: ControlPort of serial.cpp, as receiver.cpp and capture.cpp    *)
(* call it.  A port is asked who the device is before anything else.       *)
Operations ==
    IF port.sequence = 0 THEN {"info"}
    ELSE IF asked[Len(asked)].op = "high" THEN {"set"}
    ELSE IF device = "esp" THEN {"set", "high", "run"} ELSE {"set"}

(* tcflush: input the kernel has received and output it has not sent yet
   are dropped.  An FPGA has been idle for longer than its BYTE_TIMEOUT. *)
Open ==
    /\ port.phase = "closed" /\ opens < MaxOpens
    /\ device = "fpga" => toDevice = <<>> /\ request = <<>>
    /\ opens' = opens + 1 /\ port' = [Closed EXCEPT !.phase = "idle"]
    /\ \E n \in 0 .. Len(toDevice) : toDevice' = SubSeq(toDevice, 1, n)
    /\ \E n \in 0 .. Len(toHost) : toHost' = SubSeq(toHost, n + 1, Len(toHost))
    /\ UNCHANGED <<device, asked, request, arg_high, pending, executing, seen, executed, answers>>

Send(op) ==
    /\ Len(asked) < MaxRequests
    /\ asked' = Append(asked, [op |-> op, seq |-> port.sequence + 1])
    /\ \E inner \in InnerMagic :
           port' = [port EXCEPT !.phase = "writing", !.sequence = @ + 1, !.written = 0,
                                !.frame = Frame(Len(asked) + 1, inner)]
    /\ UNCHANGED <<device, opens, toDevice, toHost, request, arg_high, pending, executing,
                   seen, executed, answers>>

Ask == port.phase = "idle" /\ \E op \in Operations : Send(op)
(* A run is stopped while its reply is awaited. *)
StopRun ==
    /\ port.phase = "waiting" /\ asked[port.waiting].op = "run" /\ port.then = 0
    /\ Send("stop")

(* The loop of writes.  A STOP is waited for after the run, or, when the
   run has failed, alone. *)
Write ==
    /\ port.phase = "writing"
    /\ \E n \in port.written + 1 .. FrameBytes :
           /\ toDevice' = toDevice \o SubSeq(port.frame, port.written + 1, n)
           /\ IF n < FrameBytes THEN port' = [port EXCEPT !.written = n]
              ELSE LET id   == Len(asked)
                       done == [port EXCEPT !.phase = "waiting", !.written = 0, !.frame = <<>>]
                   IN  \/ port' = [done EXCEPT !.waiting = id]
                       \/ asked[id].op = "stop" /\ port' = [done EXCEPT !.then = id]
    /\ UNCHANGED <<device, asked, opens, toHost, request, arg_high, pending, executing,
                   seen, executed, answers>>

(* read_frame: bytes are read when no whole frame is buffered; the buffer
   then begins with the magic byte. *)
Read ==
    /\ port.phase = "waiting" /\ Len(port.buffer) < FrameBytes
    /\ \E n \in 1 .. Len(toHost) :
           /\ port' = [port EXCEPT !.buffer = FromMagic(@ \o SubSeq(toHost, 1, n))]
           /\ toHost' = SubSeq(toHost, n + 1, Len(toHost))
    /\ UNCHANGED <<device, asked, opens, toDevice, request, arg_high, pending, executing,
                   seen, executed, answers>>

DropByte(buffer) == Tail(buffer)
AnyNumber(reply, awaited) == reply.op = awaited.op      \* mutant: the sequence number is ignored
Matches(reply, awaited) == reply.op = awaited.op /\ reply.seq = awaited.seq

(* read_frame and receive on a buffer that holds a whole frame. *)
Parse ==
    /\ port.phase = "waiting" /\ Len(port.buffer) >= FrameBytes
    /\ LET reply == port.buffer[1].of
           rest  == FromMagic(SubSeq(port.buffer, FrameBytes + 1, Len(port.buffer)))
       IN  IF ~Intact(port.buffer)
           THEN port' = [port EXCEPT !.buffer = FromMagic(DropByte(@))] /\ answers' = answers
           ELSE IF ~Matches(asked[reply], asked[port.waiting])
           THEN port' = [port EXCEPT !.buffer = rest] /\ answers' = answers
           ELSE /\ answers' = answers \cup {[to |-> port.waiting, reply |-> reply]}
                /\ port' = [port EXCEPT !.buffer = rest, !.waiting = port.then, !.then = 0,
                                        !.phase = IF port.then = 0 THEN "idle" ELSE "waiting"]
    /\ UNCHANGED <<device, asked, opens, toDevice, toHost, request, arg_high, pending, executing,
                   seen, executed>>

(* The answer to a STOP is not insisted on. *)
StopUnanswered ==
    /\ port.phase = "waiting" /\ asked[port.waiting].op = "stop"
    /\ port' = [port EXCEPT !.phase = "idle", !.waiting = 0]
    /\ UNCHANGED <<device, asked, opens, toDevice, toHost, request, arg_high, pending, executing,
                   seen, executed, answers>>

(* The process dies, or a request throws and the port is closed. *)
Close ==
    /\ port.phase # "closed" /\ port' = Closed
    /\ UNCHANGED <<device, asked, opens, toDevice, toHost, request, arg_high, pending, executing,
                   seen, executed, answers>>

-----------------------------------------------------------------------------
(* reply and serial_write: without a process that reads, the ESP gives up  *)
(* after any number of bytes.                                              *)
Answer(id) ==
    \E inner \in InnerMagic :
    \E n \in IF port.phase = "closed" /\ device = "esp" THEN 0 .. FrameBytes ELSE {FrameBytes} :
        toHost' = toHost \o SubSeq(Frame(id, inner), 1, n)

Received == Append(request, Head(toDevice))
Takes == /\ toDevice # <<>> /\ toDevice' = Tail(toDevice)
         /\ seen' = seen \cup {Head(toDevice).of}
         /\ UNCHANGED <<device, asked, opens, port, answers>>

(* A byte that completes no request. *)
Byte ==
    /\ executing = 0 \/ device = "fpga"
    /\ Takes
    /\ Len(Received) < FrameBytes
    /\ request' = IF request = <<>> /\ ~Head(toDevice).magic THEN <<>> ELSE Received
    /\ UNCHANGED <<toHost, arg_high, pending, executing, executed>>

KeptHigh(high) == high      \* mutant: a damaged request leaves the kept half alone
ResyncHigh(high) == 0
(* main.c: a request with a bad CRC; go on from the next magic byte. *)
EspResyncs ==
    /\ device = "esp" /\ executing = 0 /\ Takes
    /\ Len(Received) = FrameBytes /\ ~Intact(Received)
    /\ request' = FromMagic(Tail(Received)) /\ arg_high' = ResyncHigh(arg_high)
    /\ UNCHANGED <<toHost, pending, executing, executed>>

(* main.c: execute and reply.  A run keeps the command loop. *)
EspExecutes ==
    /\ device = "esp" /\ executing = 0 /\ Takes
    /\ Len(Received) = FrameBytes /\ Intact(Received)
    /\ LET id == Received[1].of
           op == asked[id].op
       IN  /\ executed' = executed \cup {[id |-> id, high |-> arg_high]}
           /\ arg_high' = IF op = "high" THEN id ELSE 0
           /\ IF op = "run" /\ arg_high = 0
              THEN executing' = id /\ toHost' = toHost
              ELSE executing' = executing /\ Answer(id)
    /\ request' = <<>> /\ UNCHANGED pending

(* capture_run returns: its time is over, it failed, or input is pending. *)
RunReturns ==
    /\ device = "esp" /\ executing # 0 /\ executing' = 0 /\ Answer(executing)
    /\ UNCHANGED <<device, asked, opens, port, toDevice, request, arg_high, pending, seen,
                   executed, answers>>

(* control_port.v: the last byte of a request; a bad CRC is ignored.       *)
FpgaReceives ==
    /\ device = "fpga" /\ Takes /\ Len(Received) = FrameBytes
    /\ request' = <<>> /\ pending' = IF Intact(Received) THEN Received[1].of ELSE pending
    /\ UNCHANGED <<toHost, arg_high, executing, executed>>

FpgaTakes ==
    /\ device = "fpga" /\ pending # 0 /\ executing = 0
    /\ executing' = pending /\ pending' = 0
    /\ executed' = executed \cup {[id |-> pending, high |-> 0]}
    /\ UNCHANGED <<device, asked, opens, port, toDevice, toHost, request, arg_high, seen, answers>>

FpgaAnswers ==
    /\ device = "fpga" /\ executing # 0 /\ executing' = 0 /\ Answer(executing)
    /\ UNCHANGED <<device, asked, opens, port, toDevice, request, arg_high, pending, seen,
                   executed, answers>>

(* PARTIAL_REQUEST_CYCLES, BYTE_TIMEOUT: the rest of a request never came.
   A process that lives does not pause that long inside a request. *)
Abandon ==
    /\ request # <<>> /\ toDevice = <<>>
    /\ ~(port.phase = "writing" /\ port.written > 0)
    /\ executing = 0 \/ device = "fpga"
    /\ request' = <<>> /\ arg_high' = 0
    /\ UNCHANGED <<device, asked, opens, port, toDevice, toHost, pending, executing, seen,
                   executed, answers>>

HostActs == Open \/ Ask \/ StopRun \/ Write \/ Read \/ Parse \/ StopUnanswered \/ Close
DeviceActs == Byte \/ EspResyncs \/ EspExecutes \/ RunReturns
              \/ FpgaReceives \/ FpgaTakes \/ FpgaAnswers \/ Abandon
ControlNext == HostActs \/ DeviceActs
ControlSpec == ControlInit /\ [][ControlNext]_line

-----------------------------------------------------------------------------
(* A request is executed with the high half of its argument exactly when   *)
(* the request before it on the line was an ARG_HIGH the device executed:  *)
(* nothing a dead process left, whole or in part, reaches another request  *)
(* (control.h:51, main.c:243, 259).                                        *)
HighBefore(id) ==
    LET before == {j \in seen : j < id}
        last   == Max(before)
    IN  IF before # {} /\ asked[last].op = "high" /\ \E e \in executed : e.id = last
        THEN last ELSE 0
ArgumentsWhole == \A e \in executed : e.high = HighBefore(e.id)

(* Replies to other requests are skipped (serial.cpp:139): a process whose *)
(* first answer is its own takes none that is not.  The first request is   *)
(* the same for every process and may be answered by the reply to an       *)
(* earlier one.                                                            *)
First(id) == id - asked[id].seq + 1
OwnReply ==
    \A a \in answers : a.reply # a.to => \E b \in answers : b.to = First(a.to) /\ b.reply # b.to

(* A process never waits in vain: whatever earlier processes left on the   *)
(* line, in either direction, its request is executed and its reply found. *)
Heard ==
    (/\ port.phase = "waiting" /\ Len(port.buffer) < FrameBytes
     /\ toDevice = <<>> /\ toHost = <<>>)
    => port.waiting \in {pending, executing}

(* The three together: every request of a living process is executed, with *)
(* its own argument, and answered by its own reply.                        *)
ControlExact == ArgumentsWhole /\ OwnReply /\ Heard
=============================================================================
