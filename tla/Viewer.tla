------------------------------- MODULE Viewer -------------------------------
(***************************************************************************)
(* How the server feeds spectrum frames to the browser (host/src/serve.cpp *)
(* 91-134, 545-685): a frame that cannot be sent waits and is merged with  *)
(* those that follow, and a window bounds the bytes that are sent and not  *)
(* yet acknowledged.  The link keeps order; the browser acknowledges a     *)
(* frame when it likes, or never, and frames in flight expire.             *)
(*                                                                         *)
(* A frame is what `same' compares, by the one field that matters here,    *)
(* whether bins are peaks, and the level of its bins.  Time is abstract:   *)
(* backed-up sockets and the viewer's limits may hold a frame back, frames *)
(* expire and round trips compare with the best one at any time.           *)
(***************************************************************************)
EXTENDS Integers, Sequences, FiniteSets, SequencesExt, FiniteSetsExt

CONSTANTS Levels,
          Sizes,            \* bytes of a frame on the wire
          MaxWindow,        \* the window's limit (4e6)
          MaxFlight,        \* frames in flight (32)
          Wrap,             \* sequence numbers (2^32)
          Nothing,
          MaxFrames         \* bound: frames offered

OfferedFrames == [peak : BOOLEAN, level : Levels]
WaitingFrames == [peak : BOOLEAN, level : Int \X Nat, frames : Nat]

ASSUME ViewerAssumption ==
    /\ Levels \subseteq Int /\ Sizes \subseteq Nat \ {0} /\ MaxWindow \in Nat \ {0}
    /\ MaxFlight \in Nat \ {0} /\ Wrap \in Nat /\ Wrap > 1 /\ Nothing \notin WaitingFrames

VARIABLES
    pending,        \* the frame that waits: peak, level as a fraction, pending_frames
    flow,           \* the rest of struct Viewer
    stale,          \* rtt_min was measured more than 10 s ago
    link, acks,     \* frames on their way to the browser, and its acknowledgements
    waiting,        \* ghost: the frames offered since one was sent or they changed in kind
    offers          \* count, for the bound

viewer == <<pending, flow, stale, link, acks, waiting, offers>>

ViewerInit ==
    /\ pending = Nothing
    /\ \E number \in {0, Wrap - 2} :     \* the second: a viewer that was sent many frames
           flow = [sequence |-> number, in_flight |-> <<>>, bytes |-> 0, last |-> 0,
                   window |-> 0, probing |-> FALSE]
    /\ stale = FALSE /\ link = <<>> /\ acks = <<>> /\ waiting = <<>> /\ offers = 0

Total(values) ==
    LET upto[n \in 0 .. Len(values)] == IF n = 0 THEN 0 ELSE upto[n - 1] + values[n]
    IN  upto[Len(values)]
Bytes(flight) == Total([i \in DOMAIN flight |-> flight[i].bytes])

-----------------------------------------------------------------------------
(* try_send, with which every handler ends, for a frame `p' and a flow     *)
(* `f' as the handler leaves them.                                         *)
Estimate(f) == IF f.last = 0 THEN 1 ELSE f.last
WindowBytes(f) == IF f.probing THEN 1 ELSE Max({Estimate(f), f.window})
FitsOnly(f) == f.bytes + Estimate(f) <= WindowBytes(f)      \* mutant: also with nothing in flight
Fits(f) == f.in_flight = <<>> \/ f.bytes + Estimate(f) <= WindowBytes(f)

Keep(p, f) == pending' = p /\ flow' = f /\ UNCHANGED link
Send(f) == \E size \in Sizes :
    LET number == (f.sequence + 1) % Wrap
        sent == [sequence |-> number, bytes |-> size, alone |-> f.in_flight = <<>>]
    IN  /\ flow' = [f EXCEPT !.sequence = number, !.in_flight = Append(@, sent), !.bytes = @ + size,
                             !.last = size, !.window = IF @ = 0 THEN size ELSE @]
        /\ link' = Append(link, number)
        /\ pending' = Nothing

TrySend(p, f, held) ==
    LET probed == [f EXCEPT !.probing = @ \/ stale]
    IN  IF p = Nothing \/ held \/ Len(f.in_flight) >= MaxFlight THEN Keep(p, f)
        ELSE IF ~Fits(probed) THEN Keep(p, probed)
        ELSE Send(probed)

-----------------------------------------------------------------------------
(* offer: a frame of the same kind is merged into the one that waits.      *)
Alone(frame) == [peak |-> frame.peak, level |-> <<frame.level, 1>>, frames |-> 1]
Halved(p, frame) == <<p.level[1] + frame.level * p.level[2], 2 * p.level[2]>>      \* mutant
Mean(p, frame) == <<p.level[1] * p.frames + frame.level * p.level[2], p.level[2] * (p.frames + 1)>>
Merged(p, frame) ==
    [p EXCEPT !.frames = @ + 1,
              !.level = IF frame.peak THEN <<Max({p.level[1], frame.level}), 1>> ELSE Mean(p, frame)]
Offer(frame, held) ==
    /\ offers < MaxFrames /\ offers' = offers + 1
    /\ LET same == pending # Nothing /\ pending.peak = frame.peak
           goes_on == waiting # <<>> /\ Last(waiting).peak = frame.peak
       IN  /\ TrySend(IF same THEN Merged(pending, frame) ELSE Alone(frame), flow, held)
           /\ waiting' = IF pending' = Nothing THEN <<>>
                         ELSE IF goes_on THEN Append(waiting, frame) ELSE <<frame>>
    /\ UNCHANGED <<stale, acks>>

(* on_tick: the frames in flight for more than 30 s are given up.          *)
Unpaid(f, n) == f.bytes         \* mutant: their bytes stay counted
Paid(f, n) == f.bytes - Bytes(SubSeq(f.in_flight, 1, n))
Without(f, n) == [f EXCEPT !.in_flight = SubSeq(@, n + 1, Len(@)), !.bytes = Paid(f, n)]
Tick(expired, held) ==
    /\ expired <= Len(flow.in_flight)
    /\ TrySend(pending, Without(flow, expired), held)
    /\ waiting' = IF pending' = Nothing THEN <<>> ELSE waiting
    /\ UNCHANGED <<stale, acks, offers>>

(* acknowledge: of everything up to a sequence number, which may have been *)
(* given up.  Only the frame itself says anything of the round trip.       *)
Covers(number, sent) == (number - sent.sequence) % Wrap < Wrap \div 2
Covered(number) ==
    Max({n \in 0 .. Len(flow.in_flight) : \A i \in 1 .. n : Covers(number, flow.in_flight[i])})
Windows(sent) == {Min({MaxWindow, w}) : w \in
    {flow.window, flow.window + sent.bytes, flow.window + (sent.bytes * sent.bytes) \div flow.window,
     Max({sent.bytes, (7 * flow.window) \div 10})}}
Acknowledge(held) ==
    /\ acks # <<>> /\ acks' = Tail(acks)
    /\ LET n == Covered(Head(acks))
           rest == Without(flow, n)
           sent == flow.in_flight[n]
       IN  IF n = 0 \/ sent.sequence # Head(acks)
           THEN TrySend(pending, rest, held) /\ UNCHANGED stale
           ELSE \E best \in BOOLEAN, w \in Windows(sent) :
                LET measured == best \/ (flow.probing /\ sent.alone)
                IN  /\ stale' = (stale /\ ~measured)
                    /\ TrySend(pending, [rest EXCEPT !.window = w, !.probing = @ /\ ~measured], held)
    /\ waiting' = IF pending' = Nothing THEN <<>> ELSE waiting
    /\ UNCHANGED offers

(* Time passes; the browser gets a frame and may acknowledge it.           *)
Age == ~stale /\ stale' = TRUE /\ UNCHANGED <<pending, flow, link, acks, waiting, offers>>
Arrive(answered) ==
    /\ link # <<>> /\ link' = Tail(link)
    /\ acks' = IF answered THEN Append(acks, Head(link)) ELSE acks
    /\ UNCHANGED <<pending, flow, stale, waiting, offers>>

ViewerNext ==
    \/ \E held \in BOOLEAN :
           \/ \E frame \in OfferedFrames : Offer(frame, held)
           \/ \E expired \in 0 .. MaxFlight : Tick(expired, held)
           \/ Acknowledge(held)
    \/ Age \/ \E answered \in BOOLEAN : Arrive(answered)

ViewerSpec == ViewerInit /\ [][ViewerNext]_viewer

(* The link carries what it has taken, so that frames are not held back    *)
(* for ever, the loop ticks, and frames in flight grow old.  The browser   *)
(* need not acknowledge anything.                                          *)
Expiry == \E expired \in 1 .. MaxFlight : Tick(expired, FALSE)

-----------------------------------------------------------------------------
(* The bytes counted against the window are those of the frames in flight, *)
(* whatever expires or is acknowledged late or twice, also when sequence   *)
(* numbers wrap; the frames in flight are the last ones sent, in order.    *)
FlightAccounted ==
    LET count == Len(flow.in_flight) IN
    /\ flow.bytes = Bytes(flow.in_flight)
    /\ \A i \in 1 .. count :
           flow.in_flight[i].sequence = (flow.sequence - (count - i)) % Wrap

(* The frame that waits stands for every frame offered since one was sent  *)
(* or their kind changed: it counts them all, and its bins are their mean  *)
(* or their maximum.                                                       *)
MergedExact ==
    LET levels == [i \in DOMAIN waiting |-> waiting[i].level]
    IN  IF pending = Nothing THEN waiting = <<>>
        ELSE /\ pending.frames = Len(waiting)
             /\ \A i \in DOMAIN waiting : waiting[i].peak = pending.peak
             /\ IF pending.peak THEN pending.level = <<Max({levels[i] : i \in DOMAIN levels}), 1>>
                ELSE pending.level[1] * Len(waiting) = Total(levels) * pending.level[2]

(* The viewer's accounts are right.                                        *)
ViewerExact == FlightAccounted /\ MergedExact

(* Nothing waits for ever, even for a browser that acknowledges nothing.   *)
FramesLeave == pending # Nothing ~> pending = Nothing
=============================================================================
