------------------------------ MODULE LinkLane -------------------------------
(***************************************************************************)
(* One lane of the link: the descriptor the ESP makes of a unit            *)
(* (prepare_descriptor, esp32s3/src/capture.c), the cycles at which its    *)
(* kernel writes each byte (esp32s3/src/transmit.S, with the constants of  *)
(* tests/link_wave.cpp), and the receiver that has to follow them without  *)
(* a clock of its own (fpga/rtl/link_lane.v, link_unpack.v).               *)
(*                                                                         *)
(* Time is counted in cycles of 240 MHz from a unit's marker; a line       *)
(* changes `tau' eighths of a cycle after its byte is written and is       *)
(* sampled at two and six eighths, the rising and the falling edge.  A     *)
(* byte is its place in the unit.  A unit may be damaged in its marker,    *)
(* header, payload or trailer, or show another layout.  The checksum finds *)
(* every damage; data do not look like a marker; data_late is 0.           *)
(***************************************************************************)
EXTENDS Integers, Sequences, FiniteSets, SequencesExt, FiniteSetsExt

CONSTANTS GroupPairs,       \* LINK_GROUP_PAIRS (16), the pairs of a group
          GroupBytes,       \* LINK_GROUP_BYTES (40)
          LaneRing,         \* LINK_RING_PAIRS (16384)
          LaneMin, LaneMax, \* LINK_MIN_PAIRS, LINK_MAX_PAIRS (15360, 16288)
          Pauses,           \* bound: cycles between two units of a lane
          Phases,           \* bound: eighths of a cycle a line may be late
          DamagedLayouts,   \* bound: layouts of damaged units, and those they may show
          MaxSent           \* bound: units sent

Layouts == [first : 0 .. LaneRing - 1, count : LaneMin .. LaneMax]

ASSUME LaneAssumption ==
    /\ {GroupPairs, GroupBytes, LaneRing, LaneMin} \subseteq Nat \ {0} /\ LaneRing % GroupPairs = 0
    /\ LaneMin >= 2 * GroupPairs /\ LaneMax \in Nat /\ LaneMax + GroupPairs <= LaneRing
    /\ Pauses \subseteq Nat /\ Phases \subseteq 0 .. 7 /\ DamagedLayouts \subseteq Layouts /\ MaxSent \in Nat

VARIABLES
    line,           \* the unit on the lane, as it is sent and can be read
    rx,             \* the receiver's state machine
    errors,         \* its counters
    unpack,         \* link_unpack: the pairs passed on, when the last group was complete
    overrun,        \* cycles the receiver goes on after the end of a unit
    lost,           \* ghost: was the unit before damaged; units lost and wrong ones passed
    sent

lane == <<line, rx, errors, unpack, overrun, lost, sent>>

-----------------------------------------------------------------------------
(* prepare_descriptor: the fragments of a unit, head, bulk, wrapped bulk   *)
(* and tail, and what the bank holds when the partial groups are padded.   *)
Fragment(at, groups) == [at |-> at, groups |-> groups]
NoneIfEmpty(pairs) == IF pairs = 0 THEN 0 ELSE 1
DescriptorOf(layout) ==
    LET first == layout.first
        head == (0 - first) % GroupPairs
        tail == (layout.count - head) % GroupPairs
        bulk == layout.count - head - tail
        bulk_at == (first + head) % LaneRing
        before_wrap == Min({LaneRing - bulk_at, bulk})
    IN  << Fragment(first - (first % GroupPairs), NoneIfEmpty(head)),
           Fragment(bulk_at, before_wrap \div GroupPairs),
           Fragment(0, (bulk - before_wrap) \div GroupPairs),
           Fragment((first + layout.count - tail) % LaneRing, NoneIfEmpty(tail)) >>

Pad == -1
Bank(layout) ==
    LET head == (0 - layout.first) % GroupPairs
        tail == (layout.count - head) % GroupPairs
        d == DescriptorOf(layout)
        In(place, f) == place \in f.at .. f.at + GroupPairs - 1 /\ f.groups # 0
        Stored(place) == (place - layout.first) % LaneRing
        moved == [place \in 0 .. LaneRing - 1 |->
                     IF ~In(place, d[1]) THEN Stored(place)
                     ELSE IF place - d[1].at < head THEN place - d[1].at ELSE Pad]
    IN  [place \in 0 .. LaneRing - 1 |->
            IF In(place, d[4]) /\ place - d[4].at >= tail THEN Pad ELSE moved[place]]

(* The groups the kernel sends, as the pairs of the unit they hold.        *)
GroupsOf(layout) ==
    LET bank == Bank(layout)
        d == DescriptorOf(layout)
        Group(at) == [i \in 1 .. GroupPairs |-> bank[at + i - 1]]
    IN  FlattenSeq([f \in 1 .. 4 |-> [g \in 1 .. d[f].groups |-> Group(d[f].at + (g - 1) * GroupPairs)]])

-----------------------------------------------------------------------------
(* The kernel: the cycle at which each byte of a unit is written.          *)
HeaderBytes == 8
TrailerBytes == 8
GroupCycles == 2 * GroupBytes + 11      \* LINK_GROUP_CYCLES (91)
SkipEmpty == <<0, 21, 18, 0>>
FragmentStart == <<0, 42, 39, 41>>
TrailerGap == <<67, 46, 28, 8>>
SkippedBetween(e, f) == FoldLeft(LAMBDA sum, cost : sum + cost, 0, SubSeq(SkipEmpty, e + 1, f - 1))

GroupStart(begin, n, g) == begin + (g - 1) * GroupCycles + (IF g > 1 /\ n >= 3 THEN 1 ELSE 0)
LastByte(begin, n) == GroupStart(begin, n, n) + 2 * (GroupBytes - 1)
WriteCycles(layout) ==
    LET n == [f \in 1 .. 4 |-> DescriptorOf(layout)[f].groups]
        Before(f) == {e \in 1 .. f - 1 : n[e] # 0}
        begin[f \in 1 .. 4] ==
            IF Before(f) = {} THEN IF n[f] > 1 THEN 271 ELSE 270
            ELSE LET e == Max(Before(f))
                 IN  LastByte(begin[e], n[e]) + 8 + SkippedBetween(e, f) + FragmentStart[f]
                     + (IF n[f] > 1 THEN 3 ELSE 0)
        end == Max({f \in 1 .. 4 : n[f] # 0})
        Group(f, g) == [b \in 1 .. GroupBytes |-> GroupStart(begin[f], n[f], g) + 2 * (b - 1)]
        Bytes(f) == FlattenSeq([g \in 1 .. n[f] |-> Group(f, g)])
    IN  [b \in 1 .. HeaderBytes |-> 242 + 2 * (b - 1)]
        \o FlattenSeq([f \in 1 .. 4 |-> Bytes(f)])
        \o [b \in 1 .. TrailerBytes |-> LastByte(begin[end], n[end]) + TrailerGap[end] + 2 * (b - 1)]

(* Is a byte on the line, and no line changing, at the rising edge of the  *)
(* sample clock in a cycle the receiver counts (which may be one late)?    *)
OnLine(place, cycle) ==
    LET at == 8 * (cycle + line.shift) + 2
        Since(b) == 8 * line.written[b] + line.tau
    IN  /\ place \in DOMAIN line.written /\ Since(place) < at
        /\ place + 1 \in DOMAIN line.written => at < Since(place + 1)

-----------------------------------------------------------------------------
(* link_lane.v: one step is the clock, of two cycles, in which a byte is   *)
(* taken; `cycle' is the earlier cycle of the next clock.                  *)
Idle == [state |-> "IDLE", cycle |-> 0, wanted |-> 0, at |-> 0, layout |-> [first |-> 0, count |-> LaneMin],
         groups |-> <<0, 0, 0, 0>>, fragment |-> 0, group_at |-> 0, group_byte |-> 0, write_cycle |-> 0,
         clean |-> TRUE]
NoErrors == [framing |-> 0, wrong |-> 0]
NoGroups == [pairs |-> <<>>, group |-> 0, lasts |-> 0, emitting |-> 0, at |-> 0, overwritten |-> FALSE]

NoUnitSent == [layout |-> Idle.layout, read |-> Idle.layout, damage |-> "none", written |-> <<>>,
               tau |-> 0, shift |-> 0]

LaneInit ==
    /\ line = NoUnitSent
    /\ rx = Idle /\ errors = NoErrors /\ unpack = NoGroups
    /\ overrun = 0 /\ lost = [before |-> FALSE, without_cause |-> FALSE, damaged |-> 0]
    /\ sent = 0

Damages == {"none", "marker", "header", "number", "payload", "trailer"}
(* The end of the marker is seen by a falling edge, six eighths into a     *)
(* cycle: one cycle late if the line changes later, and either way if it   *)
(* changes just then.                                                      *)
Shifts(tau) == (IF tau <= 6 THEN {0} ELSE {}) \cup (IF tau >= 6 THEN {1} ELSE {})
MarkerMissable == 2         \* LINK_MARKER_CYCLES - MARKER_MIN_EARLY

(* A unit is sent; IDLE, the receiver finds its marker, in either cycle of *)
(* a clock, unless it was still reading the unit before.                   *)
SendUnit(layout, damage, read) ==
    /\ rx.state = "IDLE" /\ sent' = sent + 1
    /\ damage # "number" => read = layout
    /\ damage # "none" => layout \in DamagedLayouts
    /\ \E written \in {WriteCycles(layout)}, tau \in Phases, pause \in Pauses, first_cycle \in {241, 242} :
       \E shift \in Shifts(tau) :
          LET found == damage # "marker" /\ overrun <= pause + MarkerMissable
          IN  /\ line' = IF found THEN [layout |-> layout, read |-> read, damage |-> damage,
                                       written |-> written, tau |-> tau, shift |-> shift]
                         ELSE NoUnitSent
              /\ rx' = IF found THEN [Idle EXCEPT !.state = "HEADER", !.cycle = first_cycle, !.wanted = 243]
                       ELSE Idle
              /\ overrun' = IF found THEN 0 ELSE Max({0, overrun - pause - Last(written)})
              /\ lost' = [before |-> damage # "none",
                          damaged |-> lost.damaged + (IF damage = "none" THEN 0 ELSE 1),
                          without_cause |-> lost.without_cause \/ (~found /\ damage # "marker" /\ ~lost.before)]
    /\ UNCHANGED <<errors, unpack>>

(* What is left of a unit, and the pairs of its last group that are still  *)
(* passed on, is over long before a marker has been seen.                  *)
UnitOver == rx' = Idle /\ line' = NoUnitSent /\ unpack' = NoGroups

(* The clock at which the byte wanted is taken; the one after it.          *)
Waits == rx.wanted >= rx.cycle
ClockAfter == rx.cycle + 2 * ((rx.wanted - rx.cycle) \div 2) + 2
Takes(place) == rx.clean /\ OnLine(place, rx.wanted)

TakeHeader ==
    /\ rx.state = "HEADER" /\ Waits
    /\ rx' = [rx EXCEPT !.cycle = ClockAfter, !.at = @ + 1, !.clean = Takes(rx.at + 1),
                        !.wanted = IF rx.at = 6 THEN 263 ELSE @ + 2,
                        !.state = IF rx.at = 7 THEN "PREP" ELSE @]
    /\ UNCHANGED <<line, errors, unpack, overrun, lost, sent>>

HeadPairs(layout) == (0 - layout.first) % GroupPairs
TailPairs(layout) == (layout.count + layout.first) % GroupPairs
UntilWrap(layout) == LaneRing - ((layout.first + HeadPairs(layout)) % LaneRing)
BulkPairs(layout) == layout.count - HeadPairs(layout) - TailPairs(layout)
Wrapped(layout) == IF BulkPairs(layout) > UntilWrap(layout) THEN BulkPairs(layout) - UntilWrap(layout) ELSE 0
GroupCounts(layout) ==
    << NoneIfEmpty(HeadPairs(layout)), (BulkPairs(layout) - Wrapped(layout)) \div GroupPairs,
       Wrapped(layout) \div GroupPairs, NoneIfEmpty(TailPairs(layout)) >>
TotalGroups(layout) ==
    BulkPairs(layout) \div GroupPairs + NoneIfEmpty(HeadPairs(layout)) + NoneIfEmpty(TailPairs(layout))

(* PREP0, in which a header that cannot be is rejected and any other unit  *)
(* announced, PREP1 and PREP2.                                             *)
Prepare ==
    /\ rx.state = "PREP"
    /\ IF line.damage = "header"
       THEN UnitOver /\ errors' = [errors EXCEPT !.framing = @ + 1]
       ELSE LET groups == GroupCounts(line.read)
                one == groups[1] # 0 \/ groups[2] = 1
                write == IF one THEN 270 ELSE 271
            IN  /\ rx' = [rx EXCEPT !.state = "PAYLOAD", !.cycle = @ + 6, !.layout = line.read,
                                    !.groups = groups, !.fragment = IF groups[1] # 0 THEN 1 ELSE 2,
                                    !.write_cycle = write, !.wanted = write + 1, !.at = HeaderBytes]
                /\ UNCHANGED <<line, unpack, errors>>
    /\ UNCHANGED <<overrun, lost, sent>>

(* The fragment that follows and what it costs to get there.               *)
Following == {f \in rx.fragment + 1 .. 4 : rx.groups[f] # 0}
Skips(f) == (IF rx.fragment < 2 /\ f > 2 THEN 21 ELSE 0) + (IF rx.fragment < 3 /\ f > 3 THEN 18 ELSE 0)
DispatchCost(f) ==
    (CASE f = 2 -> 50 [] f = 3 -> 47 [] f = 4 -> 49) + Skips(f) + (IF rx.groups[f] > 1 THEN 3 ELSE 0)
TrailerHold == <<67, 46, 28, 8>>[rx.fragment]
WithinFragment == rx.group_at + 1 < rx.groups[rx.fragment]
GroupGapAlways == 13                    \* mutant: the loop's set-up cycle is forgotten
GroupGap == 13 + (IF rx.group_at = 0 /\ rx.groups[rx.fragment] >= 3 THEN 1 ELSE 0)
LastHold == IF WithinFragment THEN GroupGap
            ELSE IF Following # {} THEN DispatchCost(Min(Following)) ELSE TrailerHold

LastOfGroup == rx.group_byte = GroupBytes - 1
NextSample ==
    IF rx.group_byte = GroupBytes - 2 THEN rx.write_cycle + 2 + LastHold \div 2
    ELSE IF LastOfGroup THEN rx.write_cycle + LastHold + 1
    ELSE rx.wanted + 2
NextWrite ==
    rx.write_cycle + (IF LastOfGroup /\ (WithinFragment \/ Following # {}) THEN LastHold ELSE 2)

(* link_unpack.v: a group's pairs are passed on, one a clock, while the    *)
(* next group's bytes come.                                                *)
EmitCount(group) ==
    IF group = 0 /\ HeadPairs(rx.layout) # 0 THEN HeadPairs(rx.layout)
    ELSE IF group + 1 = TotalGroups(rx.layout) /\ TailPairs(rx.layout) # 0 THEN TailPairs(rx.layout)
    ELSE GroupPairs
Wrong == -2
Contents(group, clean) ==
    IF clean /\ line.damage \in {"none", "trailer"} /\ rx.layout = line.layout /\ group < Len(GroupsOf(line.layout))
    THEN SubSeq(GroupsOf(line.layout)[group + 1], 1, EmitCount(group))
    ELSE [i \in 1 .. EmitCount(group) |-> Wrong]
LowByte == rx.group_byte < 2 * GroupPairs
FirstPairOf == IF LowByte THEN rx.group_byte \div 2 ELSE 2 * (rx.group_byte - 2 * GroupPairs)

(* Pair j of the group before is read j + 1 clocks after that was complete:*)
(* is it overwritten by then, or the group not done when this one is?      *)
ClocksSince == (rx.cycle + 2 * ((rx.wanted - rx.cycle) \div 2) - unpack.at) \div 2
Overwrites == \/ FirstPairOf < unpack.emitting /\ ClocksSince < FirstPairOf + 1
              \/ LastOfGroup /\ ClocksSince <= unpack.emitting
Unpack(clean) ==
    IF ~LastOfGroup THEN [unpack EXCEPT !.overwritten = @ \/ Overwrites]
    ELSE [pairs |-> unpack.pairs \o Contents(unpack.group, clean), group |-> unpack.group + 1,
          lasts |-> unpack.lasts + (IF unpack.group + 1 = TotalGroups(rx.layout) THEN 1 ELSE 0),
          emitting |-> EmitCount(unpack.group), at |-> ClockAfter - 2,
          overwritten |-> unpack.overwritten \/ Overwrites]

TakePayload ==
    /\ rx.state = "PAYLOAD" /\ Waits
    /\ LET clean == Takes(rx.at + 1)
           next == [rx EXCEPT !.cycle = ClockAfter, !.at = @ + 1, !.clean = clean, !.wanted = NextSample,
                              !.write_cycle = NextWrite, !.group_byte = IF LastOfGroup THEN 0 ELSE @ + 1]
       IN  /\ unpack' = Unpack(clean)
           /\ rx' = IF ~LastOfGroup THEN next
                    ELSE IF WithinFragment THEN [next EXCEPT !.group_at = @ + 1]
                    ELSE IF Following # {} THEN [next EXCEPT !.fragment = Min(Following), !.group_at = 0]
                    ELSE [next EXCEPT !.state = "TRAILER"]
    /\ UNCHANGED <<line, errors, overrun, lost, sent>>

(* The checksum and the end marker are right for a unit read as it was     *)
(* sent.  The receiver is IDLE again after the unit's end, or before it.   *)
AsSent == Takes(rx.at + 1) /\ line.damage = "none"
TakeTrailer ==
    /\ rx.state = "TRAILER" /\ Waits
    /\ IF rx.group_byte < TrailerBytes - 1
       THEN /\ rx' = [rx EXCEPT !.cycle = ClockAfter, !.at = @ + 1, !.clean = Takes(rx.at + 1),
                                !.wanted = @ + 2, !.group_byte = @ + 1]
            /\ UNCHANGED <<line, unpack, errors, overrun>>
       ELSE /\ UnitOver
            /\ errors' = [errors EXCEPT !.wrong = @ + (IF AsSent THEN 0 ELSE 1)]
            /\ overrun' = Max({0, ClockAfter + line.shift - (Last(line.written) + 2)})
    /\ UNCHANGED <<lost, sent>>

(* acq_clear, at any time. *)
ClearLane ==
    /\ UnitOver /\ errors' = NoErrors /\ overrun' = 0
    /\ lost' = [lost EXCEPT !.damaged = 0]
    /\ UNCHANGED sent

LaneNext ==
    \/ rx.state = "IDLE" /\ sent < MaxSent
       /\ \E layout \in Layouts, damage \in Damages : \E read \in DamagedLayouts \cup {layout} : SendUnit(layout, damage, read)
    \/ TakeHeader \/ Prepare \/ TakePayload \/ TakeTrailer \/ ClearLane

-----------------------------------------------------------------------------
(* The receiver never waits for a cycle that has passed, and a group is    *)
(* passed on before the next one is written over it.                       *)
InTime == (rx.state \in {"HEADER", "PAYLOAD", "TRAILER"} => Waits) /\ ~unpack.overwritten

(* A unit that was sent undamaged is read byte by byte at the places it    *)
(* was written, whatever its layout, the phase of the line and the half of *)
(* the clock (transmit.S and link_lane.v mirror each other by hand), and   *)
(* exactly its pairs are passed on.  Any unit that was announced, damaged  *)
(* or not, has as many pairs as announced and one last one, which is what  *)
(* the reorder relies on.                                                  *)
UnitsExact ==
    rx.state = "TRAILER" =>
        /\ Len(unpack.pairs) = rx.layout.count /\ unpack.lasts = 1
        /\ line.damage \in {"none", "trailer"} =>
               rx.clean /\ unpack.pairs = [i \in 1 .. line.layout.count |-> i - 1]

(* A damaged unit costs itself and at most the one after it, and without   *)
(* damage nothing is counted as an error.                                  *)
LossLocal == ~lost.without_cause /\ errors.wrong + errors.framing <= lost.damaged

LaneSound == InTime /\ UnitsExact /\ LossLocal
=============================================================================
