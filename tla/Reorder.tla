------------------------------ MODULE Reorder ------------------------------
(***************************************************************************)
(* The FPGA's merge of the two link lanes into chronological order         *)
(* (fpga/rtl/reorder.v), with the two lane receivers as its environment    *)
(* (esp32s3/src/capture.c sends, fpga/rtl/link_lane.v receives).           *)
(*                                                                         *)
(* A pair is its number since the start of the run.  Unit n is sent on     *)
(* lane n % 2 and covers the pairs cuts[n+1] .. cuts[n+2] - 1; its header  *)
(* gives n, the ring index of its first pair and its length.  A header may *)
(* be lost with its pairs, or misread.  Sequence numbers are compared by   *)
(* the sign of their 32-bit difference, so they are plain integers here.   *)
(* One clock of the merge, of a lane's drop or of a lane's arrival is a    *)
(* step; they interleave in any order.                                     *)
(***************************************************************************)
EXTENDS Integers, Sequences

CONSTANTS Ring,             \* RING: pairs in a turn of the ESP's ring
          MinPairs,         \* LINK_MIN_PAIRS
          MaxPairs,         \* LINK_MAX_PAIRS
          AnyPlace,         \* units ahead from which any ring position fits (16)
          Far,              \* FAR
          Depth,            \* pairs a lane's queue holds (1 << ADDR_BITS)
          ConfirmLevel,     \* CONFIRM_LEVEL
          Prompt,           \* TRUE: the merge settles between two arrivals
          Units,            \* bound: units in the run
          MaxLost,          \* bound: headers lost
          MaxMisread,       \* bound: headers misread
          Misreadings,      \* bound: by how much a sequence number is misread
          NoUnit, NoPair, NoSkip

ASSUME ReorderAssumption ==
    /\ Ring \in Nat \ {0} /\ MinPairs \in Nat \ {0} /\ MaxPairs \in Nat
    /\ MinPairs <= MaxPairs /\ MaxPairs < Ring
    /\ AnyPlace \in Nat /\ Far \in Nat /\ Depth \in Nat /\ ConfirmLevel \in Nat
    /\ Prompt \in BOOLEAN /\ Units \in Nat /\ MaxLost \in Nat /\ MaxMisread \in Nat
    /\ Misreadings \subseteq Int
    /\ NoUnit \notin [next : Nat, sent : Nat, count : Nat, heard : BOOLEAN]
    /\ NoPair \notin Nat /\ NoSkip \notin Nat

Lanes == {0, 1}

VARIABLES
    cuts, sending, faults,      \* the sender: where units start, what a lane sends
    units, pairs, overflowed,   \* the lane queues
    state, dropping, view, next_sequence, last_end, resume, gap,   \* the merge
    out, skip,                  \* its outputs
    lost_units, discarded_units,
    position,                   \* ghost: pairs delivered and skipped
    taken,                      \* ghost: the misread units delivered or resumed at
    ambiguous                   \* ghost: a gap was of so many units that their
                                \* lengths may differ by a turn of the ring

sender  == <<cuts, sending, faults>>
queues  == <<units, pairs, overflowed>>
merge   == <<state, view, next_sequence, last_end, resume, gap>>
outputs == <<out, skip, position>>
counts  == <<lost_units, discarded_units>>
ghosts  == <<taken, ambiguous>>
vars == <<sender, queues, merge, dropping, outputs, counts, ghosts>>

NoView == [stale |-> {}, expected |-> FALSE, disagree |-> FALSE, present |-> {},
           next_dropping |-> FALSE, earliest |-> 0, near |-> FALSE, filling |-> FALSE,
           beyond |-> FALSE, unit |-> NoUnit]
NoGap == [units |-> 0, pairs |-> 0, minimum |-> 0]

Init ==
    /\ cuts = <<0>> /\ sending = [l \in Lanes |-> NoUnit]
    /\ faults = [lost |-> 0, misread |-> 0]
    /\ units = [l \in Lanes |-> <<>>] /\ pairs = [l \in Lanes |-> <<>>] /\ overflowed = FALSE
    /\ state = "SELECT" /\ dropping = {} /\ view = NoView
    /\ next_sequence = 0 /\ last_end = 0 /\ resume = NoUnit /\ gap = NoGap
    /\ out = NoPair /\ skip = NoSkip /\ position = 0
    /\ lost_units = 0 /\ discarded_units = 0 /\ taken = {} /\ ambiguous = FALSE
-----------------------------------------------------------------------------
(* Classification of the announced units. *)
InRing(i) == i % Ring
LaneOf(n) == n % 2
Other(l) == 1 - l

Misread(u) == u.sequence # u.number \/ u.first # InRing(cuts[u.number + 1])

PresentAny == {l \in Lanes : units[l] # <<>>}    \* mutant: a unit being dropped counts
Present == {l \in Lanes : units[l] # <<>>} \ dropping
Ahead(l) == Head(units[l]).sequence - next_sequence
Behind(l) == Ahead(l) < 0
Near(l) == Ahead(l) \in 0 .. 2
Beyond(l) == Ahead(l) < 0 \/ Ahead(l) > Far
Placed(l) ==
    LET d    == Ahead(l)
        back == InRing(last_end - Head(units[l]).first)
    IN  \/ d \notin 0 .. AnyPlace - 1
        \/ back \in d * (Ring - MaxPairs) .. d * (Ring - MinPairs)
FarApart ==
    LET distance == Head(units[0]).sequence - Head(units[1]).sequence
    IN  distance > Far \/ -distance > Far
Earliest ==
    IF 1 \in Present /\ (0 \in Present =>
                            Head(units[0]).sequence >= Head(units[1]).sequence)
    THEN 1 ELSE 0
FillingFull(l) == Len(pairs[l]) >= Depth    \* mutant: a minimum unit does not get there
Filling(l) == Len(pairs[l]) >= ConfirmLevel

\* What the registers of the classification hold after a clock of SELECT.
Classified ==
    IF Present = {}
    THEN [NoView EXCEPT !.next_dropping = LaneOf(next_sequence) \in dropping]
    ELSE LET e == Earliest IN
         [stale         |-> {l \in Present : Behind(l) \/ ~Placed(l)},
          expected      |-> LaneOf(next_sequence) \in Present /\ Ahead(LaneOf(next_sequence)) = 0,
          disagree      |-> Present = Lanes /\ FarApart,
          present       |-> Present,
          next_dropping |-> LaneOf(next_sequence) \in dropping,
          earliest      |-> e,
          near          |-> Near(e),
          filling       |-> Filling(e),
          beyond        |-> Beyond(e),
          unit          |-> Head(units[e])]

\* The decision on a registered view: which lanes to drop, whether to drain
\* or to resume after a gap.
OutlierEarliest(v) == v.earliest     \* mutant: the lane with the smaller sequence
Outlier(v) == Other(v.earliest)
LoneBeyondNever(v) == FALSE          \* mutant: no confirmation is asked for
LoneBeyond(v) == /\ v.present # {} /\ v.present # Lanes /\ ~v.next_dropping
                 /\ ~v.near /\ v.filling /\ v.beyond
DropSet(v) ==
    IF v.stale # {} THEN v.stale
    ELSE IF v.expected THEN {}
    ELSE IF v.disagree THEN {Outlier(v)}
    ELSE IF LoneBeyond(v) THEN {v.earliest} ELSE {}
Resumes(v) ==
    /\ v.present # {} /\ ~v.next_dropping
    /\ v.near \/ v.present = Lanes \/ v.filling
-----------------------------------------------------------------------------
(* The merge. *)
Select ==
    /\ state = "SELECT" /\ out = NoPair
    /\ state' = "DECIDE" /\ view' = Classified
    /\ UNCHANGED <<sender, queues, dropping, next_sequence, last_end, resume, gap, outputs,
                   counts, ghosts>>

Decide ==
    /\ state = "DECIDE" /\ view' = NoView
    /\ dropping' = dropping \cup DropSet(view)
    /\ LET decided == DropSet(view) = {} IN
       /\ state' = IF decided /\ view.expected THEN "DRAIN"
                   ELSE IF decided /\ Resumes(view) THEN "GAP" ELSE "SELECT"
       /\ resume' = IF state' = "GAP" THEN view.unit ELSE NoUnit
       /\ taken' = taken \cup
              {u \in (IF state' = "DRAIN" THEN {Head(units[LaneOf(next_sequence)])}
                      ELSE IF state' = "GAP" THEN {view.unit} ELSE {}) : Misread(u)}
    /\ UNCHANGED <<sender, queues, next_sequence, last_end, gap, outputs, counts, ambiguous>>

PopUnit(l) == IF Head(pairs[l]).last /\ units[l] # <<>>
              THEN units' = [units EXCEPT ![l] = Tail(@)] ELSE UNCHANGED units
PopPair(l) == pairs' = [pairs EXCEPT ![l] = Tail(@)]

Drain ==
    LET l == LaneOf(next_sequence) IN
    /\ state = "DRAIN" /\ out = NoPair /\ pairs[l] # <<>>
    /\ out' = Head(pairs[l]).index
    /\ PopPair(l) /\ PopUnit(l)
    /\ IF Head(pairs[l]).last
       THEN /\ last_end' = InRing(Head(units[l]).first + Head(units[l]).count)
            /\ next_sequence' = next_sequence + 1
            /\ state' = "SELECT"
       ELSE UNCHANGED <<last_end, next_sequence, state>>
    /\ UNCHANGED <<sender, overflowed, dropping, view, resume, gap, skip, position, counts, ghosts>>

MeasureGap ==
    /\ state = "GAP" /\ state' = "SKIP"
    /\ LET missing == resume.sequence - next_sequence IN
       /\ gap' = [units |-> missing, pairs |-> InRing(resume.first - last_end),
                  minimum |-> missing * MinPairs]
       /\ ambiguous' = (ambiguous \/ missing * (MaxPairs - MinPairs) >= Ring)
    /\ UNCHANGED <<sender, queues, dropping, view, next_sequence, last_end, resume, outputs,
                   counts, taken>>

ShortNever == FALSE     \* mutant: never adds a turn
Short == gap.pairs < gap.minimum
Widen ==
    /\ state = "SKIP" /\ Short
    /\ gap' = [gap EXCEPT !.pairs = @ + Ring]
    /\ UNCHANGED <<sender, queues, state, dropping, view, next_sequence, last_end, resume,
                   outputs, counts, ghosts>>

OfferSkip ==
    /\ state = "SKIP" /\ ~Short /\ skip = NoSkip
    /\ skip' = gap.pairs
    /\ UNCHANGED <<sender, queues, merge, dropping, out, position, counts, ghosts>>

\* The encoder accepts the skip.
FinishSkip ==
    /\ state = "SKIP" /\ skip # NoSkip
    /\ skip' = NoSkip /\ position' = position + skip
    /\ lost_units' = lost_units + gap.units
    /\ last_end' = resume.first /\ next_sequence' = resume.sequence
    /\ resume' = NoUnit /\ gap' = NoGap /\ state' = "SELECT"
    /\ UNCHANGED <<sender, queues, dropping, view, out, discarded_units, ghosts>>

\* The encoder takes the pair in the output register.
TakePair ==
    /\ out # NoPair /\ out' = NoPair /\ position' = position + 1
    /\ UNCHANGED <<sender, queues, merge, dropping, skip, counts, ghosts>>

\* A unit being dropped loses its pairs as they arrive, beside the merge.
Drop(l) ==
    /\ l \in dropping /\ pairs[l] # <<>>
    /\ PopPair(l) /\ PopUnit(l)
    /\ IF Head(pairs[l]).last
       THEN dropping' = dropping \ {l} /\ discarded_units' = discarded_units + 1
       ELSE UNCHANGED <<dropping, discarded_units>>
    /\ UNCHANGED <<sender, overflowed, merge, outputs, lost_units, ghosts>>
-----------------------------------------------------------------------------
(* The lanes.  Headers reach the FPGA in sequence order, both lanes send at *)
(* the same rate, and a lane sends one unit at a time.                      *)
Waiting(v) == DropSet(v) = {} /\ ~v.expected /\ ~Resumes(v)
Settled ==
    /\ out = NoPair /\ skip = NoSkip
    /\ \A l \in dropping : pairs[l] = <<>>
    /\ \/ state = "DRAIN" /\ pairs[LaneOf(next_sequence)] = <<>>
       \/ state = "SELECT" /\ Waiting(Classified)
       \/ state = "DECIDE" /\ Waiting(Classified) /\ view = Classified

Header(n, first, count) == [sequence |-> n, first |-> first, count |-> count, number |-> n]

Start(l, count, heard) ==
    /\ sending[l] = NoUnit /\ LaneOf(Len(cuts) - 1) = l /\ Len(cuts) <= Units
    /\ Prompt => Settled
    /\ LET begin == cuts[Len(cuts)] IN
       /\ cuts' = Append(cuts, begin + count)
       /\ sending' = [sending EXCEPT ![l] =
              [next |-> begin, sent |-> 0, count |-> count, heard |-> heard]]

Announce(l) == \E count \in MinPairs .. MaxPairs :
    /\ Start(l, count, TRUE)
    /\ units' = [units EXCEPT ![l] =
           Append(@, Header(Len(cuts) - 1, InRing(cuts[Len(cuts)]), count))]
    /\ UNCHANGED <<faults, pairs, overflowed, merge, dropping, outputs, counts, ghosts>>

LoseHeader(l) == \E count \in MinPairs .. MaxPairs :
    /\ faults.lost < MaxLost
    /\ Start(l, count, FALSE)
    /\ faults' = [faults EXCEPT !.lost = @ + 1]
    /\ UNCHANGED <<queues, merge, dropping, outputs, counts, ghosts>>

\* A header checked by link_lane.v: the lane's parity and bank must agree, so
\* a misread sequence number is off by a multiple of four.
MisreadHeader(l) ==
    \E count \in MinPairs .. MaxPairs, off \in Misreadings \cup {0}, first \in 0 .. Ring - 1 :
    LET n == Len(cuts) - 1 IN
    /\ faults.misread < MaxMisread
    /\ off # 0 \/ first # InRing(cuts[Len(cuts)])
    /\ Start(l, count, TRUE)
    /\ units' = [units EXCEPT ![l] =
           Append(@, [Header(n, first, count) EXCEPT !.sequence = n + off])]
    /\ faults' = [faults EXCEPT !.misread = @ + 1]
    /\ UNCHANGED <<pairs, overflowed, merge, dropping, outputs, counts, ghosts>>

Room(l) == Len(pairs[l]) < Depth

\* The next pair of the unit lane l sends; a full queue drops it.
Arrive(l) ==
    LET u == sending[l] IN
    /\ u # NoUnit
    /\ Prompt => Settled
    /\ sending[Other(l)] # NoUnit =>
           (sending[Other(l)].next < u.next => u.sent <= sending[Other(l)].sent)
    /\ sending' = [sending EXCEPT ![l] =
           IF u.sent + 1 = u.count THEN NoUnit
           ELSE [u EXCEPT !.sent = @ + 1, !.next = @ + 1]]
    /\ IF u.heard /\ Room(l)
       THEN pairs' = [pairs EXCEPT ![l] =
                Append(@, [index |-> u.next, last |-> u.sent + 1 = u.count])]
       ELSE UNCHANGED pairs
    /\ overflowed' = (overflowed \/ (u.heard /\ ~Room(l)))
    /\ UNCHANGED <<cuts, faults, units, merge, dropping, outputs, counts, ghosts>>

Merge == Select \/ Decide \/ Drain \/ MeasureGap \/ Widen \/ OfferSkip
Encoder == FinishSkip \/ TakePair
Sender(l) == Announce(l) \/ LoseHeader(l) \/ MisreadHeader(l) \/ Arrive(l)

Next == Merge \/ Encoder \/ \E l \in Lanes : Drop(l) \/ Sender(l)

Spec == Init /\ [][Next]_vars

\* The merge is clocked, the encoder keeps up, and a lane finishes the unit
\* it has started; nothing makes it start another.
FairSpec == /\ Spec
            /\ WF_vars(Merge) /\ WF_vars(TakePair) /\ WF_vars(FinishSkip)
            /\ \A l \in Lanes : WF_vars(Drop(l)) /\ WF_vars(Arrive(l))
-----------------------------------------------------------------------------
Headers == [sequence : Int, first : 0 .. Ring - 1, count : MinPairs .. MaxPairs,
            number : 0 .. Units - 1]

\* Every variable has its type (the registers and queues of reorder.v 59-187);
\* the queues never hold more than their memory.
TypeOK ==
    /\ Len(cuts) \in 1 .. Units + 1 /\ \A i \in DOMAIN cuts : cuts[i] \in Nat
    /\ faults \in [lost : 0 .. MaxLost, misread : 0 .. MaxMisread]
    /\ \A l \in Lanes :
        /\ sending[l] # NoUnit =>
               sending[l] \in [next : Nat, sent : 0 .. MaxPairs - 1,
                               count : MinPairs .. MaxPairs, heard : BOOLEAN]
        /\ units[l] \in Seq(Headers)
        /\ pairs[l] \in Seq([index : Nat, last : BOOLEAN]) /\ Len(pairs[l]) <= Depth
    /\ overflowed \in BOOLEAN
    /\ state \in {"SELECT", "DECIDE", "DRAIN", "GAP", "SKIP"}
    /\ dropping \subseteq Lanes
    /\ next_sequence \in Nat /\ last_end \in 0 .. Ring - 1
    /\ resume = NoUnit \/ resume \in Headers
    /\ gap.units \in Nat /\ gap.pairs \in Nat /\ gap.minimum \in Nat
    /\ out = NoPair \/ out \in Nat
    /\ skip = NoSkip \/ skip \in Nat
    /\ lost_units \in Nat /\ discarded_units \in Nat /\ position \in Nat
    /\ ambiguous \in BOOLEAN

\* The run is not reported as corrupt: no misread unit was taken (its header
\* fails the checksum of its lane) and no pair was dropped by a full queue.
\* Nor was any gap ambiguous: it is the missing units that count, not the
\* faults, since behind a misread unit that seems ahead its lane waits, and
\* the good units it holds are missed as well.
Sound == taken = {} /\ ~overflowed /\ ~ambiguous

\* Sample time is kept: whatever headers are lost and whichever misread unit
\* is rejected, every pair comes out at the position it was sampled at, the
\* pairs of missing units being skipped exactly (reorder.v 10-15, SKIP).
InPlace == Sound /\ out # NoPair => out = position

\* Rejecting a misread unit costs only that unit: as long as no misread unit
\* was taken, the unit a lane drops is a misread one (reorder.v 17-23).
OnlyMisreadDropped ==
    Sound => \A l \in dropping : units[l] # <<>> => Misread(Head(units[l]))

\* A unit whose sequence number was misread as more than FAR ahead is never
\* taken: the other lane disagrees with it, or does not confirm it before the
\* queue fills (reorder.v 188-196, 218-229).  Nor is one that does not begin
\* where the unit before it ended, when none was lost (137-146).
MisreadNeverTaken ==
    /\ \A u \in taken : u.sequence - u.number <= Far
    /\ faults.lost = 0 => \A u \in taken : u.sequence # u.number

\* A misread sequence number does no harm beyond its own unit.
MisreadHarmless == OnlyMisreadDropped /\ MisreadNeverTaken

\* What SELECT registered still holds when DECIDE uses it: a lane that was
\* present has the same head announcement and is not being dropped
\* (reorder.v 124-127), whatever arrived or was dropped in between.
ViewCurrent ==
    state = "DECIDE" =>
        /\ view.present \subseteq Present
        /\ view.stale = {l \in view.present : Behind(l) \/ ~Placed(l)}
        /\ view.expected => /\ LaneOf(next_sequence) \in view.present
                            /\ Ahead(LaneOf(next_sequence)) = 0
        /\ view.present # {} => /\ view.earliest \in view.present
                                /\ view.unit = Head(units[view.earliest])

\* The skip offered to the encoder leads from the end of the last unit
\* delivered to the ring position of the unit resumed at, and is the smallest
\* such number of pairs that the missing units can hold (reorder.v 257-270).
SkipFits ==
    skip # NoSkip => /\ InRing(last_end + skip) = resume.first
                     /\ skip >= (resume.sequence - next_sequence) * MinPairs
                     /\ skip - Ring < (resume.sequence - next_sequence) * MinPairs

\* When the merge and the encoder keep up with the lanes, no pair finds its
\* queue full, whatever is lost or misread: the merge never waits for a lane
\* so long that the other one overflows (reorder.v 17-23, 218-229).
NoOverflow == ~overflowed

\* So with a prompt merge the only units lost are those whose headers were
\* lost or misread: none for want of room, none for another one's fault.
OnlyDamagedLost == NoOverflow /\ MisreadHarmless

\* Every announced unit leaves its queue, delivered or dropped: the merge is
\* never stuck waiting for a unit that was lost.
UnitsLeave == \A l \in Lanes : units[l] # <<>> ~> units[l] = <<>>

\* "If the FPGA ever fails to receive a link unit, the stream continues and
\* the loss is reported as an exact gap in sample time" (README.md 20-22):
\* once all units are sent and the merge has settled, everything sent was
\* delivered or skipped.
Finished == /\ Len(cuts) = Units + 1 /\ \A l \in Lanes : sending[l] = NoUnit
            /\ Settled /\ \A l \in Lanes : units[l] = <<>>
LossReported == Finished /\ Sound => position = cuts[Len(cuts)]
=============================================================================
