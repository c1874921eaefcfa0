--------------------------- MODULE ReorderProofs ---------------------------
(***************************************************************************)
(* What DECIDE acts on is current, and what SKIP reports is exact, for     *)
(* every ring size and every length of units.                              *)
(***************************************************************************)
EXTENDS Reorder, TLAPS

\* One number of pairs fits: two gaps of the same ring distance, both at
\* least as long as the missing units and within a turn of that, are equal.
THEOREM GapUnique ==
    ASSUME NEW R \in Nat \ {0}, NEW low \in Nat, NEW p \in Nat, NEW g \in Nat, NEW k \in Int,
           p = g + k * R, low <= p, p < low + R, low <= g, g < low + R
    PROVE  p = g
<1>1. CASE k >= 1
  <2>1. k * R >= R
    BY <1>1
  <2>. QED BY <2>1
<1>2. CASE k <= -1
  <2>1. k * R <= -R
    BY <1>2
  <2>. QED BY <2>1
<1>3. CASE k = 0
  BY <1>3
<1>. QED BY <1>1, <1>2, <1>3

-----------------------------------------------------------------------------
Announced == [sequence : Int, first : 0 .. Ring - 1, count : Nat, number : Nat]

\* What the proofs need of the lanes' queues and of the merge's registers.
QueuesTyped ==
    /\ cuts \in Seq(Nat) /\ cuts # <<>>
    /\ units \in [Lanes -> Seq(Announced)]
    /\ dropping \subseteq Lanes

LEMMA InRingInt == ASSUME NEW i \in Int PROVE InRing(i) \in 0 .. Ring - 1
BY SMT, ReorderAssumption DEF InRing, ReorderAssumption

LEMMA AppendedTyped ==
    ASSUME QueuesTyped, NEW l \in Lanes, NEW n \in Announced,
           units' = [units EXCEPT ![l] = Append(@, n)]
    PROVE  /\ units' \in [Lanes -> Seq(Announced)]
           /\ units' = [m \in Lanes |-> IF m = l THEN Append(units[l], n) ELSE units[m]]
<1>1. units \in [Lanes -> Seq(Announced)]
  BY DEF QueuesTyped
<1>2. Append(units[l], n) \in Seq(Announced)
  BY <1>1
<1>. QED BY <1>1, <1>2

\* Appending a later unit leaves the head announcements as they are.
LEMMA HeadsKept ==
    ASSUME QueuesTyped, NEW l \in Lanes, NEW n \in Announced,
           units' = [units EXCEPT ![l] = Append(@, n)]
    PROVE  \A m \in Lanes : units[m] # <<>> => units'[m] # <<>> /\ Head(units'[m]) = Head(units[m])
<1>1. units' = [m \in Lanes |-> IF m = l THEN Append(units[l], n) ELSE units[m]]
  BY AppendedTyped
<1>2. units[l] \in Seq(Announced)
  BY DEF QueuesTyped
<1>3. Append(units[l], n) # <<>> /\ (units[l] # <<>> => Head(Append(units[l], n)) = Head(units[l]))
  BY <1>2
<1>. QED BY <1>1, <1>3

LEMMA StartTyped ==
    ASSUME QueuesTyped, NEW l \in Lanes, NEW count \in MinPairs .. MaxPairs, NEW heard \in BOOLEAN,
           Start(l, count, heard)
    PROVE  /\ cuts' \in Seq(Nat) /\ cuts' # <<>>
           /\ cuts[Len(cuts)] \in Nat /\ Len(cuts) - 1 \in Nat
           /\ count \in Nat
<1>1. cuts \in Seq(Nat) /\ cuts # <<>> /\ Len(cuts) \in Nat /\ Len(cuts) >= 1
  BY DEF QueuesTyped
<1>2. cuts[Len(cuts)] \in Nat
  BY <1>1
<1>3. count \in Nat
  BY ReorderAssumption DEF ReorderAssumption
<1>4. cuts' = Append(cuts, cuts[Len(cuts)] + count)
  BY DEF Start
<1>5. cuts[Len(cuts)] + count \in Nat
  BY <1>2, <1>3
<1>6. cuts' \in Seq(Nat) /\ cuts' # <<>>
  BY <1>1, <1>4, <1>5
<1>7. Len(cuts) - 1 \in Nat
  BY <1>1
<1>. QED BY <1>2, <1>3, <1>6, <1>7

-----------------------------------------------------------------------------
(* The queues keep their types. *)
LEMMA PopTyped ==
    ASSUME QueuesTyped, NEW l \in Lanes, PopUnit(l)
    PROVE  units' \in [Lanes -> Seq(Announced)]
<1>1. CASE UNCHANGED units
  BY <1>1 DEF QueuesTyped
<1>2. CASE units[l] # <<>> /\ units' = [units EXCEPT ![l] = Tail(@)]
  <2>1. units[l] \in Seq(Announced)
    BY DEF QueuesTyped
  <2>2. Tail(units[l]) \in Seq(Announced)
    BY <2>1, <1>2
  <2>. QED BY <2>2, <1>2 DEF QueuesTyped
<1>. QED BY <1>1, <1>2 DEF PopUnit

LEMMA HeaderTyped ==
    ASSUME NEW n \in Nat, NEW first \in 0 .. Ring - 1, NEW count \in Nat, NEW off \in Int
    PROVE  /\ Header(n, first, count) \in Announced
           /\ [Header(n, first, count) EXCEPT !.sequence = n + off] \in Announced
BY DEF Header, Announced

LEMMA AnnounceTyped ==
    ASSUME QueuesTyped, NEW l \in Lanes, Announce(l)
    PROVE  /\ QueuesTyped'
           /\ \E n \in Announced : units' = [units EXCEPT ![l] = Append(@, n)]
<1>1. PICK count \in MinPairs .. MaxPairs :
          /\ Start(l, count, TRUE)
          /\ units' = [units EXCEPT ![l] =
                 Append(@, Header(Len(cuts) - 1, InRing(cuts[Len(cuts)]), count))]
          /\ UNCHANGED <<faults, pairs, overflowed, merge, dropping, outputs, counts, ghosts>>
  BY DEF Announce
<1>2. /\ cuts' \in Seq(Nat) /\ cuts' # <<>>
      /\ cuts[Len(cuts)] \in Nat /\ Len(cuts) - 1 \in Nat /\ count \in Nat
  BY <1>1, StartTyped
<1>3. \A i \in Int : InRing(i) \in 0 .. Ring - 1
  BY InRingInt
<1>4. Header(Len(cuts) - 1, InRing(cuts[Len(cuts)]), count) \in Announced
  <2>1. cuts[Len(cuts)] \in Int
    BY <1>2
  <2>. DEFINE first == InRing(cuts[Len(cuts)])
  <2>2. first \in 0 .. Ring - 1
    BY <1>3, <2>1, Zenon
  <2>. HIDE DEF first
  <2>3. Len(cuts) - 1 \in Nat /\ count \in Nat
    BY <1>2
  <2>4. Header(Len(cuts) - 1, first, count) \in Announced
    BY <2>2, <2>3 DEF Header, Announced
  <2>. QED BY <2>4 DEF first
<1>5. units' \in [Lanes -> Seq(Announced)]
  <2>. DEFINE n == Header(Len(cuts) - 1, InRing(cuts[Len(cuts)]), count)
  <2>1. n \in Announced /\ units' = [units EXCEPT ![l] = Append(@, n)]
    BY <1>1, <1>4
  <2>. HIDE DEF n
  <2>. QED BY <2>1, AppendedTyped
<1>6. dropping' \subseteq Lanes
  BY <1>1 DEF QueuesTyped
<1>7. QueuesTyped'
  BY <1>2, <1>5, <1>6 DEF QueuesTyped
<1>. QED BY <1>1, <1>4, <1>7

LEMMA MisreadTyped ==
    ASSUME QueuesTyped, NEW l \in Lanes, MisreadHeader(l)
    PROVE  /\ QueuesTyped'
           /\ \E n \in Announced : units' = [units EXCEPT ![l] = Append(@, n)]
<1>1. PICK count \in MinPairs .. MaxPairs, off \in Misreadings \cup {0}, first \in 0 .. Ring - 1 :
          /\ Start(l, count, TRUE)
          /\ units' = [units EXCEPT ![l] =
                 Append(@, [Header(Len(cuts) - 1, first, count)
                                EXCEPT !.sequence = Len(cuts) - 1 + off])]
          /\ UNCHANGED <<pairs, overflowed, merge, dropping, outputs, counts, ghosts>>
  BY DEF MisreadHeader
<1>2. /\ cuts' \in Seq(Nat) /\ cuts' # <<>>
      /\ Len(cuts) - 1 \in Nat /\ count \in Nat
  BY <1>1, StartTyped
<1>3. off \in Int
  BY ReorderAssumption DEF ReorderAssumption
<1>4. [Header(Len(cuts) - 1, first, count) EXCEPT !.sequence = Len(cuts) - 1 + off] \in Announced
  BY <1>2, <1>3, HeaderTyped
<1>5. units' \in [Lanes -> Seq(Announced)]
  <2>. DEFINE n == [Header(Len(cuts) - 1, first, count) EXCEPT !.sequence = Len(cuts) - 1 + off]
  <2>1. n \in Announced /\ units' = [units EXCEPT ![l] = Append(@, n)]
    BY <1>1, <1>4
  <2>. HIDE DEF n
  <2>. QED BY <2>1, AppendedTyped
<1>6. dropping' \subseteq Lanes
  BY <1>1 DEF QueuesTyped
<1>7. QueuesTyped'
  BY <1>2, <1>5, <1>6 DEF QueuesTyped
<1>. QED BY <1>1, <1>4, <1>7
-----------------------------------------------------------------------------
(* What SELECT registered is still so in DECIDE. *)

\* A step that keeps the head of every lane's announcements, ends no drop of
\* a lane that was present and moves neither the sequence nor the position
\* keeps the view current.
LEMMA ViewKept ==
    ASSUME QueuesTyped, ViewCurrent, state = "DECIDE",
           UNCHANGED <<state, view, next_sequence, last_end>>,
           NEW except \in SUBSET dropping, dropping' \subseteq dropping,
           \A m \in Lanes \ except :
               units[m] # <<>> => units'[m] # <<>> /\ Head(units'[m]) = Head(units[m])
    PROVE  ViewCurrent'
<1>1. /\ view.present \subseteq Lanes /\ view.present \cap dropping = {}
      /\ \A m \in view.present : units[m] # <<>>
  BY DEF ViewCurrent, Present
<1>2. \A m \in view.present : units'[m] # <<>> /\ Head(units'[m]) = Head(units[m])
  BY <1>1
<1>3. (view.present \subseteq Present)'
  BY <1>1, <1>2 DEF Present
<1>4. \A m \in view.present : Ahead(m)' = Ahead(m) /\ (Behind(m)' <=> Behind(m))
                              /\ (Placed(m)' <=> Placed(m))
  BY <1>2 DEF Ahead, Behind, Placed, InRing
<1>5. (view.stale = {l \in view.present : Behind(l) \/ ~Placed(l)})'
  BY <1>4 DEF ViewCurrent
<1>6. (view.expected => /\ LaneOf(next_sequence) \in view.present
                        /\ Ahead(LaneOf(next_sequence)) = 0)'
  <2>1. view.expected => /\ LaneOf(next_sequence) \in view.present
                         /\ Head(units[LaneOf(next_sequence)]).sequence - next_sequence = 0
    BY DEF ViewCurrent, Ahead
  <2>2. LaneOf(next_sequence)' = LaneOf(next_sequence)
    BY DEF LaneOf
  <2>3. view.expected => /\ LaneOf(next_sequence) \in view.present
                         /\ Head(units'[LaneOf(next_sequence)]).sequence - next_sequence = 0
    BY <1>2, <2>1
  <2>. QED BY <2>2, <2>3 DEF Ahead
<1>7. (view.present # {} => /\ view.earliest \in view.present
                            /\ view.unit = Head(units[view.earliest]))'
  BY <1>2 DEF ViewCurrent
<1>. QED BY <1>3, <1>5, <1>6, <1>7 DEF ViewCurrent

LEMMA EarliestPresent == ASSUME Present # {} PROVE Earliest \in Present
<1>1. Present \subseteq {0, 1}
  BY DEF Present, Lanes
<1>2. CASE Earliest = 1
  BY <1>2 DEF Earliest
<1>3. CASE Earliest = 0
  BY <1>1, <1>3 DEF Earliest
<1>. QED BY <1>2, <1>3 DEF Earliest

LEMMA SelectCurrent == ASSUME Select PROVE ViewCurrent'
<1>1. /\ view' = Classified
      /\ UNCHANGED <<units, dropping, next_sequence, last_end>>
  BY DEF Select, queues
<1>2. CASE Present = {}
  <2>1. view'.present = {} /\ view'.stale = {} /\ view'.expected = FALSE
    BY <1>1, <1>2 DEF Classified, NoView
  <2>. QED BY <2>1 DEF ViewCurrent
<1>3. CASE Present # {}
  <2>1. /\ view'.stale = {l \in Present : Behind(l) \/ ~Placed(l)}
        /\ view'.expected = (LaneOf(next_sequence) \in Present /\ Ahead(LaneOf(next_sequence)) = 0)
        /\ view'.present = Present /\ view'.earliest = Earliest
        /\ view'.unit = Head(units[Earliest])
    BY <1>1, <1>3 DEF Classified
  <2>2. (view.present \subseteq Present)'
    BY <1>1, <2>1 DEF Present
  <2>3. \A l : Ahead(l)' = Ahead(l) /\ (Behind(l)' <=> Behind(l)) /\ (Placed(l)' <=> Placed(l))
    BY <1>1 DEF Ahead, Behind, Placed, InRing
  <2>4. (view.stale = {l \in view.present : Behind(l) \/ ~Placed(l)})'
    BY <2>1, <2>3
  <2>5. (view.expected => /\ LaneOf(next_sequence) \in view.present
                          /\ Ahead(LaneOf(next_sequence)) = 0)'
    BY <1>1, <2>1 DEF LaneOf, Ahead
  <2>6. (view.present # {} => /\ view.earliest \in view.present
                              /\ view.unit = Head(units[view.earliest]))'
    BY <1>1, <1>3, <2>1, EarliestPresent
  <2>. QED BY <2>2, <2>4, <2>5, <2>6 DEF ViewCurrent
<1>. QED BY <1>2, <1>3
-----------------------------------------------------------------------------
(* Ring arithmetic. *)
LEMMA RingDivision ==
    ASSUME NEW i \in Int
    PROVE  \E k \in Int : i = InRing(i) + k * Ring
<1>1. Ring \in Int /\ Ring > 0
  BY ReorderAssumption DEF ReorderAssumption
<1>2. i = (i % Ring) + (i \div Ring) * Ring /\ (i \div Ring) \in Int
  BY <1>1
<1>. QED BY <1>2 DEF InRing

LEMMA RingUnique ==
    ASSUME NEW i \in Int, NEW r \in 0 .. Ring - 1, NEW k \in Int, i = r + k * Ring
    PROVE  InRing(i) = r
<1>1. Ring \in Nat \ {0}
  BY ReorderAssumption DEF ReorderAssumption
<1>2. InRing(i) \in 0 .. Ring - 1
  BY InRingInt
<1>3. PICK j \in Int : i = InRing(i) + j * Ring
  BY RingDivision
<1>4. InRing(i) = r + (k - j) * Ring
  BY <1>1, <1>2, <1>3
<1>. DEFINE m == k - j
<1>5. m \in Int /\ InRing(i) = r + m * Ring
  BY <1>4
<1>. HIDE DEF m
<1>. DEFINE p == InRing(i)
<1>6. p \in Nat /\ r \in Nat /\ 0 \in Nat /\ p < 0 + Ring /\ r < 0 + Ring /\ 0 <= p /\ 0 <= r
  BY <1>1, <1>2
<1>7. p = r + m * Ring
  BY <1>5
<1>. HIDE DEF p
<1>8. p = r
  BY ONLY <1>1, <1>5, <1>6, <1>7, GapUnique
<1>. QED BY <1>8 DEF p

\* The distance from a to f leads from a to f, whatever turns are added.
LEMMA DistanceLeads ==
    ASSUME NEW a \in Int, NEW f \in 0 .. Ring - 1
    PROVE  InRing(a + InRing(f - a)) = f
<1>1. Ring \in Nat \ {0} /\ InRing(f - a) \in 0 .. Ring - 1
  BY InRingInt, ReorderAssumption DEF ReorderAssumption
<1>2. PICK k \in Int : f - a = InRing(f - a) + k * Ring
  BY RingDivision
<1>. DEFINE i == a + InRing(f - a)
            j == -k
<1>3. i \in Int /\ j \in Int /\ i = f + j * Ring
  BY <1>1, <1>2
<1>. HIDE DEF i, j
<1>4. InRing(i) = f
  BY <1>3, RingUnique
<1>. QED BY <1>4 DEF i

LEMMA TurnLeads ==
    ASSUME NEW i \in Int
    PROVE  InRing(i + Ring) = InRing(i)
<1>1. Ring \in Nat \ {0} /\ InRing(i) \in 0 .. Ring - 1
  BY InRingInt, ReorderAssumption DEF ReorderAssumption
<1>2. PICK k \in Int : i = InRing(i) + k * Ring
  BY RingDivision
<1>3. i + Ring = InRing(i) + (k + 1) * Ring /\ k + 1 \in Int
  BY <1>1, <1>2
<1>. QED BY <1>1, <1>3, RingUnique
-----------------------------------------------------------------------------
(* The inductive invariant. *)
Positions == next_sequence \in Nat /\ last_end \in 0 .. Ring - 1

\* DRAIN has a unit to drain, which the lane is not dropping.
DrainReady == state = "DRAIN" => LaneOf(next_sequence) \in Present

GapFits ==
    /\ state \in {"GAP", "SKIP"} => resume \in Announced /\ resume.sequence >= next_sequence
    /\ state = "SKIP" => /\ gap.minimum = (resume.sequence - next_sequence) * MinPairs
                         /\ gap.pairs \in Int
                         /\ InRing(last_end + gap.pairs) = resume.first
                         /\ gap.pairs - Ring < gap.minimum
    /\ skip # NoSkip => state = "SKIP" /\ skip = gap.pairs /\ ~Short

ViewTyped == view.earliest \in Lanes

IInv == QueuesTyped /\ ViewTyped /\ ViewCurrent /\ Positions /\ DrainReady /\ GapFits

LEMMA InitIInv == Init => IInv
<1>. SUFFICES ASSUME Init PROVE IInv
  OBVIOUS
<1>1. QueuesTyped
  BY DEF Init, QueuesTyped
<1>2. ViewCurrent /\ DrainReady /\ GapFits
  BY DEF Init, ViewCurrent, DrainReady, GapFits
<1>3. Positions
  BY ReorderAssumption DEF Init, Positions, ReorderAssumption
<1>4. ViewTyped
  BY DEF Init, ViewTyped, NoView, Lanes
<1>. QED BY <1>1, <1>2, <1>3, <1>4 DEF IInv

\* A unit shown by an undropped view is not behind the next one.
LEMMA ShownAhead ==
    ASSUME QueuesTyped, ViewCurrent, Positions, state = "DECIDE",
           DropSet(view) = {}, Resumes(view)
    PROVE  view.unit \in Announced /\ view.unit.sequence >= next_sequence
<1>1. view.present # {} /\ view.stale = {}
  BY DEF Resumes, DropSet
<1>2. /\ view.earliest \in view.present /\ view.unit = Head(units[view.earliest])
      /\ view.earliest \in Lanes /\ units[view.earliest] # <<>>
  BY <1>1 DEF ViewCurrent, Present
<1>3. Head(units[view.earliest]) \in Announced
  <2>1. units[view.earliest] \in Seq(Announced)
    BY <1>2 DEF QueuesTyped
  <2>. QED BY <1>2, <2>1
<1>4. ~Behind(view.earliest)
  BY <1>1, <1>2 DEF ViewCurrent
<1>5. Head(units[view.earliest]).sequence \in Int /\ next_sequence \in Int
  BY <1>3 DEF Announced, Positions
<1>. QED BY <1>2, <1>3, <1>4, <1>5 DEF Behind, Ahead

LEMMA DecideIInv == ASSUME IInv, Decide PROVE IInv'
<1>1. /\ state = "DECIDE"
      /\ state' = IF DropSet(view) = {} /\ view.expected THEN "DRAIN"
                  ELSE IF DropSet(view) = {} /\ Resumes(view) THEN "GAP" ELSE "SELECT"
      /\ resume' = IF state' = "GAP" THEN view.unit ELSE NoUnit
      /\ dropping' = dropping \cup DropSet(view)
      /\ UNCHANGED <<cuts, units, next_sequence, last_end, skip, gap>>
      /\ view' = NoView
  BY DEF Decide, sender, queues, outputs
<1>2. QueuesTyped'
  <2>1. view.stale \subseteq Lanes /\ view.earliest \in {0, 1}
    BY <1>1 DEF IInv, ViewCurrent, Present, ViewTyped, Lanes
  <2>2. DropSet(view) \subseteq Lanes
    BY <2>1 DEF DropSet, Outlier, Other, Lanes
  <2>. QED BY <1>1, <2>2 DEF IInv, QueuesTyped
<1>3. ViewCurrent'
  BY <1>1 DEF ViewCurrent
<1>4. Positions'
  BY <1>1 DEF IInv, Positions
<1>5. DrainReady'
  <2>. SUFFICES ASSUME state' = "DRAIN" PROVE LaneOf(next_sequence) \in Present'
    BY <1>1 DEF DrainReady, LaneOf
  <2>1. DropSet(view) = {} /\ view.expected
    BY <1>1
  <2>2. LaneOf(next_sequence) \in Present
    BY <1>1, <2>1 DEF IInv, ViewCurrent
  <2>. QED BY <1>1, <2>1, <2>2 DEF Present
<1>6. GapFits'
  <2>1. skip' = NoSkip /\ state' # "SKIP"
    BY <1>1 DEF IInv, GapFits
  <2>2. state' = "GAP" => resume' \in Announced /\ resume'.sequence >= next_sequence'
    BY <1>1, ShownAhead DEF IInv
  <2>. QED BY <1>1, <2>1, <2>2 DEF GapFits
<1>7. ViewTyped'
  BY <1>1 DEF ViewTyped, NoView, Lanes
<1>. QED BY <1>2, <1>3, <1>4, <1>5, <1>6, <1>7 DEF IInv
LEMMA SelectIInv == ASSUME IInv, Select PROVE IInv'
<1>1. /\ state = "SELECT" /\ state' = "DECIDE" /\ view' = Classified
      /\ UNCHANGED <<cuts, units, dropping, next_sequence, last_end, skip, gap, resume>>
  BY DEF Select, sender, queues, outputs
<1>2. QueuesTyped' /\ Positions'
  BY <1>1 DEF IInv, QueuesTyped, Positions
<1>3. ViewCurrent'
  BY SelectCurrent
<1>4. DrainReady' /\ GapFits'
  BY <1>1 DEF IInv, DrainReady, GapFits
<1>5. ViewTyped'
  BY <1>1 DEF ViewTyped, Classified, NoView, Earliest, Lanes
<1>. QED BY <1>2, <1>3, <1>4, <1>5 DEF IInv

\* Popping lane l leaves what the other lane has announced.
LEMMA PopOther ==
    ASSUME QueuesTyped, NEW l \in Lanes, PopUnit(l)
    PROVE  \A m \in Lanes \ {l} : units'[m] = units[m]
BY DEF PopUnit, QueuesTyped

LEMMA DrainIInv == ASSUME IInv, Drain PROVE IInv'
<1>. DEFINE l == LaneOf(next_sequence)
<1>1. /\ state = "DRAIN" /\ PopUnit(l) /\ UNCHANGED <<cuts, dropping, view, resume, gap, skip>>
      /\ IF Head(pairs[l]).last
         THEN /\ last_end' = InRing(Head(units[l]).first + Head(units[l]).count)
              /\ next_sequence' = next_sequence + 1
              /\ state' = "SELECT"
         ELSE UNCHANGED <<last_end, next_sequence, state>>
  BY DEF Drain, sender
<1>2. l \in Present /\ l \in Lanes /\ units[l] # <<>>
  BY <1>1 DEF IInv, DrainReady, Present
<1>3. QueuesTyped'
  <2>1. units' \in [Lanes -> Seq(Announced)]
    BY <1>1, <1>2, PopTyped DEF IInv
  <2>. QED BY <1>1, <2>1 DEF IInv, QueuesTyped
<1>4. state' # "DECIDE" /\ state' # "GAP" /\ state' # "SKIP"
  BY <1>1
<1>5. Positions'
  <2>1. CASE Head(pairs[l]).last
    <3>1. Head(units[l]) \in Announced
      <4>1. units[l] \in Seq(Announced)
        BY <1>2 DEF IInv, QueuesTyped
      <4>. QED BY <1>2, <4>1
    <3>2. Head(units[l]).first + Head(units[l]).count \in Int
      BY <3>1, ReorderAssumption DEF Announced, ReorderAssumption
    <3>3. InRing(Head(units[l]).first + Head(units[l]).count) \in 0 .. Ring - 1
      BY <3>2, InRingInt
    <3>. QED BY <1>1, <2>1, <3>3 DEF IInv, Positions
  <2>2. CASE ~Head(pairs[l]).last
    BY <1>1, <2>2 DEF IInv, Positions
  <2>. QED BY <2>1, <2>2
<1>6. DrainReady'
  <2>1. CASE Head(pairs[l]).last
    BY <1>1, <2>1 DEF DrainReady
  <2>2. CASE ~Head(pairs[l]).last
    BY <1>1, <1>2, <2>2 DEF DrainReady, Present, LaneOf, PopUnit
  <2>. QED BY <2>1, <2>2
<1>7. GapFits'
  BY <1>1, <1>4 DEF IInv, GapFits
<1>. QED BY <1>1, <1>3, <1>4, <1>5, <1>6, <1>7 DEF IInv, ViewCurrent, ViewTyped

LEMMA MissingInt ==
    ASSUME Positions, resume \in Announced, resume.sequence >= next_sequence
    PROVE  /\ resume.sequence \in Nat /\ resume.first \in 0 .. Ring - 1
           /\ (resume.sequence - next_sequence) * MinPairs \in Nat
<1>1. /\ resume.sequence \in Int /\ next_sequence \in Nat /\ MinPairs \in Nat
      /\ resume.first \in 0 .. Ring - 1
  BY ReorderAssumption DEF Announced, Positions, ReorderAssumption
<1>2. resume.sequence - next_sequence \in Nat
  BY <1>1
<1>3. (resume.sequence - next_sequence) * MinPairs \in Nat
  BY <1>1, <1>2
<1>. QED BY <1>1, <1>3

LEMMA MeasureGapIInv == ASSUME IInv, MeasureGap PROVE IInv'
<1>1. /\ state = "GAP" /\ state' = "SKIP"
      /\ gap' = [units |-> resume.sequence - next_sequence,
                 pairs |-> InRing(resume.first - last_end),
                 minimum |-> (resume.sequence - next_sequence) * MinPairs]
      /\ UNCHANGED <<cuts, units, dropping, view, next_sequence, last_end, resume, skip>>
  BY DEF MeasureGap, sender, queues, outputs
<1>2. QueuesTyped' /\ Positions' /\ ViewTyped'
  BY <1>1 DEF IInv, QueuesTyped, Positions, ViewTyped
<1>3. resume \in Announced /\ resume.sequence >= next_sequence
  BY <1>1 DEF IInv, GapFits
<1>4. /\ resume.first \in 0 .. Ring - 1 /\ last_end \in 0 .. Ring - 1
      /\ (resume.sequence - next_sequence) * MinPairs \in Nat
  BY <1>3, MissingInt DEF IInv, Positions
<1>5. /\ InRing(resume.first - last_end) \in 0 .. Ring - 1
      /\ InRing(last_end + InRing(resume.first - last_end)) = resume.first
  <2>1. last_end \in Int /\ resume.first - last_end \in Int
    BY <1>4, ReorderAssumption DEF ReorderAssumption
  <2>. QED BY <1>4, <2>1, InRingInt, DistanceLeads
<1>6. InRing(resume.first - last_end) - Ring < (resume.sequence - next_sequence) * MinPairs
  BY <1>4, <1>5, ReorderAssumption DEF ReorderAssumption
<1>7. skip' = NoSkip
  BY <1>1 DEF IInv, GapFits
<1>8. GapFits'
  BY <1>1, <1>3, <1>5, <1>6, <1>7 DEF GapFits
<1>. QED BY <1>1, <1>2, <1>8 DEF IInv, ViewCurrent, DrainReady

LEMMA WidenIInv == ASSUME IInv, Widen PROVE IInv'
<1>1. /\ state = "SKIP" /\ Short /\ gap' = [gap EXCEPT !.pairs = @ + Ring]
      /\ UNCHANGED <<cuts, units, state, dropping, view, next_sequence, last_end, resume, skip>>
  BY DEF Widen, sender, queues, outputs
<1>2. QueuesTyped' /\ Positions' /\ ViewTyped'
  BY <1>1 DEF IInv, QueuesTyped, Positions, ViewTyped
<1>3. /\ gap.minimum = (resume.sequence - next_sequence) * MinPairs
      /\ gap.pairs \in Int /\ InRing(last_end + gap.pairs) = resume.first
      /\ resume \in Announced /\ resume.sequence >= next_sequence
      /\ gap.pairs < gap.minimum
  BY <1>1 DEF IInv, GapFits, Short
<1>4. gap'.pairs = gap.pairs + Ring /\ gap'.minimum = gap.minimum
  BY <1>1
<1>5. /\ gap.pairs + Ring \in Int /\ gap.pairs + Ring - Ring < gap.minimum
      /\ InRing(last_end + (gap.pairs + Ring)) = resume.first
  <2>1. last_end \in Int /\ Ring \in Int
    BY ReorderAssumption DEF IInv, Positions, ReorderAssumption
  <2>. DEFINE i == last_end + gap.pairs
  <2>2. i \in Int /\ last_end + (gap.pairs + Ring) = i + Ring /\ InRing(i) = resume.first
    BY <1>3, <2>1
  <2>. HIDE DEF i
  <2>3. InRing(i + Ring) = resume.first
    BY <2>2, TurnLeads
  <2>4. gap.pairs + Ring - Ring = gap.pairs
    BY <1>3, <2>1
  <2>. QED BY <1>3, <2>1, <2>2, <2>3, <2>4
<1>6. skip' = NoSkip
  BY <1>1 DEF IInv, GapFits
<1>. HIDE DEF Short
<1>7. GapFits'
  <2>1. /\ gap'.minimum = (resume.sequence - next_sequence) * MinPairs
        /\ gap'.pairs \in Int
        /\ InRing(last_end + gap'.pairs) = resume.first
        /\ gap'.pairs - Ring < gap'.minimum
    <3>1. gap'.minimum = (resume.sequence - next_sequence) * MinPairs
      BY <1>3, <1>4, Zenon
    <3>2. gap'.pairs \in Int /\ InRing(last_end + gap'.pairs) = resume.first
      BY <1>4, <1>5, Zenon
    <3>3. PICK q : q = gap'.pairs
      OBVIOUS
    <3>4. PICK m : m = gap'.minimum
      OBVIOUS
    <3>5. q = gap.pairs + Ring /\ m = gap.minimum
      BY <1>4, <3>3, <3>4
    <3>6. gap.pairs \in Int /\ gap.minimum \in Int /\ Ring \in Int
      BY <1>3, MissingInt, ReorderAssumption DEF IInv, ReorderAssumption
    <3>7. q - Ring < m
      BY <1>3, <3>5, <3>6
    <3>. QED BY <3>1, <3>2, <3>3, <3>4, <3>7
  <2>2. (state = "SKIP" => /\ gap.minimum = (resume.sequence - next_sequence) * MinPairs
                           /\ gap.pairs \in Int
                           /\ InRing(last_end + gap.pairs) = resume.first
                           /\ gap.pairs - Ring < gap.minimum)'
    BY <1>1, <2>1 DEF InRing
  <2>. QED BY <1>1, <1>3, <1>6, <2>2 DEF GapFits
<1>. QED BY <1>1, <1>2, <1>7 DEF IInv, ViewCurrent, DrainReady
LEMMA OfferSkipIInv == ASSUME IInv, OfferSkip PROVE IInv'
<1>1. /\ state = "SKIP" /\ ~Short /\ skip' = gap.pairs
      /\ UNCHANGED <<cuts, units, state, dropping, view, next_sequence, last_end, resume, gap>>
  BY DEF OfferSkip, sender, queues, merge
<1>2. QueuesTyped' /\ Positions' /\ ViewTyped'
  BY <1>1 DEF IInv, QueuesTyped, Positions, ViewTyped
<1>3. GapFits'
  BY <1>1 DEF IInv, GapFits, Short, InRing
<1>. QED BY <1>1, <1>2, <1>3 DEF IInv, ViewCurrent, DrainReady

LEMMA FinishSkipIInv == ASSUME IInv, FinishSkip PROVE IInv'
<1>1. /\ state = "SKIP" /\ state' = "SELECT" /\ skip' = NoSkip
      /\ last_end' = resume.first /\ next_sequence' = resume.sequence
      /\ UNCHANGED <<cuts, units, dropping, view>>
  BY DEF FinishSkip, sender, queues
<1>2. QueuesTyped' /\ ViewTyped'
  BY <1>1 DEF IInv, QueuesTyped, ViewTyped
<1>3. Positions'
  BY <1>1, MissingInt DEF IInv, GapFits, Positions
<1>. QED BY <1>1, <1>2, <1>3 DEF IInv, ViewCurrent, DrainReady, GapFits

\* A step that touches only the queues' ends, the outputs and the ghosts.
LEMMA AppendIInv ==
    ASSUME IInv, QueuesTyped',
           UNCHANGED <<state, dropping, view, next_sequence, last_end, resume, gap, skip>>,
           \A m \in Lanes : units[m] # <<>> => units'[m] # <<>> /\ Head(units'[m]) = Head(units[m])
    PROVE  IInv'
<1>1. ViewTyped' /\ Positions'
  BY DEF IInv, Positions, ViewTyped
<1>2. ViewCurrent'
  <2>1. CASE state = "DECIDE"
    <3>. DEFINE except == {}
    <3>1. except \in SUBSET dropping /\ dropping' \subseteq dropping
      OBVIOUS
    <3>2. \A m \in Lanes \ except :
              units[m] # <<>> => units'[m] # <<>> /\ Head(units'[m]) = Head(units[m])
      OBVIOUS
    <3>. HIDE DEF except
    <3>. QED BY <2>1, <3>1, <3>2, ViewKept DEF IInv
  <2>2. CASE state # "DECIDE"
    BY <2>2 DEF ViewCurrent
  <2>. QED BY <2>1, <2>2
<1>3. DrainReady'
  BY DEF IInv, DrainReady, Present, LaneOf
<1>4. GapFits'
  BY DEF IInv, GapFits, Short, InRing
<1>. QED BY <1>1, <1>2, <1>3, <1>4 DEF IInv

LEMMA TakePairIInv == ASSUME IInv, TakePair PROVE IInv'
<1>1. UNCHANGED <<cuts, units, state, dropping, view, next_sequence, last_end, resume, gap, skip>>
  BY DEF TakePair, sender, queues, merge
<1>2. QueuesTyped'
  BY <1>1 DEF IInv, QueuesTyped
<1>. QED BY <1>1, <1>2, AppendIInv

LEMMA LoseHeaderIInv == ASSUME IInv, NEW l \in Lanes, LoseHeader(l) PROVE IInv'
<1>1. PICK count \in MinPairs .. MaxPairs :
          Start(l, count, FALSE) /\ UNCHANGED <<queues, merge, dropping, outputs, counts, ghosts>>
  BY DEF LoseHeader
<1>2. UNCHANGED <<units, state, dropping, view, next_sequence, last_end, resume, gap, skip>>
  BY <1>1 DEF queues, merge, outputs
<1>3. cuts' \in Seq(Nat) /\ cuts' # <<>>
  BY <1>1, StartTyped DEF IInv
<1>4. QueuesTyped'
  BY <1>2, <1>3 DEF IInv, QueuesTyped
<1>. QED BY <1>2, <1>4, AppendIInv

LEMMA ArriveIInv == ASSUME IInv, NEW l \in Lanes, Arrive(l) PROVE IInv'
<1>1. UNCHANGED <<cuts, units, state, dropping, view, next_sequence, last_end, resume, gap, skip>>
  BY DEF Arrive, merge, outputs
<1>2. QueuesTyped'
  BY <1>1 DEF IInv, QueuesTyped
<1>. QED BY <1>1, <1>2, AppendIInv

LEMMA AnnounceIInv == ASSUME IInv, NEW l \in Lanes, Announce(l) PROVE IInv'
<1>1. UNCHANGED <<state, dropping, view, next_sequence, last_end, resume, gap, skip>>
  BY DEF Announce, merge, outputs
<1>2. QueuesTyped'
  BY AnnounceTyped DEF IInv
<1>3. PICK n \in Announced : units' = [units EXCEPT ![l] = Append(@, n)]
  BY AnnounceTyped DEF IInv
<1>4. \A m \in Lanes : units[m] # <<>> => units'[m] # <<>> /\ Head(units'[m]) = Head(units[m])
  BY <1>3, HeadsKept DEF IInv
<1>. QED BY <1>1, <1>2, <1>4, AppendIInv

LEMMA MisreadHeaderIInv == ASSUME IInv, NEW l \in Lanes, MisreadHeader(l) PROVE IInv'
<1>1. UNCHANGED <<state, dropping, view, next_sequence, last_end, resume, gap, skip>>
  BY DEF MisreadHeader, merge, outputs
<1>2. QueuesTyped'
  BY MisreadTyped DEF IInv
<1>3. PICK n \in Announced : units' = [units EXCEPT ![l] = Append(@, n)]
  BY MisreadTyped DEF IInv
<1>4. \A m \in Lanes : units[m] # <<>> => units'[m] # <<>> /\ Head(units'[m]) = Head(units[m])
  BY <1>3, HeadsKept DEF IInv
<1>. QED BY <1>1, <1>2, <1>4, AppendIInv

LEMMA DropIInv == ASSUME IInv, NEW l \in Lanes, Drop(l) PROVE IInv'
<1>1. /\ l \in dropping /\ PopUnit(l)
      /\ dropping' = dropping \/ dropping' = dropping \ {l}
      /\ UNCHANGED <<cuts, state, view, next_sequence, last_end, resume, gap, skip>>
  BY DEF Drop, sender, merge, outputs
<1>2. QueuesTyped'
  <2>1. units' \in [Lanes -> Seq(Announced)]
    BY PopTyped, <1>1 DEF IInv
  <2>. QED BY <1>1, <2>1 DEF IInv, QueuesTyped
<1>3. \A m \in Lanes \ {l} : units'[m] = units[m]
  BY <1>1, PopOther DEF IInv
<1>4. ViewTyped' /\ Positions'
  BY <1>1 DEF IInv, Positions, ViewTyped
<1>5. ViewCurrent'
  <2>1. CASE state = "DECIDE"
    <3>. DEFINE except == {l}
    <3>1. except \in SUBSET dropping /\ dropping' \subseteq dropping
      BY <1>1
    <3>2. \A m \in Lanes \ except :
              units[m] # <<>> => units'[m] # <<>> /\ Head(units'[m]) = Head(units[m])
      BY <1>3
    <3>. HIDE DEF except
    <3>. QED BY <1>1, <2>1, <3>1, <3>2, ViewKept DEF IInv
  <2>2. CASE state # "DECIDE"
    BY <1>1, <2>2 DEF ViewCurrent
  <2>. QED BY <2>1, <2>2
<1>6. DrainReady'
  <2>. SUFFICES ASSUME state = "DRAIN" PROVE LaneOf(next_sequence) \in Present'
    BY <1>1 DEF DrainReady, LaneOf
  <2>1. LaneOf(next_sequence) \in Present
    BY DEF IInv, DrainReady
  <2>2. LaneOf(next_sequence) # l
    BY <1>1, <2>1 DEF Present
  <2>. QED BY <1>1, <1>3, <2>1, <2>2 DEF Present
<1>7. GapFits'
  BY <1>1 DEF IInv, GapFits, Short, InRing
<1>. QED BY <1>2, <1>4, <1>5, <1>6, <1>7 DEF IInv

LEMMA NextIInv == IInv /\ [Next]_vars => IInv'
<1>. SUFFICES ASSUME IInv, [Next]_vars PROVE IInv'
  OBVIOUS
<1>1. ASSUME Merge PROVE IInv'
  BY <1>1, SelectIInv, DecideIInv, DrainIInv, MeasureGapIInv, WidenIInv, OfferSkipIInv DEF Merge
<1>2. ASSUME Encoder PROVE IInv'
  BY <1>2, FinishSkipIInv, TakePairIInv DEF Encoder
<1>3. ASSUME NEW l \in Lanes, Drop(l) PROVE IInv'
  BY <1>3, DropIInv
<1>4. ASSUME NEW l \in Lanes, Sender(l) PROVE IInv'
  BY <1>4, AnnounceIInv, LoseHeaderIInv, MisreadHeaderIInv, ArriveIInv DEF Sender
<1>5. CASE UNCHANGED vars
  <2>1. UNCHANGED <<cuts, units, state, dropping, view, next_sequence, last_end, resume, gap, skip>>
    BY <1>5 DEF vars, sender, queues, merge, outputs
  <2>2. QueuesTyped'
    BY <2>1 DEF IInv, QueuesTyped
  <2>. QED BY <2>1, <2>2, AppendIInv
<1>. QED BY <1>1, <1>2, <1>3, <1>4, <1>5 DEF Next

THEOREM Invariance == Spec => []IInv
<1>1. Init => IInv
  BY InitIInv
<1>2. IInv /\ [Next]_vars => IInv'
  BY NextIInv
<1>. QED BY <1>1, <1>2, PTL DEF Spec

\* The registered classification is current whenever DECIDE uses it, as the
\* comment at reorder.v 124-127 claims.
THEOREM ViewStaysCurrent == Spec => []ViewCurrent
<1>1. IInv => ViewCurrent
  BY DEF IInv
<1>. QED BY <1>1, Invariance, PTL

\* Every skip leads to the ring position of the unit resumed at and is the
\* smallest that the missing units can hold.
THEOREM SkipsFit == Spec => []SkipFits
<1>1. IInv => SkipFits
  <2>. SUFFICES ASSUME IInv, skip # NoSkip PROVE SkipFits
    BY DEF SkipFits
  <2>1. /\ skip = gap.pairs /\ ~(gap.pairs < gap.minimum)
        /\ resume \in Announced /\ resume.sequence >= next_sequence
        /\ gap.minimum = (resume.sequence - next_sequence) * MinPairs /\ gap.pairs \in Int
        /\ InRing(last_end + gap.pairs) = resume.first /\ gap.pairs - Ring < gap.minimum
    BY DEF IInv, GapFits, Short
  <2>2. gap.minimum \in Nat
    BY <2>1, MissingInt DEF IInv
  <2>. QED BY <2>1, <2>2 DEF SkipFits
<1>. QED BY <1>1, Invariance, PTL

-----------------------------------------------------------------------------
\* A skip that fits is exact: if g pairs really are missing, which lead to the
\* same ring position and were sent in units of MinPairs .. MaxPairs, and the
\* lengths of that many units differ by less than a turn, g is skipped.
THEOREM SkipExact ==
    ASSUME IInv, skip # NoSkip,
           NEW g \in Nat,
           InRing(last_end + g) = resume.first,
           (resume.sequence - next_sequence) * MinPairs <= g,
           g <= (resume.sequence - next_sequence) * MaxPairs,
           (resume.sequence - next_sequence) * MaxPairs
               < (resume.sequence - next_sequence) * MinPairs + Ring
    PROVE  skip = g
<1>. DEFINE low == (resume.sequence - next_sequence) * MinPairs
            high == (resume.sequence - next_sequence) * MaxPairs
<1>1. /\ state = "SKIP" /\ skip = gap.pairs /\ ~Short
      /\ resume \in Announced /\ resume.sequence >= next_sequence
      /\ gap.minimum = low /\ gap.pairs \in Int
      /\ InRing(last_end + gap.pairs) = resume.first /\ gap.pairs - Ring < gap.minimum
  BY DEF IInv, GapFits
<1>2. low \in Nat /\ Ring \in Nat \ {0} /\ last_end \in Int
  BY <1>1, MissingInt, ReorderAssumption DEF IInv, Positions, ReorderAssumption
<1>3. skip \in Int /\ low <= skip /\ skip < low + Ring
  BY <1>1, <1>2 DEF Short
<1>4. high \in Int
  BY <1>1, ReorderAssumption DEF IInv, Positions, Announced, ReorderAssumption
<1>5. g < low + Ring /\ low <= g
  BY <1>2, <1>4
<1>. HIDE DEF low, high
<1>. DEFINE a == last_end + skip
            b == last_end + g
<1>5a. a \in Int /\ b \in Int
  BY <1>2, <1>3
<1>. HIDE DEF a, b
<1>6. PICK i \in Int : a = InRing(a) + i * Ring
  BY <1>5a, RingDivision
<1>7. PICK j \in Int : b = InRing(b) + j * Ring
  BY <1>5a, RingDivision
<1>8. InRing(a) = resume.first /\ InRing(b) = resume.first /\ resume.first \in Int
  BY <1>1, ReorderAssumption DEF Announced, ReorderAssumption, a, b
<1>8a. a - b = i * Ring - j * Ring
  BY <1>2, <1>5a, <1>6, <1>7, <1>8
<1>9. skip = g + (i - j) * Ring
  BY <1>2, <1>3, <1>8a DEF a, b
<1>. DEFINE k == i - j
<1>10. k \in Int /\ skip = g + k * Ring /\ skip \in Nat
  BY <1>2, <1>3, <1>9
<1>. HIDE DEF k
<1>. QED BY <1>2, <1>3, <1>5, <1>10, GapUnique
-----------------------------------------------------------------------------
(***************************************************************************)
(* Every pair leaves the merge at the position it was sampled at           *)
(* (reorder.v), for every ring, unit length and queue size, whatever       *)
(* headers are lost or misread.                                            *)
(*                                                                         *)
(* The lanes' queues are described first, as relations between sequences   *)
(* (the cuts C, what a lane is sending s, its announcements U and its      *)
(* pairs P), each with the lemmas of what pushing and popping keeps.       *)
(***************************************************************************)

Sent == [next : Nat, sent : Nat, count : Nat, heard : BOOLEAN]
Pair == [index : Nat, last : BOOLEAN]

\* Units are MinPairs .. MaxPairs long.
Spaced(C) == \A i, j \in 1 .. Len(C) : i <= j =>
                 /\ (j - i) * MinPairs <= C[j] - C[i]
                 /\ C[j] - C[i] <= (j - i) * MaxPairs
Rising(C) == C # <<>> /\ \A i, j \in 1 .. Len(C) : i < j => C[i] < C[j]

Covers(C, u, x) == C[u.number + 1] <= x /\ x < C[u.number + 2]
Ends(C, u, x)   == x + 1 = C[u.number + 2]
Arrived(s, x)   == s = NoUnit \/ x < s.next
Queued(P, x)    == \E i \in 1 .. Len(P) : P[i].index = x

\* The unit lane l is sending, if any: the last of its parity.
Latest(C, l) == IF LaneOf(Len(C)) = l THEN Len(C) - 2 ELSE Len(C) - 3

Numbered(C, U, l) == \A k \in 1 .. Len(U) :
    /\ U[k].number \in 0 .. Len(C) - 2 /\ LaneOf(U[k].number) = l
    /\ U[k].count = C[U[k].number + 2] - C[U[k].number + 1]
Ordered(U) == \A j, k \in 1 .. Len(U) : j < k => U[j].number < U[k].number
Sorted(P)  == \A i, j \in 1 .. Len(P) : i < j => P[i].index < P[j].index

\* What lane l sends is its latest unit, announced if its header was heard.
Current(C, s, U, l) == s # NoUnit =>
    /\ Latest(C, l) \in 0 .. Len(C) - 2
    /\ s.next = C[Latest(C, l) + 1] + s.sent
    /\ C[Latest(C, l) + 2] = C[Latest(C, l) + 1] + s.count
    /\ s.sent < s.count
    /\ s.heard <=> \E k \in 1 .. Len(U) : U[k].number = Latest(C, l)

\* Every pair queued has arrived and belongs to a unit announced.
OfUnits(C, s, U, P) == \A i \in 1 .. Len(P) :
    /\ Arrived(s, P[i].index)
    /\ \E k \in 1 .. Len(U) : /\ Covers(C, U[k], P[i].index)
                              /\ P[i].last <=> Ends(C, U[k], P[i].index)

\* Of the first unit announced the pairs before e are gone and those from e on
\* are queued as they arrive.
From(C, s, U, P, e) ==
    /\ Covers(C, U[1], e)
    /\ s # NoUnit => e <= s.next
    /\ \A i \in 1 .. Len(P) : P[i].index >= e
    /\ \A x \in Nat : Covers(C, U[1], x) /\ x >= e /\ Arrived(s, x) => Queued(P, x)

\* Of the others every pair that has arrived is queued.
Rest(C, s, U, P) == \A k \in 2 .. Len(U), x \in Nat :
    Covers(C, U[k], x) /\ Arrived(s, x) => Queued(P, x)

Queue(C, s, U, P, l) ==
    /\ Numbered(C, U, l) /\ Ordered(U) /\ Sorted(P)
    /\ Current(C, s, U, l) /\ OfUnits(C, s, U, P) /\ Rest(C, s, U, P)
    /\ U # <<>> => \E e \in Nat : From(C, s, U, P, e)

\* Nothing of the first unit is gone.
Whole(C, s, U, P) == U # <<>> => From(C, s, U, P, C[U[1].number + 1])
-----------------------------------------------------------------------------
LEMMA Bounds == /\ Ring \in Nat /\ Ring > 0 /\ MinPairs \in Nat /\ MinPairs > 0
                /\ MaxPairs \in Nat /\ MinPairs <= MaxPairs
                /\ NoUnit \notin Sent /\ NoPair \notin Nat /\ NoSkip \notin Nat
BY ReorderAssumption DEF ReorderAssumption, Sent

LEMMA SpacedRises == ASSUME NEW C \in Seq(Nat), C # <<>>, Spaced(C) PROVE Rising(C)
<1>. SUFFICES ASSUME NEW i \in 1 .. Len(C), NEW j \in 1 .. Len(C), i < j PROVE C[i] < C[j]
  BY DEF Rising
<1>1. (j - i) * MinPairs <= C[j] - C[i]
  BY DEF Spaced
<1>2. C[i] \in Nat /\ C[j] \in Nat
  OBVIOUS
<1>3. (j - i) * MinPairs >= 1
  <2>1. j - i \in Nat /\ j - i >= 1
    OBVIOUS
  <2>. DEFINE d == j - i
  <2>2. d \in Nat /\ d >= 1 /\ MinPairs \in Nat /\ MinPairs >= 1
    BY <2>1, Bounds
  <2>. HIDE DEF d
  <2>3. d * MinPairs >= 1
    BY <2>2
  <2>. QED BY <2>3 DEF d
<1>. DEFINE p == (j - i) * MinPairs
<1>4. p \in Int /\ p <= C[j] - C[i] /\ p >= 1
  BY <1>1, <1>3, Bounds
<1>. HIDE DEF p
<1>. QED BY <1>2, <1>4

LEMMA SpacedGrows ==
    ASSUME NEW C \in Seq(Nat), C # <<>>, Spaced(C), NEW count \in MinPairs .. MaxPairs
    PROVE  Spaced(Append(C, C[Len(C)] + count))
<1>. DEFINE D == Append(C, C[Len(C)] + count)
            n == Len(C)
<1>1. n \in Nat /\ n >= 1 /\ C[n] \in Nat /\ count \in Nat /\ MinPairs <= count /\ count <= MaxPairs
  BY Bounds
<1>2. Len(D) = n + 1 /\ D[n + 1] = C[n] + count /\ \A i \in 1 .. n : D[i] = C[i] /\ C[i] \in Nat
  BY <1>1
<1>. HIDE DEF D
<1>. SUFFICES ASSUME NEW i \in 1 .. n + 1, NEW j \in 1 .. n + 1, i <= j
              PROVE  /\ (j - i) * MinPairs <= D[j] - D[i]
                     /\ D[j] - D[i] <= (j - i) * MaxPairs
  BY <1>2 DEF Spaced, D
<1>3. CASE j <= n
  <2>1. i \in 1 .. n /\ j \in 1 .. n
    BY <1>1, <1>3
  <2>. QED BY <1>2, <2>1 DEF Spaced
<1>4. CASE i = n + 1
  <2>1. j = n + 1 /\ j - i = 0
    BY <1>1, <1>4
  <2>. QED BY <1>1, <1>2, <1>4, <2>1, Bounds
<1>5. CASE i <= n /\ j = n + 1
  <2>1. i \in 1 .. n /\ n \in 1 .. n
    BY <1>1, <1>5
  <2>2. (n - i) * MinPairs <= C[n] - C[i] /\ C[n] - C[i] <= (n - i) * MaxPairs
    BY <2>1 DEF Spaced
  <2>3. (j - i) * MinPairs = (n - i) * MinPairs + MinPairs
    BY <1>1, <1>5, Bounds
  <2>4. (j - i) * MaxPairs = (n - i) * MaxPairs + MaxPairs
    BY <1>1, <1>5, Bounds
  <2>5. D[j] - D[i] = C[n] - C[i] + count /\ C[i] \in Nat
    BY <1>1, <1>2, <1>5, <2>1
  <2>6. (n - i) * MinPairs \in Int /\ (n - i) * MaxPairs \in Int /\ C[n] - C[i] \in Int
    BY <1>1, <2>1, <2>5, Bounds
  <2>. DEFINE a == (n - i) * MinPairs
              b == (n - i) * MaxPairs
              c == C[n] - C[i]
  <2>7. a \in Int /\ b \in Int /\ c \in Int /\ a <= c /\ c <= b
    BY <2>2, <2>6
  <2>. HIDE DEF a, b, c
  <2>8. a + MinPairs <= c + count /\ c + count <= b + MaxPairs
    BY <1>1, <2>7, Bounds
  <2>. QED BY <2>3, <2>4, <2>5, <2>8 DEF a, b, c
<1>. QED BY <1>1, <1>3, <1>4, <1>5
-----------------------------------------------------------------------------
(* Where the units of a lane lie. *)
LEMMA UnitTyped ==
    ASSUME NEW C \in Seq(Nat), NEW l \in Lanes, NEW U \in Seq(Announced), Numbered(C, U, l),
           NEW k \in 1 .. Len(U)
    PROVE  /\ U[k] \in Announced /\ U[k].number \in Nat /\ LaneOf(U[k].number) = l
           /\ U[k].number + 1 \in 1 .. Len(C) /\ U[k].number + 2 \in 1 .. Len(C)
           /\ C[U[k].number + 1] \in Nat /\ C[U[k].number + 2] \in Nat
<1>1. U[k] \in Announced
  OBVIOUS
<1>2. U[k].number \in 0 .. Len(C) - 2 /\ LaneOf(U[k].number) = l
  BY DEF Numbered
<1>3. U[k].number \in Nat /\ U[k].number + 1 \in 1 .. Len(C) /\ U[k].number + 2 \in 1 .. Len(C)
  <2>. DEFINE n == U[k].number
  <2>1. n \in 0 .. Len(C) - 2 /\ Len(C) \in Nat
    BY <1>2
  <2>. HIDE DEF n
  <2>2. n \in Nat /\ n + 1 \in 1 .. Len(C) /\ n + 2 \in 1 .. Len(C)
    BY <2>1
  <2>. QED BY <2>2 DEF n
<1>4. C[U[k].number + 1] \in Nat /\ C[U[k].number + 2] \in Nat
  <2>. DEFINE a == U[k].number + 1
              b == U[k].number + 2
  <2>1. a \in 1 .. Len(C) /\ b \in 1 .. Len(C)
    BY <1>3
  <2>. HIDE DEF a, b
  <2>2. C[a] \in Nat /\ C[b] \in Nat
    BY <2>1
  <2>. QED BY <2>2 DEF a, b
<1>. QED BY <1>1, <1>2, <1>3, <1>4

LEMMA RisingOrder ==
    ASSUME NEW C \in Seq(Nat), Rising(C), NEW i \in 1 .. Len(C), NEW j \in 1 .. Len(C), i <= j
    PROVE  C[i] <= C[j]
<1>1. C[i] \in Nat /\ C[j] \in Nat
  OBVIOUS
<1>2. CASE i = j
  BY <1>1, <1>2
<1>3. CASE i < j
  BY <1>1, <1>3 DEF Rising
<1>. QED BY <1>2, <1>3

LEMMA Apart ==
    ASSUME NEW C \in Seq(Nat), Rising(C), NEW l \in Lanes, NEW U \in Seq(Announced),
           Numbered(C, U, l), Ordered(U),
           NEW j \in 1 .. Len(U), NEW k \in 1 .. Len(U), j < k
    PROVE  C[U[j].number + 2] <= C[U[k].number + 1]
<1>1. /\ U[j].number \in Nat /\ U[k].number \in Nat
      /\ U[j].number + 2 \in 1 .. Len(C) /\ U[k].number + 1 \in 1 .. Len(C)
  BY UnitTyped
<1>2. U[j].number < U[k].number
  BY DEF Ordered
<1>3. U[j].number + 2 <= U[k].number + 1
  BY <1>1, <1>2
<1>. QED BY <1>1, <1>3, RisingOrder

\* Comparisons of four and three numbers.
LEMMA Between == \A x, a, b, n \in Nat : x < a /\ a <= b /\ b <= n => x < n
OBVIOUS
LEMMA Apart3 == \A a, b, e, n \in Nat : a = e + 1 /\ n + 1 <= b /\ e < n => a # b
OBVIOUS

LEMMA NextLane == \A n \in Nat, l \in Lanes :
    /\ LaneOf(n + 1) # LaneOf(n)
    /\ LaneOf(n) # l => LaneOf(n + 1) = l
BY DEF LaneOf, Lanes

LEMMA Parity ==
    ASSUME NEW L \in Nat, NEW n \in Int, n <= L - 2, LaneOf(n) # LaneOf(L)
    PROVE  n <= L - 3
<1>1. n = L - 2 => LaneOf(n) = LaneOf(L)
  BY DEF LaneOf
<1>. QED BY <1>1

LEMMA UpToLatest ==
    ASSUME NEW C \in Seq(Nat), NEW l \in Lanes, NEW U \in Seq(Announced), Numbered(C, U, l),
           NEW k \in 1 .. Len(U)
    PROVE  U[k].number <= Latest(C, l) /\ Latest(C, l) \in Int
<1>1. /\ U[k].number \in Nat /\ LaneOf(U[k].number) = l
      /\ U[k].number + 2 \in 1 .. Len(C) /\ Len(C) \in Nat
  BY UnitTyped
<1>2. U[k].number <= Len(C) - 2
  BY <1>1
<1>3. LaneOf(Len(C)) # l => U[k].number <= Len(C) - 3
  BY <1>1, <1>2, Parity
<1>. QED BY <1>1, <1>2, <1>3 DEF Latest

\* A unit that is not the one being sent ends where that one begins, or before.
LEMMA BeforeLatest ==
    ASSUME NEW C \in Seq(Nat), Rising(C), NEW l \in Lanes, NEW U \in Seq(Announced),
           Numbered(C, U, l), Latest(C, l) \in 0 .. Len(C) - 2,
           NEW k \in 1 .. Len(U), U[k].number # Latest(C, l)
    PROVE  C[U[k].number + 2] <= C[Latest(C, l) + 1]
<1>. DEFINE n == U[k].number
            m == Latest(C, l)
<1>1. /\ n \in Nat /\ n + 2 \in 1 .. Len(C) /\ n <= m /\ m \in 0 .. Len(C) - 2
      /\ n # m /\ Len(C) \in Nat
  BY UnitTyped, UpToLatest
<1>. HIDE DEF n, m
<1>2. n + 2 <= m + 1 /\ m + 1 \in 1 .. Len(C)
  <2>. DEFINE c == Len(C)
  <2>1. n \in Nat /\ c \in Nat /\ n + 2 \in 1 .. c /\ n <= m /\ m \in 0 .. c - 2 /\ n # m
    BY <1>1
  <2>. HIDE DEF c
  <2>2. n + 2 <= m + 1 /\ m + 1 \in 1 .. c
    BY ONLY <2>1
  <2>. QED BY <2>2 DEF c
<1>3. C[n + 2] <= C[m + 1]
  BY <1>1, <1>2, RisingOrder
<1>. QED BY <1>3 DEF n, m

\* The pairs a lane is sending.
LEMMA SentTyped ==
    ASSUME NEW C \in Seq(Nat), NEW l \in Lanes, NEW U, NEW s \in Sent \cup {NoUnit}, s # NoUnit,
           Current(C, s, U, l)
    PROVE  /\ s \in Sent /\ s.next \in Nat /\ s.sent \in Nat /\ s.count \in Nat /\ s.heard \in BOOLEAN
           /\ Latest(C, l) \in Nat
           /\ Latest(C, l) + 1 \in 1 .. Len(C) /\ Latest(C, l) + 2 \in 1 .. Len(C)
           /\ C[Latest(C, l) + 1] \in Nat /\ C[Latest(C, l) + 2] \in Nat
           /\ s.next >= C[Latest(C, l) + 1] /\ s.next + 1 <= C[Latest(C, l) + 2]
           /\ (s.sent + 1 = s.count <=> s.next + 1 = C[Latest(C, l) + 2])
<1>1. s \in Sent /\ s.next \in Nat /\ s.sent \in Nat /\ s.count \in Nat /\ s.heard \in BOOLEAN
  BY DEF Sent
<1>. DEFINE m == Latest(C, l)
<1>2. m \in 0 .. Len(C) - 2 /\ s.next = C[m + 1] + s.sent /\ C[m + 2] = C[m + 1] + s.count
      /\ s.sent < s.count /\ Len(C) \in Nat
  BY DEF Current
<1>. HIDE DEF m
<1>3. m \in Nat /\ m + 1 \in 1 .. Len(C) /\ m + 2 \in 1 .. Len(C)
  BY <1>2
<1>4. C[m + 1] \in Nat /\ C[m + 2] \in Nat
  BY <1>3
<1>5. /\ s.next >= C[m + 1] /\ s.next + 1 <= C[m + 2]
      /\ (s.sent + 1 = s.count <=> s.next + 1 = C[m + 2])
  <2>1. PICK a \in Nat, b \in Nat, n \in Nat, t \in Nat, c \in Nat :
            a = C[m + 1] /\ b = C[m + 2] /\ n = s.next /\ t = s.sent /\ c = s.count
    BY <1>1, <1>4
  <2>2. n = a + t /\ b = a + c /\ t < c
    BY <1>2, <2>1
  <2>3. n >= a /\ n + 1 <= b /\ (t + 1 = c <=> n + 1 = b)
    BY <2>2
  <2>. QED BY <2>1, <2>3
<1>. QED BY <1>1, <1>3, <1>4, <1>5 DEF m
-----------------------------------------------------------------------------
(* Popping the head of a lane's queue. *)
LEMMA ArrivedBefore ==
    ASSUME NEW s \in Sent \cup {NoUnit}, NEW x \in Nat, NEW y \in Nat, x <= y, Arrived(s, y)
    PROVE  Arrived(s, x)
<1>1. CASE s = NoUnit
  BY <1>1 DEF Arrived
<1>2. CASE s # NoUnit
  <2>1. s.next \in Nat /\ y < s.next
    BY <1>2 DEF Arrived, Sent
  <2>. QED BY <2>1 DEF Arrived
<1>. QED BY <1>1, <1>2

\* The head of the pairs is the next pair of the first unit.
LEMMA HeadIs ==
    ASSUME NEW C \in Seq(Nat), Rising(C), NEW s \in Sent \cup {NoUnit},
           NEW U \in Seq(Announced), NEW P \in Seq(Pair), NEW l \in Lanes, NEW e \in Nat,
           Queue(C, s, U, P, l), P # <<>>, U # <<>>, From(C, s, U, P, e)
    PROVE  P[1].index = e /\ (P[1].last <=> Ends(C, U[1], e)) /\ Arrived(s, e)
<1>1. 1 \in 1 .. Len(P) /\ P[1] \in Pair /\ P[1].index \in Nat /\ 1 \in 1 .. Len(U)
  <2>1. 1 \in 1 .. Len(P) /\ P[1] \in Pair /\ 1 \in 1 .. Len(U)
    OBVIOUS
  <2>. QED BY <2>1 DEF Pair
<1>2. PICK k \in 1 .. Len(U) : /\ Covers(C, U[k], P[1].index)
                               /\ P[1].last <=> Ends(C, U[k], P[1].index)
  BY <1>1 DEF Queue, OfUnits
<1>3. Arrived(s, e)
  BY <1>1, ArrivedBefore DEF Queue, OfUnits, From
<1>4. PICK i \in 1 .. Len(P) : P[i].index = e
  BY <1>3 DEF From, Queued
<1>5. P[1].index = e
  <2>1. P[1].index >= e
    BY <1>1 DEF From
  <2>2. i # 1 => P[1].index < P[i].index
    BY <1>1 DEF Queue, Sorted
  <2>. QED BY <1>1, <1>4, <2>1, <2>2
<1>6. k = 1
  <2>. SUFFICES ASSUME 1 < k PROVE FALSE
    OBVIOUS
  <2>1. C[U[1].number + 2] <= C[U[k].number + 1]
    BY <1>1, Apart DEF Queue
  <2>2. C[U[1].number + 2] \in Nat /\ C[U[k].number + 1] \in Nat
    BY <1>1, UnitTyped DEF Queue
  <2>3. e < C[U[1].number + 2] /\ C[U[k].number + 1] <= e
    BY <1>2, <1>5 DEF From, Covers
  <2>. DEFINE a == C[U[1].number + 2]
              b == C[U[k].number + 1]
  <2>4. a \in Nat /\ b \in Nat /\ a <= b /\ e < a /\ b <= e
    BY <2>1, <2>2, <2>3
  <2>. HIDE DEF a, b
  <2>. QED BY <2>4
<1>. QED BY <1>2, <1>3, <1>5, <1>6

LEMMA TailOf ==
    ASSUME NEW S, NEW Q \in Seq(S), Q # <<>>
    PROVE  /\ Tail(Q) \in Seq(S) /\ Len(Tail(Q)) = Len(Q) - 1
           /\ \A i \in 1 .. Len(Tail(Q)) : i + 1 \in 1 .. Len(Q) /\ Tail(Q)[i] = Q[i + 1]
           /\ \A i \in 2 .. Len(Q) : i - 1 \in 1 .. Len(Tail(Q)) /\ Q[i] = Tail(Q)[i - 1]
OBVIOUS

LEMMA TailSorted ==
    ASSUME NEW P \in Seq(Pair), P # <<>>, Sorted(P)
    PROVE  /\ Sorted(Tail(P))
           /\ \A i \in 1 .. Len(Tail(P)) : Tail(P)[i].index > P[1].index /\ Tail(P)[i].index \in Nat
           /\ \A x \in Nat : Queued(P, x) /\ x # P[1].index => Queued(Tail(P), x)
<1>. DEFINE T == Tail(P)
<1>1. /\ T \in Seq(Pair) /\ Len(T) = Len(P) - 1 /\ Len(P) \in Nat /\ Len(P) >= 1
      /\ \A i \in 1 .. Len(T) : i + 1 \in 1 .. Len(P) /\ T[i] = P[i + 1]
      /\ \A i \in 2 .. Len(P) : i - 1 \in 1 .. Len(T) /\ P[i] = T[i - 1]
  BY TailOf
<1>2. \A i \in 1 .. Len(P) : P[i].index \in Nat
  <2>1. \A i \in 1 .. Len(P) : P[i] \in Pair
    OBVIOUS
  <2>. QED BY <2>1 DEF Pair
<1>. HIDE DEF T
<1>3. Sorted(T)
  BY <1>1 DEF Sorted
<1>4. \A i \in 1 .. Len(T) : T[i].index > P[1].index /\ T[i].index \in Nat
  <2>. SUFFICES ASSUME NEW i \in 1 .. Len(T) PROVE T[i].index > P[1].index /\ T[i].index \in Nat
    OBVIOUS
  <2>1. i + 1 \in 1 .. Len(P) /\ T[i] = P[i + 1] /\ 1 \in 1 .. Len(P) /\ 1 < i + 1
    BY <1>1
  <2>2. P[1].index < P[i + 1].index
    BY <2>1 DEF Sorted
  <2>. QED BY <1>2, <2>1, <2>2
<1>5. ASSUME NEW x \in Nat, Queued(P, x), x # P[1].index PROVE Queued(T, x)
  <2>1. PICK i \in 1 .. Len(P) : P[i].index = x
    BY <1>5 DEF Queued
  <2>2. i \in 2 .. Len(P)
    BY <1>5, <2>1
  <2>. QED BY <1>1, <2>1, <2>2 DEF Queued
<1>. QED BY <1>3, <1>4, <1>5 DEF T

LEMMA PopInner ==
    ASSUME NEW C \in Seq(Nat), Rising(C), NEW s \in Sent \cup {NoUnit},
           NEW U \in Seq(Announced), NEW P \in Seq(Pair), NEW l \in Lanes, NEW e \in Nat,
           Queue(C, s, U, P, l), P # <<>>, U # <<>>, From(C, s, U, P, e), ~P[1].last
    PROVE  Queue(C, s, U, Tail(P), l) /\ From(C, s, U, Tail(P), e + 1)
<1>. DEFINE T == Tail(P)
<1>1. /\ T \in Seq(Pair) /\ Len(T) = Len(P) - 1
      /\ \A i \in 1 .. Len(T) : i + 1 \in 1 .. Len(P) /\ T[i] = P[i + 1]
  BY TailOf
<1>2. /\ Sorted(T) /\ \A i \in 1 .. Len(T) : T[i].index > P[1].index /\ T[i].index \in Nat
      /\ \A x \in Nat : Queued(P, x) /\ x # P[1].index => Queued(T, x)
  BY TailSorted DEF Queue
<1>3. P[1].index = e /\ ~Ends(C, U[1], e) /\ Arrived(s, e)
  BY HeadIs
<1>. HIDE DEF T
<1>4. 1 \in 1 .. Len(U) /\ C[U[1].number + 1] \in Nat /\ C[U[1].number + 2] \in Nat
  BY UnitTyped DEF Queue
<1>5. From(C, s, U, T, e + 1)
  <2>1. Covers(C, U[1], e + 1)
    <3>1. C[U[1].number + 1] <= e /\ e < C[U[1].number + 2] /\ e + 1 # C[U[1].number + 2]
      BY <1>3 DEF From, Covers, Ends
    <3>. QED BY <1>4, <3>1 DEF Covers
  <2>2. s # NoUnit => e + 1 <= s.next
    BY <1>3 DEF Arrived, Sent
  <2>3. \A i \in 1 .. Len(T) : T[i].index >= e + 1
    BY <1>2, <1>3
  <2>4. ASSUME NEW x \in Nat, Covers(C, U[1], x), x >= e + 1, Arrived(s, x) PROVE Queued(T, x)
    <3>1. x >= e /\ x # P[1].index
      BY <1>3, <2>4
    <3>2. Queued(P, x)
      BY <2>4, <3>1 DEF From
    <3>. QED BY <1>2, <3>1, <3>2
  <2>. QED BY <2>1, <2>2, <2>3, <2>4 DEF From
<1>6. OfUnits(C, s, U, T)
  BY <1>1 DEF Queue, OfUnits
<1>7. Rest(C, s, U, T)
  <2>. SUFFICES ASSUME NEW k \in 2 .. Len(U), NEW x \in Nat, Covers(C, U[k], x), Arrived(s, x)
                PROVE  Queued(T, x)
    BY DEF Rest
  <2>1. k \in 1 .. Len(U) /\ 1 < k
    OBVIOUS
  <2>2. C[U[1].number + 2] <= C[U[k].number + 1]
    BY <1>4, <2>1, Apart DEF Queue
  <2>3. C[U[k].number + 1] \in Nat
    BY <2>1, UnitTyped DEF Queue
  <2>4. e < C[U[1].number + 2] /\ C[U[k].number + 1] <= x
    BY DEF From, Covers
  <2>5. x # e
    BY <1>4, <2>2, <2>3, <2>4
  <2>6. Queued(P, x)
    BY DEF Queue, Rest
  <2>. QED BY <1>2, <1>3, <2>5, <2>6
<1>8. U # <<>> => \E d \in Nat : From(C, s, U, T, d)
  BY <1>5
<1>9. Queue(C, s, U, T, l)
  BY <1>2, <1>6, <1>7, <1>8 DEF Queue
<1>. QED BY <1>5, <1>9 DEF T

LEMMA PopLast ==
    ASSUME NEW C \in Seq(Nat), Rising(C), NEW s \in Sent \cup {NoUnit},
           NEW U \in Seq(Announced), NEW P \in Seq(Pair), NEW l \in Lanes, NEW e \in Nat,
           Queue(C, s, U, P, l), P # <<>>, U # <<>>, From(C, s, U, P, e), P[1].last
    PROVE  Queue(C, s, Tail(U), Tail(P), l) /\ Whole(C, s, Tail(U), Tail(P))
<1>. DEFINE T == Tail(P)
            V == Tail(U)
<1>1. /\ T \in Seq(Pair) /\ Len(T) = Len(P) - 1
      /\ \A i \in 1 .. Len(T) : i + 1 \in 1 .. Len(P) /\ T[i] = P[i + 1]
  BY TailOf
<1>2. /\ V \in Seq(Announced) /\ Len(V) = Len(U) - 1 /\ Len(U) \in Nat
      /\ \A k \in 1 .. Len(V) : k + 1 \in 1 .. Len(U) /\ V[k] = U[k + 1]
      /\ \A k \in 2 .. Len(U) : k - 1 \in 1 .. Len(V) /\ U[k] = V[k - 1]
  BY TailOf
<1>3. /\ Sorted(T) /\ \A i \in 1 .. Len(T) : T[i].index > P[1].index /\ T[i].index \in Nat
      /\ \A x \in Nat : Queued(P, x) /\ x # P[1].index => Queued(T, x)
  BY TailSorted DEF Queue
<1>4. P[1].index = e /\ Ends(C, U[1], e) /\ Arrived(s, e)
  BY HeadIs
<1>. HIDE DEF T, V
<1>5. 1 \in 1 .. Len(U) /\ C[U[1].number + 2] = e + 1
  BY <1>4 DEF Ends
<1>6. \A k \in 2 .. Len(U) : /\ k \in 1 .. Len(U)
                             /\ e + 1 <= C[U[k].number + 1] /\ C[U[k].number + 1] \in Nat
  <2>. SUFFICES ASSUME NEW k \in 2 .. Len(U)
                PROVE  /\ k \in 1 .. Len(U)
                       /\ e + 1 <= C[U[k].number + 1] /\ C[U[k].number + 1] \in Nat
    OBVIOUS
  <2>1. k \in 1 .. Len(U) /\ 1 < k
    OBVIOUS
  <2>. QED BY <1>5, <2>1, Apart, UnitTyped DEF Queue
<1>7. \A k \in 2 .. Len(U), x \in Nat : Covers(C, U[k], x) => x # e
  BY <1>6 DEF Covers
<1>8. Numbered(C, V, l)
  <2>. SUFFICES ASSUME NEW k \in 1 .. Len(V)
                PROVE  /\ V[k].number \in 0 .. Len(C) - 2 /\ LaneOf(V[k].number) = l
                       /\ V[k].count = C[V[k].number + 2] - C[V[k].number + 1]
    BY DEF Numbered
  <2>1. k + 1 \in 1 .. Len(U) /\ V[k] = U[k + 1] /\ Numbered(C, U, l)
    BY <1>2 DEF Queue
  <2>2. PICK j \in 1 .. Len(U) : j = k + 1
    BY <2>1
  <2>. QED BY <2>1, <2>2, Zenon DEF Numbered
<1>9. Ordered(V)
  <2>. SUFFICES ASSUME NEW j \in 1 .. Len(V), NEW k \in 1 .. Len(V), j < k
                PROVE  V[j].number < V[k].number
    BY DEF Ordered
  <2>1. /\ j + 1 \in 1 .. Len(U) /\ V[j] = U[j + 1] /\ k + 1 \in 1 .. Len(U) /\ V[k] = U[k + 1]
        /\ j + 1 < k + 1 /\ Ordered(U)
    BY <1>2 DEF Queue
  <2>2. U[j + 1].number < U[k + 1].number
    BY <2>1 DEF Ordered
  <2>. QED BY <2>1, <2>2, Zenon
<1>10. Current(C, s, V, l)
  <2>. SUFFICES ASSUME s # NoUnit PROVE Current(C, s, V, l)
    BY DEF Current
  <2>1. Current(C, s, U, l)
    BY DEF Queue
  <2>2. s.next \in Nat /\ C[Latest(C, l) + 2] \in Nat /\ s.next + 1 <= C[Latest(C, l) + 2]
    BY <2>1, SentTyped
  <2>3. e < s.next
    BY <1>4 DEF Arrived
  <2>4. U[1].number # Latest(C, l)
    <3>1. PICK a \in Nat, b \in Nat, n \in Nat :
              a = C[U[1].number + 2] /\ b = C[Latest(C, l) + 2] /\ n = s.next
      <4>1. C[U[1].number + 2] \in Nat
        BY <1>5, UnitTyped DEF Queue
      <4>. QED BY <2>2, <4>1, Zenon
    <3>2. a = e + 1 /\ n + 1 <= b /\ e < n
      BY <1>5, <2>2, <2>3, <3>1, Zenon
    <3>3. a # b
      BY <3>2, Apart3, Zenon
    <3>. QED BY <3>1, <3>3, Zenon
  <2>5. (\E k \in 1 .. Len(U) : U[k].number = Latest(C, l))
            <=> \E k \in 1 .. Len(V) : V[k].number = Latest(C, l)
    <3>1. ASSUME NEW k \in 1 .. Len(U), U[k].number = Latest(C, l)
          PROVE  \E j \in 1 .. Len(V) : V[j].number = Latest(C, l)
      <4>1. k \in 2 .. Len(U)
        BY <2>4, <3>1
      <4>. QED BY <1>2, <3>1, <4>1
    <3>2. ASSUME NEW k \in 1 .. Len(V), V[k].number = Latest(C, l)
          PROVE  \E j \in 1 .. Len(U) : U[j].number = Latest(C, l)
      BY <1>2, <3>2
    <3>. QED BY <3>1, <3>2
  <2>. QED BY <2>1, <2>5 DEF Current
<1>11. OfUnits(C, s, V, T)
  <2>. SUFFICES ASSUME NEW i \in 1 .. Len(T)
                PROVE  /\ Arrived(s, T[i].index)
                       /\ \E k \in 1 .. Len(V) : /\ Covers(C, V[k], T[i].index)
                                                 /\ T[i].last <=> Ends(C, V[k], T[i].index)
    BY DEF OfUnits
  <2>1. i + 1 \in 1 .. Len(P) /\ T[i] = P[i + 1] /\ T[i].index > e /\ T[i].index \in Nat
    BY <1>1, <1>3, <1>4
  <2>2. PICK k \in 1 .. Len(U) : /\ Covers(C, U[k], T[i].index)
                                 /\ T[i].last <=> Ends(C, U[k], T[i].index)
    BY <2>1 DEF Queue, OfUnits
  <2>3. k # 1
    BY <1>5, <2>1, <2>2 DEF Covers
  <2>4. k \in 2 .. Len(U)
    BY <2>3
  <2>5. k - 1 \in 1 .. Len(V) /\ V[k - 1] = U[k]
    BY <1>2, <2>4
  <2>6. Arrived(s, T[i].index)
    BY <2>1 DEF Queue, OfUnits
  <2>. QED BY <2>2, <2>5, <2>6
<1>12. ASSUME NEW k \in 1 .. Len(V), NEW x \in Nat, Covers(C, V[k], x), Arrived(s, x)
       PROVE  Queued(T, x)
  <2>1. k + 1 \in 2 .. Len(U) /\ V[k] = U[k + 1]
    BY <1>2
  <2>2. Queued(P, x)
    BY <1>12, <2>1 DEF Queue, Rest
  <2>3. x # P[1].index
    BY <1>4, <1>7, <1>12, <2>1
  <2>. QED BY <1>3, <2>2, <2>3
<1>13. Rest(C, s, V, T)
  BY <1>12 DEF Rest
<1>14. Whole(C, s, V, T)
  <2>. SUFFICES ASSUME V # <<>> PROVE From(C, s, V, T, C[V[1].number + 1])
    BY DEF Whole
  <2>1. 1 \in 1 .. Len(V)
    BY <1>2
  <2>. DEFINE n == V[1].number
  <2>2. /\ n + 1 \in 1 .. Len(C) /\ n + 2 \in 1 .. Len(C)
        /\ n \in Nat /\ C[n + 1] \in Nat /\ C[n + 2] \in Nat
    BY <1>2, <1>8, <2>1, UnitTyped
  <2>2a. s # NoUnit => n <= Latest(C, l)
    BY <1>2, <1>8, <2>1, UpToLatest
  <2>2b. \A k \in 1 .. Len(V) : k = 1 \/ n < V[k].number
    BY <1>9, <2>1 DEF Ordered
  <2>2c. \A x : Covers(C, V[1], x) <=> C[n + 1] <= x /\ x < C[n + 2]
    BY DEF Covers
  <2>. HIDE DEF n
  <2>3. Covers(C, V[1], C[n + 1])
    <3>1. n + 1 < n + 2
      BY <2>2
    <3>2. C[n + 1] < C[n + 2]
      BY <2>2, <3>1 DEF Rising
    <3>. QED BY <2>2, <2>2c, <3>2
  <2>4. s # NoUnit => C[n + 1] <= s.next
    <3>. SUFFICES ASSUME s # NoUnit PROVE C[n + 1] <= s.next
      OBVIOUS
    <3>. DEFINE m == Latest(C, l)
    <3>1. /\ s.next \in Nat /\ C[m + 1] \in Nat /\ C[m + 1] <= s.next
          /\ m + 1 \in 1 .. Len(C) /\ m \in Nat /\ n <= m
      BY <1>10, <2>2a, SentTyped
    <3>. HIDE DEF m
    <3>2. n + 1 <= m + 1
      BY <2>2, <3>1
    <3>3. C[n + 1] <= C[m + 1]
      BY <2>2, <3>1, <3>2, RisingOrder
    <3>. QED BY <2>2, <3>1, <3>3
  <2>5. \A i \in 1 .. Len(T) : T[i].index >= C[n + 1]
    <3>. SUFFICES ASSUME NEW i \in 1 .. Len(T) PROVE T[i].index >= C[n + 1]
      OBVIOUS
    <3>1. PICK k \in 1 .. Len(V) : Covers(C, V[k], T[i].index)
      BY <1>11 DEF OfUnits
    <3>. DEFINE m == V[k].number
    <3>2. /\ m \in Nat /\ m + 1 \in 1 .. Len(C) /\ C[m + 1] \in Nat
      BY <1>2, <1>8, UnitTyped
    <3>3. m = n \/ n < m
      <4>1. CASE k = 1
        BY <4>1, Zenon DEF n
      <4>2. CASE k # 1
        BY <2>2b, <4>2
      <4>. QED BY <4>1, <4>2
    <3>. DEFINE t == T[i].index
    <3>4. C[m + 1] <= t /\ t \in Nat
      BY <1>3, <3>1 DEF Covers
    <3>. HIDE DEF m, t
    <3>5. n + 1 <= m + 1
      BY <2>2, <3>2, <3>3
    <3>6. C[n + 1] <= C[m + 1]
      BY <2>2, <3>2, <3>5, RisingOrder
    <3>7. PICK a \in Nat, b \in Nat : a = C[n + 1] /\ b = C[m + 1]
      BY <2>2, <3>2, Zenon
    <3>8. a <= b /\ b <= t /\ t \in Nat
      BY <3>4, <3>6, <3>7, Zenon
    <3>9. a <= t
      BY <3>8
    <3>10. C[n + 1] <= t
      BY <3>7, <3>9, Zenon
    <3>. QED BY <3>10 DEF t
  <2>6. From(C, s, V, T, C[n + 1])
    BY <1>12, <2>1, <2>3, <2>4, <2>5 DEF From
  <2>. QED BY <2>6 DEF n
<1>15. V # <<>> => \E d \in Nat : From(C, s, V, T, d)
  <2>. SUFFICES ASSUME V # <<>> PROVE \E d \in Nat : From(C, s, V, T, d)
    OBVIOUS
  <2>1. C[V[1].number + 1] \in Nat
    <3>1. 1 \in 1 .. Len(V)
      BY <1>2
    <3>. QED BY <1>2, <1>8, <3>1, UnitTyped
  <2>. QED BY <1>14, <2>1 DEF Whole
<1>16. Queue(C, s, V, T, l)
  BY <1>3, <1>8, <1>9, <1>10, <1>11, <1>13, <1>15 DEF Queue
<1>. QED BY <1>14, <1>16 DEF T, V
-----------------------------------------------------------------------------
(* The next pair arrives. *)
LEMMA AppendedPair ==
    ASSUME NEW P \in Seq(Pair), NEW p \in Pair, Sorted(P), \A i \in 1 .. Len(P) : P[i].index < p.index
    PROVE  /\ Append(P, p) \in Seq(Pair) /\ Sorted(Append(P, p))
           /\ Len(Append(P, p)) = Len(P) + 1 /\ Append(P, p)[Len(P) + 1] = p
           /\ \A i \in 1 .. Len(P) : Append(P, p)[i] = P[i]
           /\ \A x : Queued(P, x) => Queued(Append(P, p), x)
           /\ Queued(Append(P, p), p.index)
<1>. DEFINE Q == Append(P, p)
<1>1. /\ Q \in Seq(Pair) /\ Len(Q) = Len(P) + 1 /\ Q[Len(P) + 1] = p /\ Len(P) \in Nat
      /\ \A i \in 1 .. Len(P) : Q[i] = P[i]
  OBVIOUS
<1>. HIDE DEF Q
<1>2. Sorted(Q)
  <2>. SUFFICES ASSUME NEW i \in 1 .. Len(Q), NEW j \in 1 .. Len(Q), i < j
                PROVE  Q[i].index < Q[j].index
    BY DEF Sorted
  <2>1. i \in 1 .. Len(P)
    BY <1>1
  <2>2. CASE j \in 1 .. Len(P)
    BY <1>1, <2>1, <2>2 DEF Sorted
  <2>3. CASE j = Len(P) + 1
    BY <1>1, <2>1, <2>3
  <2>. QED BY <1>1, <2>2, <2>3
<1>3. \A x : Queued(P, x) => Queued(Q, x)
  BY <1>1 DEF Queued
<1>4. Queued(Q, p.index)
  BY <1>1 DEF Queued
<1>. QED BY <1>1, <1>2, <1>3, <1>4 DEF Q

\* What lane l sends after the next pair, and its pairs with that one.
AfterNext(s) == IF s.sent + 1 = s.count THEN NoUnit ELSE [s EXCEPT !.sent = @ + 1, !.next = @ + 1]
WithNext(s, P) == IF s.heard THEN Append(P, [index |-> s.next, last |-> s.sent + 1 = s.count]) ELSE P

LEMMA Arriving ==
    ASSUME NEW C \in Seq(Nat), Rising(C), NEW s \in Sent \cup {NoUnit}, s # NoUnit,
           NEW U \in Seq(Announced), NEW P \in Seq(Pair), NEW l \in Lanes,
           Queue(C, s, U, P, l), NEW t, NEW Q,
           t = AfterNext(s), Q = WithNext(s, P)
    PROVE  /\ t \in Sent \cup {NoUnit} /\ Q \in Seq(Pair) /\ Queue(C, t, U, Q, l)
           /\ \A e \in Nat : U # <<>> /\ From(C, s, U, P, e) => From(C, t, U, Q, e)
<1>. DEFINE m == Latest(C, l)
            done == s.sent + 1 = s.count
            p == [index |-> s.next, last |-> done]
<1>1. Current(C, s, U, l) /\ Numbered(C, U, l)
  BY DEF Queue
<1>2. /\ s \in Sent /\ s.next \in Nat /\ s.sent \in Nat /\ s.count \in Nat /\ s.heard \in BOOLEAN
      /\ m \in Nat /\ m + 1 \in 1 .. Len(C) /\ m + 2 \in 1 .. Len(C)
      /\ C[m + 1] \in Nat /\ C[m + 2] \in Nat
      /\ s.next >= C[m + 1] /\ s.next + 1 <= C[m + 2]
      /\ (done <=> s.next + 1 = C[m + 2])
  BY <1>1, SentTyped
<1>3. /\ t \in Sent \cup {NoUnit}
      /\ ~done => t \in Sent /\ t # NoUnit /\ t.next = s.next + 1 /\ t.sent = s.sent + 1
                  /\ t.count = s.count /\ t.heard = s.heard
      /\ done => t = NoUnit
  <2>1. CASE done
    BY <2>1 DEF AfterNext
  <2>2. CASE ~done
    <3>1. t = [s EXCEPT !.sent = @ + 1, !.next = @ + 1]
      BY <2>2 DEF AfterNext
    <3>2. t \in Sent /\ t.next = s.next + 1 /\ t.sent = s.sent + 1 /\ t.count = s.count
          /\ t.heard = s.heard
      <4>1. s.next + 1 \in Nat /\ s.sent + 1 \in Nat
        <5>1. s.next \in Nat /\ s.sent \in Nat
          BY <1>2
        <5>2. \A n \in Nat : n + 1 \in Nat
          OBVIOUS
        <5>. QED BY <5>1, <5>2, Zenon
      <4>2. t = [next |-> s.next + 1, sent |-> s.sent + 1, count |-> s.count, heard |-> s.heard]
        BY <1>2, <3>1 DEF Sent
      <4>3. [next |-> s.next + 1, sent |-> s.sent + 1, count |-> s.count, heard |-> s.heard] \in Sent
        BY <1>2, <4>1 DEF Sent
      <4>. QED BY <4>2, <4>3
    <3>. QED BY <2>2, <3>2, Bounds
  <2>. QED BY <2>1, <2>2
<1>4. p \in Pair /\ p.index = s.next /\ p.last = done
  BY <1>2 DEF Pair
<1>5. Q = IF s.heard THEN Append(P, p) ELSE P
  BY DEF WithNext
<1>6. s.heard <=> \E k \in 1 .. Len(U) : U[k].number = m
  BY <1>1 DEF Current
<1>7. m \in 0 .. Len(C) - 2
  BY <1>1 DEF Current
<1>7a. \A k \in 1 .. Len(U) : U[k].number # m => C[U[k].number + 2] <= C[m + 1]
  BY <1>1, <1>7, BeforeLatest
<1>7b. \A k \in 1 .. Len(U) : C[U[k].number + 2] \in Nat
  BY <1>1, UnitTyped
<1>8. \A i \in 1 .. Len(P) : P[i].index < s.next
  BY DEF Queue, OfUnits, Arrived
<1>. HIDE DEF m, done, p
<1>9. /\ Q \in Seq(Pair) /\ Sorted(Q) /\ \A x : Queued(P, x) => Queued(Q, x)
      /\ s.heard => Queued(Q, s.next)
      /\ \A i \in 1 .. Len(Q) : \/ i \in 1 .. Len(P) /\ Q[i] = P[i]
                                \/ s.heard /\ Q[i] = p
  <2>1. CASE s.heard
    <3>1. \A i \in 1 .. Len(P) : P[i].index < p.index
      BY <1>4, <1>8
    <3>2. Sorted(P)
      BY DEF Queue
    <3>3. /\ Append(P, p) \in Seq(Pair) /\ Sorted(Append(P, p))
          /\ Len(Append(P, p)) = Len(P) + 1 /\ Append(P, p)[Len(P) + 1] = p
          /\ \A i \in 1 .. Len(P) : Append(P, p)[i] = P[i]
          /\ \A x : Queued(P, x) => Queued(Append(P, p), x)
          /\ Queued(Append(P, p), p.index)
      BY <1>4, <3>1, <3>2, AppendedPair
    <3>4. Q = Append(P, p) /\ Len(P) \in Nat
      BY <1>5, <2>1
    <3>. QED BY <1>4, <2>1, <3>3, <3>4
  <2>2. CASE ~s.heard
    BY <1>5, <2>2 DEF Queue
  <2>. QED BY <2>1, <2>2
<1>10. \A x \in Nat : Arrived(s, x) => Arrived(t, x)
  BY <1>2, <1>3 DEF Arrived
<1>11. ASSUME NEW k \in 1 .. Len(U), NEW x \in Nat, Covers(C, U[k], x), Arrived(t, x)
       PROVE  Arrived(s, x) \/ (s.heard /\ x = s.next)
  <2>. SUFFICES ASSUME x >= s.next PROVE s.heard /\ x = s.next
    BY <1>2 DEF Arrived
  <2>1. x < C[U[k].number + 2]
    BY <1>11 DEF Covers
  <2>2. U[k].number = m
    <3>. SUFFICES ASSUME U[k].number # m PROVE FALSE
      OBVIOUS
    <3>1. C[U[k].number + 2] <= C[m + 1]
      BY <1>7a
    <3>2. PICK a \in Nat, b \in Nat, n \in Nat :
              a = C[U[k].number + 2] /\ b = C[m + 1] /\ n = s.next
      BY <1>2, <1>7b
    <3>3. x < a /\ a <= b /\ n >= b /\ x >= n
      BY <1>2, <2>1, <3>1, <3>2
    <3>4. x \in Nat /\ a \in Nat /\ b \in Nat /\ n \in Nat
      BY <1>11, <3>2, Zenon
    <3>. QED BY ONLY <3>3, <3>4
  <2>3. s.heard
    BY <1>6, <2>2
  <2>4. x < C[m + 2]
    BY <2>1, <2>2
  <2>5. x <= s.next
    <3>1. CASE done
      BY <1>2, <2>4, <3>1
    <3>2. CASE ~done
      <4>1. x < s.next + 1
        BY <1>3, <1>11, <3>2 DEF Arrived
      <4>. QED BY <1>2, <4>1
    <3>. QED BY <3>1, <3>2
  <2>. QED BY <1>2, <2>3, <2>5
<1>12. Current(C, t, U, l)
  <2>. SUFFICES ASSUME t # NoUnit PROVE Current(C, t, U, l)
    BY DEF Current
  <2>1. ~done /\ t.next = s.next + 1 /\ t.sent = s.sent + 1 /\ t.count = s.count /\ t.heard = s.heard
    BY <1>3
  <2>2. s.next = C[m + 1] + s.sent /\ C[m + 2] = C[m + 1] + s.count /\ s.sent < s.count
    BY <1>1 DEF Current, m
  <2>2a. PICK a \in Nat, n \in Nat, i \in Nat, c \in Nat :
             a = C[m + 1] /\ n = s.next /\ i = s.sent /\ c = s.count
    BY <1>2
  <2>2b. n = a + i /\ i < c /\ i + 1 # c
    BY <2>1, <2>2, <2>2a DEF done
  <2>2c. n + 1 = a + (i + 1) /\ i + 1 < c
    BY <2>2b
  <2>3. t.next = C[m + 1] + t.sent /\ C[m + 2] = C[m + 1] + t.count
    BY <2>1, <2>2, <2>2a, <2>2c
  <2>4. t.sent < t.count
    BY <2>1, <2>2a, <2>2c
  <2>5. t.heard <=> \E k \in 1 .. Len(U) : U[k].number = m
    BY <1>6, <2>1
  <2>. QED BY <1>7, <2>3, <2>4, <2>5 DEF Current, m
<1>13. OfUnits(C, t, U, Q)
  <2>. SUFFICES ASSUME NEW i \in 1 .. Len(Q)
                PROVE  /\ Arrived(t, Q[i].index)
                       /\ \E k \in 1 .. Len(U) : /\ Covers(C, U[k], Q[i].index)
                                                 /\ Q[i].last <=> Ends(C, U[k], Q[i].index)
    BY DEF OfUnits
  <2>1. CASE i \in 1 .. Len(P) /\ Q[i] = P[i]
    <3>1. P[i].index \in Nat
      <4>1. P[i] \in Pair
        BY <2>1
      <4>. QED BY <4>1 DEF Pair
    <3>. QED BY <1>10, <2>1, <3>1 DEF Queue, OfUnits
  <2>2. CASE s.heard /\ Q[i] = p
    <3>1. PICK k \in 1 .. Len(U) : U[k].number = m
      BY <1>6, <2>2
    <3>2. Q[i].index = s.next /\ Q[i].last = done
      BY <1>4, <2>2
    <3>3. Covers(C, U[k], s.next)
      <4>1. s.next < C[m + 2]
        BY <1>2
      <4>. QED BY <1>2, <3>1, <4>1 DEF Covers
    <3>4. done <=> Ends(C, U[k], s.next)
      BY <1>2, <3>1 DEF Ends
    <3>5. Arrived(t, s.next)
      <4>1. t = NoUnit \/ t.next = s.next + 1
        BY <1>3, Zenon
      <4>2. s.next \in Nat
        BY <1>2, Zenon
      <4>3. \A n \in Nat : n < n + 1
        OBVIOUS
      <4>. QED BY <4>1, <4>2, <4>3, Zenon DEF Arrived
    <3>. QED BY <3>2, <3>3, <3>4, <3>5, Zenon
  <2>. QED BY <1>9, <2>1, <2>2
<1>14. Rest(C, t, U, Q)
  <2>. SUFFICES ASSUME NEW k \in 2 .. Len(U), NEW x \in Nat, Covers(C, U[k], x), Arrived(t, x)
                PROVE  Queued(Q, x)
    BY DEF Rest
  <2>1. k \in 1 .. Len(U)
    OBVIOUS
  <2>2. Arrived(s, x) \/ (s.heard /\ x = s.next)
    BY <1>11, <2>1
  <2>. QED BY <1>9, <2>2 DEF Queue, Rest
<1>15. ASSUME NEW e \in Nat, U # <<>>, From(C, s, U, P, e) PROVE From(C, t, U, Q, e)
  <2>1. e <= s.next
    BY <1>15 DEF From
  <2>2. t # NoUnit => e <= t.next
    BY <1>2, <1>3, <2>1
  <2>3. \A i \in 1 .. Len(Q) : Q[i].index >= e
    BY <1>4, <1>9, <1>15, <2>1 DEF From
  <2>4. ASSUME NEW x \in Nat, Covers(C, U[1], x), x >= e, Arrived(t, x) PROVE Queued(Q, x)
    <3>1. 1 \in 1 .. Len(U)
      BY <1>15
    <3>2. Arrived(s, x) \/ (s.heard /\ x = s.next)
      BY <1>11, <2>4, <3>1
    <3>. QED BY <1>9, <1>15, <2>4, <3>2 DEF From
  <2>. QED BY <1>15, <2>2, <2>3, <2>4 DEF From
<1>16. Queue(C, t, U, Q, l)
  BY <1>9, <1>12, <1>13, <1>14, <1>15 DEF Queue
<1>. QED BY <1>3, <1>9, <1>15, <1>16
-----------------------------------------------------------------------------
(* A unit is started. *)

\* What was announced before keeps its place.
LEMMA CutsKept ==
    ASSUME NEW C \in Seq(Nat), C # <<>>, NEW v \in Nat, NEW l \in Lanes, NEW U \in Seq(Announced),
           Numbered(C, U, l), Rising(C)
    PROVE  /\ Append(C, v) \in Seq(Nat) /\ Numbered(Append(C, v), U, l)
           /\ \A k \in 1 .. Len(U) : \A x :
                  /\ Covers(Append(C, v), U[k], x) <=> Covers(C, U[k], x)
                  /\ Ends(Append(C, v), U[k], x) <=> Ends(C, U[k], x)
           /\ \A k \in 1 .. Len(U) : C[U[k].number + 2] <= C[Len(C)]
           /\ \A k \in 1 .. Len(U) : U[k].number # Len(C) - 1
<1>. DEFINE D == Append(C, v)
<1>1. /\ D \in Seq(Nat) /\ Len(D) = Len(C) + 1 /\ Len(C) \in Nat /\ Len(C) >= 1
      /\ \A i \in 1 .. Len(C) : D[i] = C[i]
  OBVIOUS
<1>. HIDE DEF D
<1>2. \A k \in 1 .. Len(U) :
          /\ U[k].number + 1 \in 1 .. Len(C) /\ U[k].number + 2 \in 1 .. Len(C)
          /\ U[k].number \in Nat
  BY UnitTyped
<1>3. \A k \in 1 .. Len(U) :
          D[U[k].number + 1] = C[U[k].number + 1] /\ D[U[k].number + 2] = C[U[k].number + 2]
  BY <1>1, <1>2, Zenon
<1>4. Numbered(D, U, l)
  <2>. SUFFICES ASSUME NEW k \in 1 .. Len(U)
                PROVE  /\ U[k].number \in 0 .. Len(D) - 2 /\ LaneOf(U[k].number) = l
                       /\ U[k].count = D[U[k].number + 2] - D[U[k].number + 1]
    BY DEF Numbered
  <2>1. /\ U[k].number \in 0 .. Len(C) - 2 /\ LaneOf(U[k].number) = l
        /\ U[k].count = C[U[k].number + 2] - C[U[k].number + 1]
    BY DEF Numbered
  <2>2. U[k].number \in 0 .. Len(D) - 2
    <3>1. \A n \in 0 .. Len(C) - 2 : n \in 0 .. Len(D) - 2
      BY <1>1
    <3>. QED BY <2>1, <3>1, Zenon
  <2>. QED BY <1>3, <2>1, <2>2, Zenon
<1>5. ASSUME NEW k \in 1 .. Len(U), NEW x
      PROVE  /\ Covers(D, U[k], x) <=> Covers(C, U[k], x)
             /\ Ends(D, U[k], x) <=> Ends(C, U[k], x)
  BY <1>3, Zenon DEF Covers, Ends
<1>6. ASSUME NEW k \in 1 .. Len(U)
      PROVE  C[U[k].number + 2] <= C[Len(C)] /\ U[k].number # Len(C) - 1
  <2>. DEFINE n == U[k].number
  <2>1. n \in Nat /\ n + 2 \in 1 .. Len(C)
    BY <1>2
  <2>. HIDE DEF n
  <2>2. Len(C) \in 1 .. Len(C) /\ n + 2 <= Len(C) /\ n # Len(C) - 1
    BY <1>1, <2>1
  <2>3. C[n + 2] <= C[Len(C)]
    BY <2>1, <2>2, RisingOrder
  <2>. QED BY <2>2, <2>3 DEF n
<1>. QED BY <1>1, <1>4, <1>5, <1>6 DEF D

\* The other lane starts a unit.
LEMMA OtherStarts ==
    ASSUME NEW C \in Seq(Nat), Rising(C), NEW v \in Nat, NEW s \in Sent \cup {NoUnit},
           NEW U \in Seq(Announced), NEW P \in Seq(Pair), NEW l \in Lanes,
           Queue(C, s, U, P, l), LaneOf(Len(C) - 1) # l
    PROVE  /\ Queue(Append(C, v), s, U, P, l)
           /\ \A e \in Nat : U # <<>> /\ From(C, s, U, P, e) => From(Append(C, v), s, U, P, e)
<1>. DEFINE D == Append(C, v)
<1>1. /\ D \in Seq(Nat) /\ Numbered(D, U, l)
      /\ \A k \in 1 .. Len(U) : \A x : /\ Covers(D, U[k], x) <=> Covers(C, U[k], x)
                                       /\ Ends(D, U[k], x) <=> Ends(C, U[k], x)
  BY CutsKept DEF Queue, Rising
<1>2. /\ Len(D) = Len(C) + 1 /\ Len(C) \in Nat /\ Len(C) >= 1
      /\ \A i \in 1 .. Len(C) : D[i] = C[i]
  BY DEF Rising
<1>. HIDE DEF D
<1>3. Current(D, s, U, l)
  <2>. SUFFICES ASSUME s # NoUnit PROVE Current(D, s, U, l)
    BY DEF Current
  <2>1. /\ Latest(C, l) \in 0 .. Len(C) - 2
        /\ s.next = C[Latest(C, l) + 1] + s.sent
        /\ C[Latest(C, l) + 2] = C[Latest(C, l) + 1] + s.count
        /\ s.sent < s.count
        /\ s.heard <=> \E k \in 1 .. Len(U) : U[k].number = Latest(C, l)
    BY DEF Queue, Current
  <2>2. Latest(D, l) = Latest(C, l)
    <3>1. PICK n \in Nat : n = Len(C) - 1 /\ n + 1 = Len(C)
      <4>1. Len(C) - 1 \in Nat /\ (Len(C) - 1) + 1 = Len(C)
        BY <1>2
      <4>. QED BY <4>1, Zenon
    <3>2. LaneOf(Len(C)) = l
      BY <3>1, NextLane, Zenon
    <3>3. LaneOf(Len(D)) # l
      BY <1>2, <3>2, NextLane, Zenon
    <3>4. Len(D) - 3 = Len(C) - 2
      BY <1>2
    <3>. QED BY <3>2, <3>3, <3>4, Zenon DEF Latest
  <2>. DEFINE m == Latest(C, l)
  <2>3. m \in 0 .. Len(D) - 2 /\ D[m + 1] = C[m + 1] /\ D[m + 2] = C[m + 2]
    <3>1. m \in 0 .. Len(C) - 2
      BY <2>1
    <3>. HIDE DEF m
    <3>2. m \in 0 .. Len(D) - 2 /\ m + 1 \in 1 .. Len(C) /\ m + 2 \in 1 .. Len(C)
      BY <1>2, <3>1
    <3>. QED BY <1>2, <3>2
  <2>. QED BY <2>1, <2>2, <2>3 DEF Current
<1>4. OfUnits(D, s, U, P)
  BY <1>1 DEF Queue, OfUnits
<1>5. Rest(D, s, U, P)
  <2>1. \A k \in 2 .. Len(U) : k \in 1 .. Len(U)
    OBVIOUS
  <2>. QED BY <1>1, <2>1 DEF Queue, Rest
<1>6. ASSUME NEW e \in Nat, U # <<>>, From(C, s, U, P, e) PROVE From(D, s, U, P, e)
  <2>1. 1 \in 1 .. Len(U)
    BY <1>6
  <2>. QED BY <1>1, <1>6, <2>1 DEF From
<1>7. Queue(D, s, U, P, l)
  BY <1>1, <1>3, <1>4, <1>5, <1>6 DEF Queue
<1>. QED BY <1>6, <1>7 DEF D

\* The lane itself does, and its header is heard (h) or lost.
Opened(C, count, h) == [next |-> C[Len(C)], sent |-> 0, count |-> count, heard |-> h]
WithUnit(U, u, h) == IF h THEN Append(U, u) ELSE U
Cut(C, count) == Append(C, C[Len(C)] + count)

LEMMA OwnStarts ==
    ASSUME NEW C \in Seq(Nat), Rising(C), NEW count \in Nat, count > 0, NEW h \in BOOLEAN,
           NEW U \in Seq(Announced), NEW V \in Seq(Announced), NEW P \in Seq(Pair), NEW l \in Lanes,
           Queue(C, NoUnit, U, P, l), LaneOf(Len(C) - 1) = l, NEW t,
           t = Opened(C, count, h),
           NEW u \in Announced, u.number = Len(C) - 1, u.count = count,
           V = WithUnit(U, u, h)
    PROVE  /\ t \in Sent /\ Queue(Cut(C, count), t, V, P, l)
           /\ \A e \in Nat : U # <<>> /\ From(C, NoUnit, U, P, e) =>
                  V # <<>> /\ From(Cut(C, count), t, V, P, e)
           /\ U # <<>> => V # <<>> /\ V[1] = U[1]
           /\ U = <<>> => Whole(Cut(C, count), t, V, P)
<1>. DEFINE D == Cut(C, count)
            b == C[Len(C)]
            m == Len(C) - 1
<1>1. Len(C) \in Nat /\ Len(C) >= 1 /\ b \in Nat /\ m \in Nat /\ m + 1 = Len(C)
  BY DEF Rising
<1>2. C # <<>> /\ b + count \in Nat
  BY <1>1
<1>3. /\ D \in Seq(Nat) /\ Numbered(D, U, l)
      /\ \A k \in 1 .. Len(U) : \A x : /\ Covers(D, U[k], x) <=> Covers(C, U[k], x)
                                       /\ Ends(D, U[k], x) <=> Ends(C, U[k], x)
      /\ \A k \in 1 .. Len(U) : C[U[k].number + 2] <= b
      /\ \A k \in 1 .. Len(U) : U[k].number # m
  BY <1>2, CutsKept DEF Queue, Cut
<1>4. Len(D) = m + 2 /\ D[m + 1] = b /\ D[m + 2] = b + count
  BY <1>1, <1>2 DEF Cut
<1>5. t \in Sent /\ t # NoUnit /\ t.next = b /\ t.sent = 0 /\ t.count = count /\ t.heard = h
  <2>1. t \in Sent
    BY <1>1 DEF Sent, Opened
  <2>. QED BY <2>1, Bounds DEF Opened
<1>6. Latest(D, l) = m
  <2>1. LaneOf(m) = l
    OBVIOUS
  <2>2. LaneOf(m + 2) = LaneOf(m)
    BY <1>1 DEF LaneOf
  <2>. HIDE DEF D, m
  <2>3. Len(D) - 2 = m
    BY <1>1, <1>4
  <2>. QED BY <1>4, <2>1, <2>2, <2>3 DEF Latest
<1>7. u.number = m /\ V = (IF h THEN Append(U, u) ELSE U)
  BY DEF WithUnit
<1>. HIDE DEF D, b, m
<1>8. /\ \A k \in 1 .. Len(U) : k \in 1 .. Len(V) /\ V[k] = U[k]
      /\ \A k \in 1 .. Len(V) : k \in 1 .. Len(U) \/ (h /\ k = Len(U) + 1 /\ V[k] = u)
      /\ h => Len(U) + 1 \in 1 .. Len(V) /\ V[Len(U) + 1] = u
      /\ Len(U) \in Nat
  <2>1. CASE h
    <3>1. V = Append(U, u)
      BY <1>7, <2>1
    <3>2. /\ Len(U) \in Nat /\ Len(V) = Len(U) + 1 /\ V[Len(U) + 1] = u
          /\ \A k \in 1 .. Len(U) : V[k] = U[k]
      BY <3>1
    <3>. QED BY ONLY <2>1, <3>2
  <2>2. CASE ~h
    BY <1>7, <2>2
  <2>3. h = TRUE \/ h = FALSE
    OBVIOUS
  <2>. QED BY ONLY <2>1, <2>2, <2>3
<1>9. \A x : Covers(D, u, x) <=> b <= x /\ x < b + count
  BY <1>4, <1>7 DEF Covers
<1>10. Numbered(D, V, l)
  <2>. SUFFICES ASSUME NEW k \in 1 .. Len(V)
                PROVE  /\ V[k].number \in 0 .. Len(D) - 2 /\ LaneOf(V[k].number) = l
                       /\ V[k].count = D[V[k].number + 2] - D[V[k].number + 1]
    BY DEF Numbered
  <2>1. CASE k \in 1 .. Len(U)
    <3>1. V[k] = U[k]
      BY <1>8, <2>1
    <3>. QED BY <1>3, <2>1, <3>1, Zenon DEF Numbered
  <2>2. CASE V[k] = u
    <3>1. m \in 0 .. Len(D) - 2
      BY <1>1, <1>4
    <3>2. LaneOf(m) = l
      BY DEF m
    <3>3. count = D[m + 2] - D[m + 1]
      BY <1>1, <1>4
    <3>. QED BY <1>7, <2>2, <3>1, <3>2, <3>3, Zenon
  <2>. QED BY <1>8, <2>1, <2>2
<1>11. Ordered(V)
  <2>. SUFFICES ASSUME NEW j \in 1 .. Len(V), NEW k \in 1 .. Len(V), j < k
                PROVE  V[j].number < V[k].number
    BY DEF Ordered
  <2>1. CASE k \in 1 .. Len(U)
    <3>1. j \in 1 .. Len(U)
      BY <2>1
    <3>. QED BY <1>8, <2>1, <3>1 DEF Queue, Ordered
  <2>2. CASE k = Len(U) + 1 /\ V[k] = u
    <3>1. j \in 1 .. Len(U)
      BY <1>8, <2>2
    <3>2. U[j].number \in Nat /\ U[j].number <= m /\ U[j].number # m
      <4>1. U[j].number \in 0 .. Len(C) - 2
        BY <3>1 DEF Queue, Numbered
      <4>. QED BY <1>1, <1>3, <3>1, <4>1
    <3>3. V[j] = U[j]
      BY <1>8, <3>1
    <3>4. U[j].number < m
      BY <1>1, <3>2
    <3>. QED BY <1>7, <2>2, <3>3, <3>4, Zenon
  <2>. QED BY <1>8, <2>1, <2>2
<1>12. Current(D, t, V, l)
  <2>1. m \in 0 .. Len(D) - 2
    BY <1>1, <1>4
  <2>2. t.next = D[m + 1] + t.sent /\ D[m + 2] = D[m + 1] + t.count /\ t.sent < t.count
    BY <1>1, <1>4, <1>5
  <2>3. t.heard <=> \E k \in 1 .. Len(V) : V[k].number = m
    <3>1. CASE h
      BY <1>5, <1>7, <1>8, <3>1
    <3>2. CASE ~h
      BY <1>3, <1>5, <1>8, <3>2
    <3>. QED BY <3>1, <3>2
  <2>. QED BY <1>6, <2>1, <2>2, <2>3 DEF Current
<1>13. OfUnits(D, t, V, P)
  <2>. SUFFICES ASSUME NEW i \in 1 .. Len(P)
                PROVE  /\ Arrived(t, P[i].index)
                       /\ \E k \in 1 .. Len(V) : /\ Covers(D, V[k], P[i].index)
                                                 /\ P[i].last <=> Ends(D, V[k], P[i].index)
    BY DEF OfUnits
  <2>1. PICK k \in 1 .. Len(U) : /\ Covers(C, U[k], P[i].index)
                                 /\ P[i].last <=> Ends(C, U[k], P[i].index)
    BY DEF Queue, OfUnits
  <2>2. P[i].index \in Nat
    <3>1. P[i] \in Pair
      OBVIOUS
    <3>. QED BY <3>1 DEF Pair
  <2>3. P[i].index < b
    <3>1. PICK a \in Nat, x \in Nat : a = C[U[k].number + 2] /\ x = P[i].index
      BY <2>2, UnitTyped DEF Queue
    <3>2. x < a /\ a <= b
      BY <1>3, <2>1, <3>1 DEF Covers
    <3>3. x < b
      BY <1>1, <3>2
    <3>. QED BY <3>1, <3>3
  <2>4. Arrived(t, P[i].index)
    BY <1>5, <2>3, Zenon DEF Arrived
  <2>5. k \in 1 .. Len(V) /\ V[k] = U[k]
    BY <1>8, <2>1, Zenon
  <2>6. /\ Covers(D, U[k], P[i].index) <=> Covers(C, U[k], P[i].index)
        /\ Ends(D, U[k], P[i].index) <=> Ends(C, U[k], P[i].index)
    BY <1>3, <2>1, Zenon
  <2>7. /\ Covers(D, V[k], P[i].index)
        /\ P[i].last <=> Ends(D, V[k], P[i].index)
    BY <2>1, <2>5, <2>6, Zenon
  <2>. QED BY <2>4, <2>5, <2>7, Zenon
<1>14. Rest(D, t, V, P)
  <2>. SUFFICES ASSUME NEW k \in 2 .. Len(V), NEW x \in Nat, Covers(D, V[k], x), Arrived(t, x)
                PROVE  Queued(P, x)
    BY DEF Rest
  <2>1. k \in 1 .. Len(V)
    OBVIOUS
  <2>2. CASE k \in 1 .. Len(U)
    <3>1. k \in 2 .. Len(U) /\ V[k] = U[k]
      BY <1>8, <2>2
    <3>2. Covers(C, U[k], x)
      BY <1>3, <2>2, <3>1
    <3>. QED BY <3>1, <3>2 DEF Queue, Rest, Arrived
  <2>3. CASE V[k] = u
    <3>1. b <= x /\ x < b
      BY <1>5, <1>9, <2>3 DEF Arrived
    <3>. QED BY <1>1, <3>1
  <2>. QED BY <1>8, <2>1, <2>2, <2>3
<1>15. ASSUME U # <<>> PROVE V # <<>> /\ V[1] = U[1] /\ 1 \in 1 .. Len(U)
  <2>1. 1 \in 1 .. Len(U)
    BY <1>15
  <2>. QED BY <1>8, <2>1
<1>16. ASSUME NEW e \in Nat, U # <<>>, From(C, NoUnit, U, P, e) PROVE From(D, t, V, P, e)
  <2>1. 1 \in 1 .. Len(U) /\ V[1] = U[1]
    BY <1>15, <1>16
  <2>2. t # NoUnit => e <= t.next
    <3>1. PICK a \in Nat : a = C[U[1].number + 2]
      BY <2>1, UnitTyped DEF Queue
    <3>2. e < a /\ a <= b
      BY <1>3, <1>16, <2>1, <3>1 DEF From, Covers
    <3>. QED BY <1>1, <1>5, <3>2
  <2>3. \A x \in Nat : Arrived(NoUnit, x)
    BY DEF Arrived
  <2>. QED BY <1>3, <1>16, <2>1, <2>2, <2>3 DEF From
<1>17. ASSUME U = <<>>, V # <<>> PROVE From(D, t, V, P, b) /\ V[1].number = m
  <2>1. V[1] = u
    BY <1>8, <1>17
  <2>2. \A i \in 1 .. Len(P) : FALSE
    BY <1>17 DEF Queue, OfUnits
  <2>3. Covers(D, V[1], b)
    <3>1. b <= b /\ b < b + count
      BY <1>1
    <3>. QED BY <1>9, <2>1, <3>1, Zenon
  <2>4. \A x \in Nat : x >= b => ~Arrived(t, x)
    BY <1>1, <1>5 DEF Arrived
  <2>5. t # NoUnit => b <= t.next
    BY <1>1, <1>5
  <2>. QED BY <1>7, <2>1, <2>2, <2>3, <2>4, <2>5 DEF From
<1>18. U = <<>> => Whole(D, t, V, P)
  BY <1>4, <1>17 DEF Whole
<1>19. V # <<>> => \E e \in Nat : From(D, t, V, P, e)
  <2>1. CASE U = <<>>
    BY <1>1, <1>17, <2>1
  <2>2. CASE U # <<>>
    <3>1. \E e \in Nat : From(C, NoUnit, U, P, e)
      BY <2>2 DEF Queue
    <3>. QED BY <1>16, <2>2, <3>1
  <2>. QED BY <2>1, <2>2
<1>20. Queue(D, t, V, P, l)
  BY <1>10, <1>11, <1>12, <1>13, <1>14, <1>19 DEF Queue
<1>. QED BY <1>5, <1>15, <1>16, <1>18, <1>20 DEF D
-----------------------------------------------------------------------------
(* The inductive invariant. *)
LanesTyped == /\ sending \in [Lanes -> Sent \cup {NoUnit}]
              /\ pairs \in [Lanes -> Seq(Pair)]
              /\ cuts \in Seq(Nat) /\ cuts # <<>> /\ Spaced(cuts)
              /\ position \in Nat

LaneQueue(l) == Queue(cuts, sending[l], units[l], pairs[l], l)
LaneWhole(l) == Whole(cuts, sending[l], units[l], pairs[l])
LaneFrom(l, e) == From(cuts, sending[l], units[l], pairs[l], e)

Drains(l) == state = "DRAIN" /\ l = LaneOf(next_sequence)

\* A lane neither drained nor dropped is at the beginning of a unit.
Untouched == \A l \in Lanes : l \notin dropping /\ ~Drains(l) => LaneWhole(l)

\* The pairs that left the merge, the one in the output register included.
Emitted == IF out = NoPair THEN position ELSE position + 1

\* The merge is where the next unit begins, unless it is draining it.
Here ==
    /\ next_sequence \in 0 .. Len(cuts) - 1
    /\ last_end = InRing(cuts[next_sequence + 1])
    /\ state # "DRAIN" => Emitted = cuts[next_sequence + 1]
    /\ state \in {"DECIDE", "GAP", "SKIP"} => out = NoPair
    /\ out # NoPair => out = position

\* The unit being drained is the next one, and stands where the output does.
InUnit == \A l \in Lanes : Drains(l) =>
    /\ ~Misread(Head(units[l])) /\ Head(units[l]).sequence = next_sequence
    /\ LaneFrom(l, Emitted)

\* The unit resumed at is not misread, and the gap before it leaves no doubt.
Measured ==
    /\ state \in {"GAP", "SKIP"} => resume.number \in 0 .. Len(cuts) - 2 /\ ~Misread(resume)
    /\ state = "SKIP" => (resume.sequence - next_sequence) * (MaxPairs - MinPairs) < Ring

Place == (\A l \in Lanes : LaneQueue(l)) /\ Untouched /\ Here /\ InUnit /\ Measured

PlaceInv == IInv /\ (Sound => LanesTyped /\ Place)

LEMMA PlaceInit == Init => PlaceInv
<1>. SUFFICES ASSUME Init PROVE PlaceInv
  OBVIOUS
<1>1. IInv
  BY InitIInv
<1>2. /\ cuts = <<0>> /\ sending = [l \in Lanes |-> NoUnit] /\ units = [l \in Lanes |-> <<>>]
      /\ pairs = [l \in Lanes |-> <<>>] /\ state = "SELECT" /\ next_sequence = 0 /\ last_end = 0
      /\ out = NoPair /\ position = 0 /\ dropping = {}
  BY DEF Init
<1>3. cuts \in Seq(Nat) /\ cuts # <<>> /\ Len(cuts) = 1 /\ cuts[1] = 0
  BY <1>2
<1>4. Spaced(cuts)
  <2>. SUFFICES ASSUME NEW i \in 1 .. Len(cuts), NEW j \in 1 .. Len(cuts), i <= j
                PROVE  /\ (j - i) * MinPairs <= cuts[j] - cuts[i]
                       /\ cuts[j] - cuts[i] <= (j - i) * MaxPairs
    BY DEF Spaced
  <2>1. i = 1 /\ j = 1 /\ j - i = 0 /\ cuts[j] - cuts[i] = 0
    BY <1>3
  <2>. QED BY <2>1, Bounds
<1>5. LanesTyped
  <2>1. \A S : <<>> \in Seq(S)
    OBVIOUS
  <2>. QED BY <1>2, <1>3, <1>4, <2>1 DEF LanesTyped
<1>6. ASSUME NEW l \in Lanes PROVE LaneQueue(l) /\ LaneWhole(l)
  <2>1. sending[l] = NoUnit /\ units[l] = <<>> /\ pairs[l] = <<>> /\ Len(<<>>) = 0
    BY <1>2
  <2>2. /\ Numbered(cuts, <<>>, l) /\ Ordered(<<>>) /\ Sorted(<<>>) /\ Current(cuts, NoUnit, <<>>, l)
        /\ OfUnits(cuts, NoUnit, <<>>, <<>>) /\ Rest(cuts, NoUnit, <<>>, <<>>)
    BY DEF Numbered, Ordered, Sorted, Current, OfUnits, Rest
  <2>. QED BY <2>1, <2>2 DEF LaneQueue, LaneWhole, Queue, Whole
<1>7. Here
  <2>1. InRing(0) = 0
    BY Bounds DEF InRing
  <2>. QED BY <1>2, <1>3, <2>1, Bounds DEF Here, Emitted
<1>8. InUnit /\ Measured
  BY <1>2 DEF InUnit, Measured, Drains
<1>. QED BY <1>1, <1>5, <1>6, <1>7, <1>8 DEF PlaceInv, Place, Untouched
-----------------------------------------------------------------------------
(* Lanes and types. *)
LEMMA LaneTyped ==
    ASSUME IInv, LanesTyped, NEW l \in Lanes
    PROVE  /\ cuts \in Seq(Nat) /\ Rising(cuts)
           /\ sending[l] \in Sent \cup {NoUnit}
           /\ units[l] \in Seq(Announced) /\ pairs[l] \in Seq(Pair)
BY SpacedRises DEF IInv, QueuesTyped, LanesTyped

LEMMA LaneOfInt == ASSUME NEW n \in Int PROVE LaneOf(n) \in Lanes
BY DEF LaneOf, Lanes

LEMMA HeadFirst == ASSUME NEW S, NEW Q \in Seq(S), Q # <<>> PROVE Head(Q) = Q[1] /\ Head(Q) \in S
OBVIOUS

LEMMA SoundBefore == ASSUME [Next]_vars, Sound' PROVE Sound
<1>1. ASSUME UNCHANGED ghosts, UNCHANGED overflowed PROVE Sound
  BY <1>1 DEF Sound, ghosts
<1>2. ASSUME Merge PROVE Sound
  <2>1. CASE Select \/ Drain \/ Widen \/ OfferSkip
    BY <1>1, <2>1 DEF Select, Drain, Widen, OfferSkip, queues
  <2>2. CASE Decide
    BY <2>2 DEF Decide, Sound, queues
  <2>3. CASE MeasureGap
    <3>1. ambiguous => ambiguous'
      BY <2>3 DEF MeasureGap
    <3>. QED BY <2>3, <3>1 DEF MeasureGap, Sound, queues
  <2>. QED BY <1>2, <2>1, <2>2, <2>3 DEF Merge
<1>3. ASSUME Encoder PROVE Sound
  BY <1>1, <1>3 DEF Encoder, FinishSkip, TakePair, queues
<1>4. ASSUME NEW l \in Lanes, Drop(l) PROVE Sound
  BY <1>1, <1>4 DEF Drop
<1>5. ASSUME NEW l \in Lanes, Sender(l) PROVE Sound
  <2>1. CASE Announce(l)
    BY <1>1, <2>1 DEF Announce
  <2>2. CASE LoseHeader(l)
    BY <1>1, <2>2 DEF LoseHeader, queues
  <2>3. CASE MisreadHeader(l)
    BY <1>1, <2>3 DEF MisreadHeader
  <2>4. CASE Arrive(l)
    <3>1. overflowed => overflowed'
      BY <2>4 DEF Arrive
    <3>. QED BY <2>4, <3>1 DEF Arrive, Sound, ghosts
  <2>. QED BY <1>5, <2>1, <2>2, <2>3, <2>4 DEF Sender
<1>6. CASE UNCHANGED vars
  BY <1>1, <1>6 DEF vars, queues
<1>. QED BY <1>2, <1>3, <1>4, <1>5, <1>6 DEF Next
-----------------------------------------------------------------------------
(* Steps of the merge that touch no queue. *)
LEMMA StillQueues ==
    ASSUME UNCHANGED <<cuts, sending, units, pairs>>, Place
    PROVE  /\ \A l \in Lanes : LaneQueue(l)'
           /\ \A l \in Lanes : LaneWhole(l)' <=> LaneWhole(l)
           /\ \A l \in Lanes : \A e : From(cuts', sending'[l], units'[l], pairs'[l], e) <=> LaneFrom(l, e)
BY DEF Place, LaneQueue, LaneWhole, LaneFrom

LEMMA StillTyped ==
    ASSUME LanesTyped, UNCHANGED <<cuts, sending, pairs, position>>
    PROVE  LanesTyped'
BY DEF LanesTyped

LEMMA StillPlace ==
    ASSUME Place, UNCHANGED <<cuts, sending, units, pairs, dropping, next_sequence, last_end, position>>,
           Here', Measured', state' = "DRAIN" => state = "DRAIN" /\ UNCHANGED out,
           state = "DRAIN" => state' = "DRAIN"
    PROVE  Place'
<1>1. Untouched'
  BY StillQueues DEF Place, Untouched, Drains
<1>2. InUnit'
  <2>. SUFFICES ASSUME NEW l \in Lanes, Drains(l)'
                PROVE  /\ (~Misread(Head(units[l])))' /\ Head(units'[l]).sequence = next_sequence'
                       /\ From(cuts', sending'[l], units'[l], pairs'[l], Emitted')
    BY DEF InUnit, LaneFrom
  <2>1. Drains(l) /\ Emitted' = Emitted
    BY DEF Drains, Emitted
  <2>2. /\ ~Misread(Head(units[l])) /\ Head(units[l]).sequence = next_sequence
        /\ LaneFrom(l, Emitted)
    BY <2>1 DEF Place, InUnit
  <2>3. From(cuts', sending'[l], units'[l], pairs'[l], Emitted')
    BY <2>1, <2>2, StillQueues
  <2>4. (~Misread(Head(units[l])))'
    BY <2>2 DEF Misread, InRing
  <2>. QED BY <2>2, <2>3, <2>4
<1>. QED BY <1>1, <1>2, StillQueues DEF Place

LEMMA SelectPlace == ASSUME PlaceInv, Sound, Select PROVE LanesTyped' /\ Place'
<1>1. /\ state = "SELECT" /\ out = NoPair /\ state' = "DECIDE"
      /\ UNCHANGED <<cuts, sending, units, pairs, dropping, next_sequence, last_end, position, out>>
  BY DEF Select, sender, queues, outputs
<1>2. Place
  BY DEF PlaceInv
<1>3. Here'
  BY <1>1, <1>2 DEF Place, Here, Emitted, InRing
<1>4. Measured'
  BY <1>1 DEF Measured
<1>. QED BY <1>1, <1>2, <1>3, <1>4, StillPlace, StillTyped DEF PlaceInv

LEMMA DecidePlace == ASSUME PlaceInv, Sound, Sound', Decide PROVE LanesTyped' /\ Place'
<1>1. /\ state = "DECIDE"
      /\ state' = IF DropSet(view) = {} /\ view.expected THEN "DRAIN"
                  ELSE IF DropSet(view) = {} /\ Resumes(view) THEN "GAP" ELSE "SELECT"
      /\ resume' = IF state' = "GAP" THEN view.unit ELSE NoUnit
      /\ dropping' = dropping \cup DropSet(view)
      /\ taken' = taken \cup
              {u \in (IF state' = "DRAIN" THEN {Head(units[LaneOf(next_sequence)])}
                      ELSE IF state' = "GAP" THEN {view.unit} ELSE {}) : Misread(u)}
      /\ UNCHANGED <<cuts, sending, units, pairs, next_sequence, last_end, position, out>>
  BY DEF Decide, sender, queues, outputs
<1>2. Place /\ IInv /\ LanesTyped /\ taken' = {}
  BY DEF PlaceInv, Sound
<1>3. Here'
  BY <1>1, <1>2 DEF Place, Here, Emitted, InRing
<1>4. Measured'
  <2>. SUFFICES ASSUME state' = "GAP"
                PROVE  (resume.number \in 0 .. Len(cuts) - 2 /\ ~Misread(resume))'
    BY <1>1 DEF Measured
  <2>1. DropSet(view) = {} /\ Resumes(view) /\ resume' = view.unit
    BY <1>1
  <2>2. view.earliest \in view.present /\ view.unit = Head(units[view.earliest])
        /\ view.earliest \in Lanes /\ units[view.earliest] # <<>>
    BY <1>1, <1>2, <2>1 DEF IInv, ViewCurrent, Present, Resumes
  <2>. DEFINE m == view.earliest
  <2>3. m \in Lanes /\ units[m] # <<>> /\ view.unit = Head(units[m])
    BY <2>2
  <2>. HIDE DEF m
  <2>4. units[m] \in Seq(Announced) /\ Numbered(cuts, units[m], m)
    BY <1>2, <2>3, LaneTyped DEF Place, LaneQueue, Queue
  <2>5. Head(units[m]) = units[m][1] /\ 1 \in 1 .. Len(units[m])
    BY <2>3, <2>4
  <2>6. view.unit.number \in 0 .. Len(cuts) - 2
    BY <2>3, <2>4, <2>5 DEF Numbered
  <2>7. ~Misread(view.unit)
    BY <1>1, <1>2
  <2>. QED BY <1>1, <2>1, <2>6, <2>7 DEF Misread, InRing
<1>5. Untouched'
  <2>1. \A l \in Lanes : l \notin dropping' => l \notin dropping /\ ~Drains(l)
    BY <1>1 DEF Drains
  <2>. QED BY <1>1, <1>2, <2>1, StillQueues DEF Place, Untouched
<1>6. InUnit'
  <2>. SUFFICES ASSUME NEW l \in Lanes, state' = "DRAIN", l = LaneOf(next_sequence)
                PROVE  /\ (~Misread(Head(units[l])))' /\ Head(units'[l]).sequence = next_sequence'
                       /\ From(cuts', sending'[l], units'[l], pairs'[l], Emitted')
    BY <1>1 DEF InUnit, LaneFrom, Drains
  <2>1. DropSet(view) = {} /\ view.expected
    BY <1>1
  <2>2. l \in view.present /\ Ahead(l) = 0 /\ view.present \subseteq Present
    BY <1>1, <1>2, <2>1 DEF IInv, ViewCurrent
  <2>3. units[l] # <<>> /\ l \notin dropping
    BY <2>2 DEF Present
  <2>4. units[l] \in Seq(Announced) /\ Numbered(cuts, units[l], l)
    BY <1>2, LaneTyped DEF Place, LaneQueue, Queue
  <2>5. Head(units[l]) = units[l][1] /\ Head(units[l]) \in Announced
    BY <2>3, <2>4
  <2>6. Head(units[l]).sequence = next_sequence
    <3>1. Head(units[l]).sequence \in Int /\ next_sequence \in Int
      BY <1>2, <2>5 DEF Announced, IInv, Positions
    <3>. QED BY <2>2, <3>1 DEF Ahead
  <2>7. ~Misread(Head(units[l]))
    BY <1>1, <1>2
  <2>8. units[l][1].number = next_sequence
    BY <2>5, <2>6, <2>7 DEF Misread
  <2>9. LaneWhole(l)
    BY <1>1, <1>2, <2>3 DEF Place, Untouched, Drains
  <2>10. LaneFrom(l, cuts[next_sequence + 1])
    BY <2>3, <2>8, <2>9 DEF LaneWhole, LaneFrom, Whole
  <2>11. Emitted' = cuts[next_sequence + 1]
    BY <1>1, <1>2 DEF Place, Here, Emitted
  <2>12. (~Misread(Head(units[l])))'
    BY <1>1, <2>7 DEF Misread, InRing
  <2>13. From(cuts', sending'[l], units'[l], pairs'[l], Emitted')
    BY <1>1, <1>2, <2>10, <2>11, StillQueues
  <2>. QED BY <1>1, <2>6, <2>12, <2>13
<1>. QED BY <1>1, <1>2, <1>3, <1>4, <1>5, <1>6, StillQueues, StillTyped DEF Place

LEMMA MeasureGapPlace == ASSUME PlaceInv, Sound, Sound', MeasureGap PROVE LanesTyped' /\ Place'
<1>1. /\ state = "GAP" /\ state' = "SKIP"
      /\ ambiguous' = (ambiguous \/ (resume.sequence - next_sequence) * (MaxPairs - MinPairs) >= Ring)
      /\ UNCHANGED <<cuts, sending, units, pairs, dropping, next_sequence, last_end, resume,
                     position, out>>
  BY DEF MeasureGap, sender, queues, outputs
<1>2. Place /\ IInv
  BY DEF PlaceInv
<1>3. Here'
  BY <1>1, <1>2 DEF Place, Here, Emitted, InRing
<1>4. Measured'
  <2>1. ~((resume.sequence - next_sequence) * (MaxPairs - MinPairs) >= Ring)
    BY <1>1 DEF Sound
  <2>2. resume.sequence \in Int /\ next_sequence \in Int
    BY <1>1, <1>2 DEF IInv, GapFits, Announced, Positions
  <2>3. (resume.sequence - next_sequence) * (MaxPairs - MinPairs) \in Int
    BY <2>2, Bounds
  <2>4. (resume.sequence - next_sequence) * (MaxPairs - MinPairs) < Ring
    BY <2>1, <2>3, Bounds
  <2>. QED BY <1>1, <1>2, <2>4 DEF Place, Measured, Misread, InRing
<1>. QED BY <1>1, <1>2, <1>3, <1>4, StillPlace, StillTyped DEF PlaceInv

LEMMA QuietPlace ==
    ASSUME PlaceInv, Sound,
           UNCHANGED <<cuts, sending, units, pairs, dropping, next_sequence, last_end, resume,
                       position, out, state>>
    PROVE  LanesTyped' /\ Place'
<1>2. Place /\ IInv
  BY DEF PlaceInv
<1>3. Here'
  BY <1>2 DEF Place, Here, Emitted, InRing
<1>4. Measured'
  BY <1>2 DEF Place, Measured, Misread, InRing
<1>. QED BY <1>2, <1>3, <1>4, StillPlace, StillTyped DEF PlaceInv

LEMMA TakePairPlace == ASSUME PlaceInv, Sound, TakePair PROVE LanesTyped' /\ Place'
<1>1. /\ out # NoPair /\ out' = NoPair /\ position' = position + 1
      /\ UNCHANGED <<cuts, sending, units, pairs, dropping, next_sequence, last_end, resume, state>>
  BY DEF TakePair, sender, queues, merge
<1>2. Place /\ IInv /\ LanesTyped
  BY DEF PlaceInv
<1>3. LanesTyped'
  BY <1>1, <1>2 DEF LanesTyped
<1>4. Emitted' = Emitted
  BY <1>1 DEF Emitted
<1>5. Here'
  BY <1>1, <1>2, <1>4 DEF Place, Here, InRing
<1>6. Measured'
  BY <1>1, <1>2 DEF Place, Measured, Misread, InRing
<1>7. Untouched'
  BY <1>1, <1>2, StillQueues DEF Place, Untouched, Drains
<1>8. InUnit'
  <2>. SUFFICES ASSUME NEW l \in Lanes, Drains(l)'
                PROVE  /\ (~Misread(Head(units[l])))' /\ Head(units'[l]).sequence = next_sequence'
                       /\ From(cuts', sending'[l], units'[l], pairs'[l], Emitted')
    BY DEF InUnit, LaneFrom
  <2>1. Drains(l)
    BY <1>1 DEF Drains
  <2>2. /\ ~Misread(Head(units[l])) /\ Head(units[l]).sequence = next_sequence
        /\ LaneFrom(l, Emitted)
    BY <1>2, <2>1 DEF Place, InUnit
  <2>3. From(cuts', sending'[l], units'[l], pairs'[l], Emitted')
    BY <1>1, <1>2, <1>4, <2>2, StillQueues
  <2>4. (~Misread(Head(units[l])))'
    BY <1>1, <2>2 DEF Misread, InRing
  <2>. QED BY <1>1, <2>2, <2>3, <2>4
<1>. QED BY <1>1, <1>2, <1>3, <1>5, <1>6, <1>7, <1>8, StillQueues DEF Place
-----------------------------------------------------------------------------
(* The encoder accepts a skip: it is exact. *)
LEMMA RingSum ==
    ASSUME NEW a \in Int, NEW g \in Int
    PROVE  InRing(InRing(a) + g) = InRing(a + g)
<1>1. InRing(a) \in Int /\ Ring \in Int
  BY InRingInt, Bounds
<1>2. PICK k \in Int : a = InRing(a) + k * Ring
  BY RingDivision
<1>3. InRing(a) + g \in Int
  BY <1>1
<1>4. PICK j \in Int : InRing(a) + g = InRing(InRing(a) + g) + j * Ring
  BY <1>3, RingDivision
<1>5. InRing(InRing(a) + g) \in 0 .. Ring - 1
  BY <1>3, InRingInt
<1>. DEFINE r == InRing(InRing(a) + g)
            b == InRing(a)
<1>6. r \in 0 .. Ring - 1 /\ b \in Int /\ a = b + k * Ring /\ b + g = r + j * Ring /\ r \in Int
  BY <1>1, <1>2, <1>4, <1>5
<1>. HIDE DEF r, b
<1>7. PICK t \in Int, v \in Int : t = k * Ring /\ v = j * Ring
  BY <1>1
<1>8. (k + j) * Ring = t + v
  BY <1>1, <1>7
<1>9. a + g = r + (k + j) * Ring
  BY <1>6, <1>7, <1>8
<1>10. k + j \in Int /\ a + g \in Int
  OBVIOUS
<1>11. InRing(a + g) = r
  BY <1>6, <1>9, <1>10, RingUnique
<1>. QED BY <1>11 DEF r

LEMMA ProductOrder ==
    ASSUME NEW d \in Nat, (d * (MaxPairs - MinPairs)) < Ring
    PROVE  d * MaxPairs < (d * MinPairs) + Ring
<1>1. MaxPairs \in Int /\ MinPairs \in Int /\ Ring \in Int
  BY Bounds
<1>2. d * (MaxPairs - MinPairs) = (d * MaxPairs) - (d * MinPairs)
  BY <1>1
<1>3. PICK a \in Int, b \in Int : a = d * MaxPairs /\ b = d * MinPairs
  BY <1>1
<1>4. a - b < Ring
  BY <1>2, <1>3
<1>5. a < b + Ring
  BY <1>1, <1>4
<1>. QED BY <1>3, <1>5

LEMMA SkipIsExact ==
    ASSUME PlaceInv, Sound, skip # NoSkip
    PROVE  /\ state = "SKIP" /\ resume.sequence \in 0 .. Len(cuts) - 2
           /\ resume.first = InRing(cuts[resume.sequence + 1])
           /\ cuts[next_sequence + 1] + skip = cuts[resume.sequence + 1]
<1>1. Place /\ IInv /\ LanesTyped /\ cuts \in Seq(Nat)
  BY DEF PlaceInv, LanesTyped
<1>2. /\ state = "SKIP" /\ skip = gap.pairs /\ gap.pairs \in Int
      /\ resume \in Announced /\ resume.sequence >= next_sequence
  BY <1>1 DEF IInv, GapFits
<1>3. /\ resume.number \in 0 .. Len(cuts) - 2 /\ ~Misread(resume)
      /\ (resume.sequence - next_sequence) * (MaxPairs - MinPairs) < Ring
  BY <1>1, <1>2 DEF Place, Measured
<1>4. resume.number = resume.sequence /\ resume.first = InRing(cuts[resume.sequence + 1])
  BY <1>3 DEF Misread
<1>5. next_sequence \in 0 .. Len(cuts) - 1 /\ last_end = InRing(cuts[next_sequence + 1])
  BY <1>1 DEF Place, Here
<1>. DEFINE m == resume.sequence
            n == next_sequence
            i == n + 1
            j == m + 1
<1>6. m \in 0 .. Len(cuts) - 2 /\ n \in 0 .. Len(cuts) - 1 /\ m >= n /\ Len(cuts) \in Nat
  BY <1>1, <1>2, <1>3, <1>4, <1>5
<1>6a. (m - n) * (MaxPairs - MinPairs) < Ring
  BY <1>3
<1>. HIDE DEF m, n
<1>7. i \in 1 .. Len(cuts) /\ j \in 1 .. Len(cuts) /\ i <= j /\ j - i = m - n /\ m - n \in Nat
  BY <1>6
<1>8. cuts[i] \in Nat /\ cuts[j] \in Nat
  BY <1>1, <1>7
<1>. DEFINE g == cuts[j] - cuts[i]
<1>9. (m - n) * MinPairs <= g /\ g <= (m - n) * MaxPairs
  <2>1. (j - i) * MinPairs <= g /\ g <= (j - i) * MaxPairs
    BY <1>1, <1>7 DEF LanesTyped, Spaced
  <2>. QED BY <1>7, <2>1
<1>10. g \in Nat
  <2>1. cuts[i] <= cuts[j]
    <3>1. Rising(cuts)
      BY <1>1, SpacedRises DEF LanesTyped
    <3>. QED BY <1>1, <1>7, <3>1, RisingOrder
  <2>. QED BY <1>8, <2>1
<1>11. cuts[i] + g = cuts[j]
  BY <1>8
<1>12. (m - n) * MaxPairs < (m - n) * MinPairs + Ring
  BY <1>6a, <1>7, ProductOrder
<1>13. InRing(InRing(cuts[i]) + g) = InRing(cuts[j])
  <2>1. PICK a \in Nat, b \in Nat, d \in Nat : a = cuts[i] /\ b = cuts[j] /\ d = g
    BY <1>8, <1>10
  <2>2. a + d = b
    BY <1>11, <2>1
  <2>3. a \in Int /\ d \in Int
    OBVIOUS
  <2>4. InRing(InRing(a) + d) = InRing(a + d)
    BY <2>3, RingSum
  <2>. QED BY <2>1, <2>2, <2>4, Zenon
<1>. HIDE DEF g
<1>14. InRing(last_end + g) = resume.first
  BY <1>4, <1>5, <1>13 DEF m, n
<1>15. skip = g
  BY <1>1, <1>9, <1>10, <1>12, <1>14, SkipExact DEF m, n
<1>. QED BY <1>2, <1>4, <1>6, <1>11, <1>15 DEF m, n

LEMMA FinishSkipPlace == ASSUME PlaceInv, Sound, FinishSkip PROVE LanesTyped' /\ Place'
<1>1. /\ state = "SKIP" /\ skip # NoSkip /\ state' = "SELECT" /\ position' = position + skip
      /\ last_end' = resume.first /\ next_sequence' = resume.sequence
      /\ UNCHANGED <<cuts, sending, units, pairs, dropping, out>>
  BY DEF FinishSkip, sender, queues
<1>2. Place /\ IInv /\ LanesTyped
  BY DEF PlaceInv
<1>3. /\ resume.sequence \in 0 .. Len(cuts) - 2
      /\ resume.first = InRing(cuts[resume.sequence + 1])
      /\ cuts[next_sequence + 1] + skip = cuts[resume.sequence + 1]
  BY <1>1, SkipIsExact
<1>4. out = NoPair /\ position = cuts[next_sequence + 1]
  BY <1>1, <1>2 DEF Place, Here, Emitted
<1>5. position' = cuts[resume.sequence + 1] /\ position' \in Nat
  <2>1. position' = cuts[resume.sequence + 1]
    BY <1>1, <1>3, <1>4
  <2>. DEFINE m == resume.sequence
  <2>2. m \in 0 .. Len(cuts) - 2 /\ cuts \in Seq(Nat)
    BY <1>2, <1>3 DEF LanesTyped
  <2>. HIDE DEF m
  <2>3. cuts[m + 1] \in Nat
    BY <2>2
  <2>. QED BY <2>1, <2>3 DEF m
<1>6. LanesTyped'
  BY <1>1, <1>2, <1>5 DEF LanesTyped
<1>7. Here'
  <2>. DEFINE m == resume.sequence
  <2>1. m \in 0 .. Len(cuts) - 2 /\ Len(cuts) \in Nat
    BY <1>2, <1>3 DEF LanesTyped
  <2>. HIDE DEF m
  <2>2. m \in 0 .. Len(cuts) - 1
    BY <2>1
  <2>3. next_sequence' \in 0 .. Len(cuts') - 1
    BY <1>1, <2>2 DEF m
  <2>. QED BY <1>1, <1>3, <1>4, <1>5, <2>3 DEF Here, Emitted, InRing
<1>8. Measured' /\ InUnit'
  BY <1>1 DEF Measured, InUnit, Drains
<1>9. Untouched'
  BY <1>1, <1>2, StillQueues DEF Place, Untouched, Drains
<1>. QED BY <1>1, <1>2, <1>6, <1>7, <1>8, <1>9, StillQueues DEF Place
-----------------------------------------------------------------------------
(* Steps of the lanes: the queues grow. *)
LEMMA GrownPlace ==
    ASSUME Place, IInv, LanesTyped,
           UNCHANGED <<state, dropping, next_sequence, last_end, resume, out, position>>,
           cuts' \in Seq(Nat), Len(cuts) <= Len(cuts'), \A i \in 1 .. Len(cuts) : cuts'[i] = cuts[i],
           \A l \in Lanes : LaneQueue(l)',
           \A l \in Lanes : units[l] # <<>> => units'[l] # <<>> /\ Head(units'[l]) = Head(units[l])
                                               /\ units'[l][1] = units[l][1],
           \A l \in Lanes : units[l] = <<>> => LaneWhole(l)',
           \A l \in Lanes, e \in Nat : units[l] # <<>> /\ LaneFrom(l, e) =>
               From(cuts', sending'[l], units'[l], pairs'[l], e)
    PROVE  Place'
<1>1. cuts \in Seq(Nat) /\ cuts # <<>> /\ Len(cuts) \in Nat /\ Len(cuts') \in Nat
  BY DEF LanesTyped
<1>2. ASSUME NEW n \in 0 .. Len(cuts) - 2
      PROVE  n \in 0 .. Len(cuts') - 2 /\ cuts'[n + 1] = cuts[n + 1] /\ cuts[n + 1] \in Nat
  <2>1. n + 1 \in 1 .. Len(cuts) /\ n \in 0 .. Len(cuts') - 2
    BY <1>1
  <2>. QED BY <1>1, <2>1
<1>3. ASSUME NEW l \in Lanes, units[l] # <<>>
      PROVE  /\ units[l][1] = Head(units[l]) /\ units[l][1].number \in 0 .. Len(cuts) - 2
             /\ units[l] \in Seq(Announced)
  <2>1. units[l] \in Seq(Announced) /\ Numbered(cuts, units[l], l)
    BY LaneTyped DEF Place, LaneQueue, Queue
  <2>2. 1 \in 1 .. Len(units[l]) /\ units[l][1] = Head(units[l])
    BY <1>3, <2>1
  <2>. QED BY <2>1, <2>2 DEF Numbered
<1>4. ASSUME NEW l \in Lanes, LaneWhole(l) PROVE LaneWhole(l)'
  <2>1. CASE units[l] = <<>>
    BY <2>1
  <2>2. CASE units[l] # <<>>
    <3>. DEFINE n == units[l][1].number
    <3>1. n \in 0 .. Len(cuts) - 2 /\ units'[l][1] = units[l][1]
      BY <1>3, <2>2
    <3>2. LaneFrom(l, cuts[n + 1])
      BY <1>4, <2>2 DEF LaneWhole, LaneFrom, Whole
    <3>3. cuts'[n + 1] = cuts[n + 1] /\ cuts[n + 1] \in Nat
      BY <1>2, <3>1
    <3>4. From(cuts', sending'[l], units'[l], pairs'[l], cuts'[n + 1])
      BY <2>2, <3>2, <3>3
    <3>5. From(cuts', sending'[l], units'[l], pairs'[l], cuts'[units'[l][1].number + 1])
      BY <3>1, <3>4
    <3>. QED BY <3>5 DEF LaneWhole, Whole
  <2>. QED BY <2>1, <2>2
<1>5. Untouched'
  BY <1>4 DEF Place, Untouched, Drains
<1>6. Here'
  <2>. DEFINE n == next_sequence
  <2>1. n \in 0 .. Len(cuts) - 1
    BY DEF Place, Here
  <2>. HIDE DEF n
  <2>2. n \in 0 .. Len(cuts') - 1 /\ n + 1 \in 1 .. Len(cuts)
    BY <1>1, <2>1
  <2>3. cuts'[n + 1] = cuts[n + 1]
    BY <2>2
  <2>4. next_sequence \in 0 .. Len(cuts') - 1 /\ cuts'[next_sequence + 1] = cuts[next_sequence + 1]
    BY <2>2, <2>3 DEF n
  <2>. QED BY <2>4 DEF Place, Here, Emitted, InRing
<1>7. Measured'
  <2>1. state \in {"GAP", "SKIP"} => (resume.number \in 0 .. Len(cuts) - 2 /\ ~Misread(resume))'
    <3>. SUFFICES ASSUME state \in {"GAP", "SKIP"}
                  PROVE  (resume.number \in 0 .. Len(cuts) - 2 /\ ~Misread(resume))'
      OBVIOUS
    <3>1. resume.number \in 0 .. Len(cuts) - 2 /\ ~Misread(resume)
      BY DEF Place, Measured
    <3>. QED BY <1>2, <3>1 DEF Misread, InRing
  <2>2. state = "SKIP" => (resume.sequence - next_sequence) * (MaxPairs - MinPairs) < Ring
    BY DEF Place, Measured
  <2>. QED BY <2>1, <2>2 DEF Measured
<1>8. InUnit'
  <2>. SUFFICES ASSUME NEW l \in Lanes, Drains(l)'
                PROVE  /\ (~Misread(Head(units[l])))' /\ Head(units'[l]).sequence = next_sequence'
                       /\ From(cuts', sending'[l], units'[l], pairs'[l], Emitted')
    BY DEF InUnit, LaneFrom
  <2>1. Drains(l) /\ Emitted' = Emitted /\ Emitted \in Nat
    BY DEF Drains, Emitted, LanesTyped
  <2>2. /\ ~Misread(Head(units[l])) /\ Head(units[l]).sequence = next_sequence
        /\ LaneFrom(l, Emitted)
    BY <2>1 DEF Place, InUnit
  <2>3. units[l] # <<>>
    BY <2>1 DEF IInv, DrainReady, Drains, Present
  <2>4. Head(units'[l]) = Head(units[l]) /\ Head(units[l]).number \in 0 .. Len(cuts) - 2
    BY <1>3, <2>3
  <2>5. (~Misread(Head(units[l])))'
    BY <1>2, <2>2, <2>4 DEF Misread, InRing
  <2>6. From(cuts', sending'[l], units'[l], pairs'[l], Emitted')
    BY <2>1, <2>2, <2>3
  <2>. QED BY <2>2, <2>4, <2>5, <2>6
<1>. QED BY <1>5, <1>6, <1>7, <1>8 DEF Place

\* A pair arrives; a full queue would have dropped it.
LEMMA ArrivePlace ==
    ASSUME PlaceInv, Sound, Sound', NEW l \in Lanes, Arrive(l) PROVE LanesTyped' /\ Place'
<1>. DEFINE s == sending[l]
            t == sending'[l]
            Q == pairs'[l]
<1>1. /\ s # NoUnit
      /\ sending' = [sending EXCEPT ![l] =
             IF s.sent + 1 = s.count THEN NoUnit ELSE [s EXCEPT !.sent = @ + 1, !.next = @ + 1]]
      /\ IF s.heard /\ Room(l)
         THEN pairs' = [pairs EXCEPT ![l] =
                  Append(@, [index |-> s.next, last |-> s.sent + 1 = s.count])]
         ELSE UNCHANGED pairs
      /\ overflowed' = (overflowed \/ (s.heard /\ ~Room(l)))
      /\ UNCHANGED <<cuts, units, state, dropping, next_sequence, last_end, resume, out, position>>
  BY DEF Arrive, merge, outputs
<1>2. Place /\ IInv /\ LanesTyped
  BY DEF PlaceInv
<1>3. /\ cuts \in Seq(Nat) /\ Rising(cuts) /\ s \in Sent \cup {NoUnit}
      /\ units[l] \in Seq(Announced) /\ pairs[l] \in Seq(Pair)
  BY <1>2, LaneTyped
<1>4. s.heard => Room(l)
  BY <1>1 DEF Sound
<1>5. /\ t = IF s.sent + 1 = s.count THEN NoUnit ELSE [s EXCEPT !.sent = @ + 1, !.next = @ + 1]
      /\ \A m \in Lanes : m # l => sending'[m] = sending[m]
  BY <1>1, <1>2 DEF LanesTyped
<1>6. /\ Q = IF s.heard THEN Append(pairs[l], [index |-> s.next, last |-> s.sent + 1 = s.count])
             ELSE pairs[l]
      /\ \A m \in Lanes : m # l => pairs'[m] = pairs[m]
  BY <1>1, <1>2, <1>4 DEF LanesTyped
<1>7. Queue(cuts, s, units[l], pairs[l], l)
  BY <1>2 DEF Place, LaneQueue
<1>7a. s # NoUnit
  BY <1>1
<1>. HIDE DEF s, t, Q
<1>8. /\ t \in Sent \cup {NoUnit} /\ Q \in Seq(Pair) /\ Queue(cuts, t, units[l], Q, l)
      /\ \A e \in Nat : units[l] # <<>> /\ From(cuts, s, units[l], pairs[l], e)
                            => From(cuts, t, units[l], Q, e)
  <2>1. t = AfterNext(s) /\ Q = WithNext(s, pairs[l])
    BY <1>5, <1>6 DEF AfterNext, WithNext
  <2>. QED BY <1>3, <1>7, <1>7a, <2>1, Arriving, Zenon
<1>9. LanesTyped'
  <2>1. sending' \in [Lanes -> Sent \cup {NoUnit}]
    BY <1>1, <1>2, <1>5, <1>8 DEF LanesTyped, t
  <2>2. pairs' \in [Lanes -> Seq(Pair)]
    BY <1>1, <1>2, <1>6, <1>8 DEF LanesTyped, Q
  <2>. QED BY <1>1, <1>2, <2>1, <2>2 DEF LanesTyped
<1>10. \A m \in Lanes : LaneQueue(m)'
  <2>. SUFFICES ASSUME NEW m \in Lanes PROVE LaneQueue(m)'
    OBVIOUS
  <2>1. CASE m = l
    BY <1>1, <1>8, <2>1 DEF LaneQueue, t, Q
  <2>2. CASE m # l
    BY <1>1, <1>2, <1>5, <1>6, <2>2 DEF LaneQueue, Place
  <2>. QED BY <2>1, <2>2
<1>11. ASSUME NEW m \in Lanes, NEW e \in Nat, units[m] # <<>>, LaneFrom(m, e)
       PROVE  From(cuts', sending'[m], units'[m], pairs'[m], e)
  <2>1. CASE m = l
    BY <1>1, <1>8, <1>11, <2>1 DEF LaneFrom, s, t, Q
  <2>2. CASE m # l
    BY <1>1, <1>5, <1>6, <1>11, <2>2 DEF LaneFrom
  <2>. QED BY <2>1, <2>2
<1>12. \A m \in Lanes : units[m] = <<>> => LaneWhole(m)'
  BY <1>1 DEF LaneWhole, Whole
<1>13. cuts' \in Seq(Nat) /\ Len(cuts) <= Len(cuts') /\ \A i \in 1 .. Len(cuts) : cuts'[i] = cuts[i]
  BY <1>1, <1>3
<1>14. Place'
  BY <1>1, <1>2, <1>10, <1>11, <1>12, <1>13, GrownPlace
<1>. QED BY <1>9, <1>14

\* A unit is started, and its header heard or lost.
LEMMA StartPlace ==
    ASSUME PlaceInv, Sound, NEW l \in Lanes, NEW count \in MinPairs .. MaxPairs, NEW h \in BOOLEAN,
           Start(l, count, h), NEW u \in Announced, u.number = Len(cuts) - 1, u.count = count,
           units' = IF h THEN [units EXCEPT ![l] = Append(@, u)] ELSE units,
           UNCHANGED <<pairs, state, dropping, next_sequence, last_end, resume, out, position>>
    PROVE  LanesTyped' /\ Place'
<1>. DEFINE b == cuts[Len(cuts)]
            D == Cut(cuts, count)
            t == Opened(cuts, count, h)
            V == WithUnit(units[l], u, h)
<1>1. /\ sending[l] = NoUnit /\ LaneOf(Len(cuts) - 1) = l
      /\ cuts' = D /\ sending' = [sending EXCEPT ![l] = t]
  BY DEF Start, Cut, Opened
<1>2. Place /\ IInv /\ LanesTyped /\ QueuesTyped
  BY DEF PlaceInv, IInv
<1>3. /\ cuts \in Seq(Nat) /\ Rising(cuts) /\ cuts # <<>> /\ Len(cuts) \in Nat /\ Len(cuts) >= 1
      /\ units[l] \in Seq(Announced) /\ pairs[l] \in Seq(Pair)
  BY <1>2, LaneTyped DEF LanesTyped
<1>4. count \in Nat /\ count > 0 /\ b \in Nat
  BY <1>3, Bounds
<1>5. V \in Seq(Announced)
  BY <1>3 DEF WithUnit
<1>6. /\ units'[l] = V /\ \A m \in Lanes : m # l => units'[m] = units[m]
  BY <1>2 DEF QueuesTyped, WithUnit
<1>7. /\ sending'[l] = t /\ \A m \in Lanes : m # l => sending'[m] = sending[m]
  BY <1>1, <1>2 DEF LanesTyped
<1>8. Spaced(D)
  BY <1>2, <1>3, SpacedGrows DEF LanesTyped, Cut
<1>9. D \in Seq(Nat) /\ D # <<>> /\ Len(D) = Len(cuts) + 1 /\ \A i \in 1 .. Len(cuts) : D[i] = cuts[i]
  <2>1. b + count \in Nat
    BY <1>4
  <2>2. PICK v \in Nat : v = b + count
    BY <2>1
  <2>3. D = Append(cuts, v)
    BY <2>2 DEF Cut
  <2>. QED BY <1>3, <2>3
<1>9a. b + count \in Nat
  BY <1>4
<1>10. Queue(cuts, NoUnit, units[l], pairs[l], l)
  BY <1>1, <1>2 DEF Place, LaneQueue
<1>11. /\ t \in Sent /\ Queue(D, t, V, pairs[l], l)
       /\ \A e \in Nat : units[l] # <<>> /\ From(cuts, NoUnit, units[l], pairs[l], e) =>
              V # <<>> /\ From(D, t, V, pairs[l], e)
       /\ units[l] # <<>> => V # <<>> /\ V[1] = units[l][1]
       /\ units[l] = <<>> => Whole(D, t, V, pairs[l])
  <2>1. t = Opened(cuts, count, h) /\ V = WithUnit(units[l], u, h)
    OBVIOUS
  <2>. HIDE DEF t, V
  <2>2. LaneOf(Len(cuts) - 1) = l /\ u.number = Len(cuts) - 1 /\ u.count = count
    BY <1>1
  <2>3. /\ cuts \in Seq(Nat) /\ Rising(cuts) /\ count \in Nat /\ count > 0
        /\ units[l] \in Seq(Announced) /\ pairs[l] \in Seq(Pair) /\ V \in Seq(Announced)
    BY <1>3, <1>4, <1>5
  <2>. QED BY ONLY <1>10, <2>1, <2>2, <2>3, h \in BOOLEAN, u \in Announced, l \in Lanes, OwnStarts
<1>12. ASSUME NEW m \in Lanes, m # l
       PROVE  /\ Queue(D, sending[m], units[m], pairs[m], m)
              /\ \A e \in Nat : units[m] # <<>> /\ LaneFrom(m, e) =>
                     From(D, sending[m], units[m], pairs[m], e)
  <2>1. LaneOf(Len(cuts) - 1) # m
    BY <1>1, <1>12
  <2>2. Queue(cuts, sending[m], units[m], pairs[m], m)
    BY <1>2 DEF Place, LaneQueue
  <2>3. /\ sending[m] \in Sent \cup {NoUnit}
        /\ units[m] \in Seq(Announced) /\ pairs[m] \in Seq(Pair)
    BY <1>2, LaneTyped
  <2>. QED BY <1>3, <1>9a, <2>1, <2>2, <2>3, OtherStarts, Zenon DEF LaneFrom, Cut
<1>. HIDE DEF b, D, t, V
<1>13. LanesTyped'
  <2>1. sending' \in [Lanes -> Sent \cup {NoUnit}]
    BY <1>1, <1>2, <1>11 DEF LanesTyped
  <2>. QED BY <1>1, <1>2, <1>8, <1>9, <2>1 DEF LanesTyped
<1>14. \A m \in Lanes : LaneQueue(m)'
  BY <1>1, <1>6, <1>7, <1>11, <1>12 DEF LaneQueue
<1>15. ASSUME NEW m \in Lanes, NEW e \in Nat, units[m] # <<>>, LaneFrom(m, e)
       PROVE  From(cuts', sending'[m], units'[m], pairs'[m], e)
  <2>1. CASE m = l
    BY <1>1, <1>6, <1>7, <1>11, <1>15, <2>1 DEF LaneFrom
  <2>2. CASE m # l
    BY <1>1, <1>6, <1>7, <1>12, <1>15, <2>2
  <2>. QED BY <2>1, <2>2
<1>16. ASSUME NEW m \in Lanes, units[m] = <<>> PROVE LaneWhole(m)'
  <2>1. CASE m = l
    BY <1>1, <1>6, <1>7, <1>11, <1>16, <2>1 DEF LaneWhole
  <2>2. CASE m # l
    BY <1>6, <1>16, <2>2 DEF LaneWhole, Whole
  <2>. QED BY <2>1, <2>2
<1>17. ASSUME NEW m \in Lanes, units[m] # <<>>
       PROVE  /\ units'[m] # <<>> /\ Head(units'[m]) = Head(units[m])
              /\ units'[m][1] = units[m][1]
  <2>1. CASE m = l
    <3>1. V # <<>> /\ V[1] = units[l][1] /\ units'[l] = V
      BY <1>6, <1>11, <1>17, <2>1
    <3>2. Head(V) = V[1] /\ Head(units[l]) = units[l][1]
      BY <1>3, <1>5, <1>17, <2>1, <3>1, HeadFirst
    <3>. QED BY <2>1, <3>1, <3>2
  <2>2. CASE m # l
    BY <1>6, <1>17, <2>2
  <2>. QED BY <2>1, <2>2
<1>18. cuts' \in Seq(Nat) /\ Len(cuts) <= Len(cuts') /\ \A i \in 1 .. Len(cuts) : cuts'[i] = cuts[i]
  BY <1>1, <1>3, <1>9
<1>19. Place'
  BY <1>2, <1>14, <1>15, <1>16, <1>17, <1>18, GrownPlace
<1>. QED BY <1>13, <1>19

LEMMA AnnouncePlace ==
    ASSUME PlaceInv, Sound, NEW l \in Lanes, Announce(l) PROVE LanesTyped' /\ Place'
<1>1. PICK count \in MinPairs .. MaxPairs :
          /\ Start(l, count, TRUE)
          /\ units' = [units EXCEPT ![l] =
                 Append(@, Header(Len(cuts) - 1, InRing(cuts[Len(cuts)]), count))]
          /\ UNCHANGED <<faults, pairs, overflowed, merge, dropping, outputs, counts, ghosts>>
  BY DEF Announce
<1>2. QueuesTyped
  BY DEF PlaceInv, IInv
<1>3. Len(cuts) - 1 \in Nat /\ count \in Nat /\ cuts[Len(cuts)] \in Int
  <2>1. Len(cuts) - 1 \in Nat /\ count \in Nat /\ cuts[Len(cuts)] \in Nat
    BY <1>1, <1>2, StartTyped
  <2>. QED BY <2>1
<1>. DEFINE u == Header(Len(cuts) - 1, InRing(cuts[Len(cuts)]), count)
<1>4. InRing(cuts[Len(cuts)]) \in 0 .. Ring - 1
  BY <1>3, InRingInt, Zenon
<1>5. u \in Announced /\ u.number = Len(cuts) - 1 /\ u.count = count
  <2>. DEFINE first == InRing(cuts[Len(cuts)])
              n == Len(cuts) - 1
  <2>1. first \in 0 .. Ring - 1 /\ n \in Nat
    BY <1>3, <1>4
  <2>. HIDE DEF first, n
  <2>2. Header(n, first, count) \in Announced /\ Header(n, first, count).number = n
        /\ Header(n, first, count).count = count
    BY <1>3, <2>1 DEF Header, Announced
  <2>. QED BY <2>2 DEF first, n
<1>6. UNCHANGED <<pairs, state, dropping, next_sequence, last_end, resume, out, position>>
  BY <1>1 DEF merge, outputs
<1>7. units' = IF TRUE THEN [units EXCEPT ![l] = Append(@, u)] ELSE units
  BY <1>1
<1>. HIDE DEF u
<1>. QED BY <1>1, <1>5, <1>6, <1>7, StartPlace

LEMMA MisreadPlace ==
    ASSUME PlaceInv, Sound, NEW l \in Lanes, MisreadHeader(l) PROVE LanesTyped' /\ Place'
<1>1. PICK count \in MinPairs .. MaxPairs, off \in Misreadings \cup {0}, first \in 0 .. Ring - 1 :
          /\ Start(l, count, TRUE)
          /\ units' = [units EXCEPT ![l] =
                 Append(@, [Header(Len(cuts) - 1, first, count)
                                EXCEPT !.sequence = Len(cuts) - 1 + off])]
          /\ UNCHANGED <<pairs, overflowed, merge, dropping, outputs, counts, ghosts>>
  BY DEF MisreadHeader
<1>2. QueuesTyped
  BY DEF PlaceInv, IInv
<1>3. Len(cuts) - 1 \in Nat /\ count \in Nat /\ off \in Int
  <2>1. Len(cuts) - 1 \in Nat /\ count \in Nat
    BY <1>1, <1>2, StartTyped
  <2>2. off \in Int
    BY ReorderAssumption DEF ReorderAssumption
  <2>. QED BY <2>1, <2>2
<1>. DEFINE u == [Header(Len(cuts) - 1, first, count) EXCEPT !.sequence = Len(cuts) - 1 + off]
<1>5. u \in Announced /\ u.number = Len(cuts) - 1 /\ u.count = count
  <2>1. u \in Announced
    BY <1>3, HeaderTyped
  <2>. QED BY <2>1 DEF Header
<1>6. UNCHANGED <<pairs, state, dropping, next_sequence, last_end, resume, out, position>>
  BY <1>1 DEF merge, outputs
<1>7. units' = IF TRUE THEN [units EXCEPT ![l] = Append(@, u)] ELSE units
  BY <1>1
<1>. HIDE DEF u
<1>. QED BY <1>1, <1>5, <1>6, <1>7, StartPlace

LEMMA LoseHeaderPlace ==
    ASSUME PlaceInv, Sound, NEW l \in Lanes, LoseHeader(l) PROVE LanesTyped' /\ Place'
<1>1. PICK count \in MinPairs .. MaxPairs :
          Start(l, count, FALSE) /\ UNCHANGED <<queues, merge, dropping, outputs, counts, ghosts>>
  BY DEF LoseHeader
<1>2. QueuesTyped
  BY DEF PlaceInv, IInv
<1>3. Len(cuts) - 1 \in Nat /\ count \in Nat
  BY <1>1, <1>2, StartTyped
<1>. DEFINE n == Len(cuts) - 1
            u == Header(n, 0, count)
<1>4. n \in Nat
  BY <1>3
<1>. HIDE DEF n
<1>5. u \in Announced /\ u.number = n /\ u.count = count
  BY <1>3, <1>4, Bounds DEF Header, Announced
<1>6. UNCHANGED <<pairs, state, dropping, next_sequence, last_end, resume, out, position>>
  BY <1>1 DEF queues, merge, outputs
<1>7. units' = IF FALSE THEN [units EXCEPT ![l] = Append(@, u)] ELSE units
  BY <1>1 DEF queues
<1>. HIDE DEF u
<1>. QED BY <1>1, <1>5, <1>6, <1>7, StartPlace DEF n
-----------------------------------------------------------------------------
(* Steps that take a pair from a lane's queue. *)

\* The head pair of lane l goes, and with the last one its unit.
LEMMA PopLane ==
    ASSUME IInv, LanesTyped, NEW l \in Lanes, LaneQueue(l), NEW e \in Nat, LaneFrom(l, e),
           units[l] # <<>>, pairs[l] # <<>>, PopPair(l), PopUnit(l), UNCHANGED <<cuts, sending>>
    PROVE  /\ pairs' \in [Lanes -> Seq(Pair)]
           /\ \A m \in Lanes : m # l => units'[m] = units[m] /\ pairs'[m] = pairs[m]
           /\ LaneQueue(l)'
           /\ Head(pairs[l]).index = e
           /\ Head(pairs[l]).last => Ends(cuts, Head(units[l]), e) /\ LaneWhole(l)'
           /\ ~Head(pairs[l]).last => /\ units'[l] = units[l]
                                      /\ From(cuts', sending'[l], units'[l], pairs'[l], e + 1)
<1>. DEFINE s == sending[l]
            U == units[l]
            P == pairs[l]
<1>1. /\ cuts \in Seq(Nat) /\ Rising(cuts) /\ s \in Sent \cup {NoUnit}
      /\ U \in Seq(Announced) /\ P \in Seq(Pair)
  BY LaneTyped
<1>2. Queue(cuts, s, U, P, l) /\ From(cuts, s, U, P, e) /\ U # <<>> /\ P # <<>>
  BY DEF LaneQueue, LaneFrom
<1>3. /\ pairs'[l] = Tail(P) /\ \A m \in Lanes : m # l => pairs'[m] = pairs[m]
      /\ pairs' = [pairs EXCEPT ![l] = Tail(P)]
  BY DEF PopPair, LanesTyped
<1>4. /\ units'[l] = IF Head(P).last THEN Tail(U) ELSE U
      /\ \A m \in Lanes : m # l => units'[m] = units[m]
  BY DEF PopUnit, IInv, QueuesTyped
<1>5. /\ sending'[l] = s /\ cuts' = cuts
      /\ LaneQueue(l)' <=> Queue(cuts, s, units'[l], pairs'[l], l)
      /\ LaneWhole(l)' <=> Whole(cuts, s, units'[l], pairs'[l])
  BY DEF LaneQueue, LaneWhole
<1>. HIDE DEF s, U, P
<1>6. Head(P) = P[1] /\ Head(U) = U[1] /\ Tail(P) \in Seq(Pair)
  BY <1>1, <1>2, HeadFirst, TailOf
<1>7. P[1].index = e /\ (P[1].last <=> Ends(cuts, U[1], e))
  BY <1>1, <1>2, HeadIs
<1>8. ASSUME P[1].last PROVE Queue(cuts, s, Tail(U), Tail(P), l) /\ Whole(cuts, s, Tail(U), Tail(P))
  BY <1>1, <1>2, <1>8, PopLast
<1>9. ASSUME ~P[1].last PROVE Queue(cuts, s, U, Tail(P), l) /\ From(cuts, s, U, Tail(P), e + 1)
  BY <1>1, <1>2, <1>9, PopInner
<1>10. pairs' \in [Lanes -> Seq(Pair)]
  BY <1>3, <1>6 DEF LanesTyped
<1>11. CASE P[1].last
  <2>1. units'[l] = Tail(U)
    BY <1>4, <1>6, <1>11
  <2>2. Queue(cuts, s, units'[l], pairs'[l], l) /\ Whole(cuts, s, units'[l], pairs'[l])
    BY <1>3, <1>8, <1>11, <2>1
  <2>. QED BY <1>3, <1>4, <1>5, <1>6, <1>7, <1>10, <1>11, <2>2 DEF P, U
<1>12. CASE ~P[1].last
  <2>1. units'[l] = U
    BY <1>4, <1>6, <1>12
  <2>2. Queue(cuts, s, units'[l], pairs'[l], l) /\ From(cuts, s, units'[l], pairs'[l], e + 1)
    BY <1>3, <1>9, <1>12, <2>1
  <2>. QED BY <1>3, <1>4, <1>5, <1>6, <1>7, <1>10, <1>12, <2>1, <2>2 DEF P, U
<1>. QED BY <1>11, <1>12

LEMMA HeadUnit ==
    ASSUME IInv, LanesTyped, NEW l \in Lanes, LaneQueue(l), units[l] # <<>>
    PROVE  /\ Head(units[l]) = units[l][1] /\ Head(units[l]) \in Announced
           /\ Head(units[l]).number \in 0 .. Len(cuts) - 2
           /\ Head(units[l]).count = cuts[Head(units[l]).number + 2] - cuts[Head(units[l]).number + 1]
<1>1. units[l] \in Seq(Announced) /\ Numbered(cuts, units[l], l)
  BY LaneTyped DEF LaneQueue, Queue
<1>2. 1 \in 1 .. Len(units[l]) /\ units[l][1] = Head(units[l]) /\ Head(units[l]) \in Announced
  BY <1>1
<1>. QED BY <1>1, <1>2 DEF Numbered

LEMMA DrainPlace == ASSUME PlaceInv, Sound, Drain PROVE LanesTyped' /\ Place'
<1>1a. PICK l, n, u : l = LaneOf(next_sequence) /\ n = next_sequence /\ u = Head(units[l])
  OBVIOUS
<1>1. /\ state = "DRAIN" /\ out = NoPair /\ pairs[l] # <<>>
      /\ out' = Head(pairs[l]).index /\ PopPair(l) /\ PopUnit(l)
      /\ IF Head(pairs[l]).last
         THEN /\ last_end' = InRing(u.first + u.count)
              /\ next_sequence' = n + 1
              /\ state' = "SELECT"
         ELSE UNCHANGED <<last_end, next_sequence, state>>
      /\ UNCHANGED <<cuts, sending, dropping, resume, position>>
  BY <1>1a DEF Drain, sender
<1>2. Place /\ IInv /\ LanesTyped
  BY DEF PlaceInv
<1>3. l \in Lanes /\ l \in Present /\ units[l] # <<>> /\ l \notin dropping
  <2>1. l \in Present
    BY <1>1, <1>1a, <1>2 DEF IInv, DrainReady
  <2>. QED BY <2>1 DEF Present
<1>4. ~Misread(u) /\ u.sequence = n /\ LaneFrom(l, position)
  BY <1>1, <1>1a, <1>2, <1>3 DEF Place, InUnit, Drains, Emitted
<1>5. position \in Nat /\ LaneQueue(l) /\ cuts \in Seq(Nat) /\ Len(cuts) \in Nat
  BY <1>2, <1>3 DEF LanesTyped, Place
<1>6. /\ pairs' \in [Lanes -> Seq(Pair)]
      /\ \A m \in Lanes : m # l => units'[m] = units[m] /\ pairs'[m] = pairs[m]
      /\ LaneQueue(l)'
      /\ Head(pairs[l]).index = position
      /\ Head(pairs[l]).last => Ends(cuts, u, position) /\ LaneWhole(l)'
      /\ ~Head(pairs[l]).last => /\ units'[l] = units[l]
                                 /\ From(cuts', sending'[l], units'[l], pairs'[l], position + 1)
  <2>1. pairs[l] # <<>> /\ PopPair(l) /\ PopUnit(l) /\ UNCHANGED <<cuts, sending>>
    BY <1>1
  <2>. QED BY <1>1a, <1>2, <1>3, <1>4, <1>5, <2>1, PopLane
<1>7. /\ u \in Announced /\ u.number \in 0 .. Len(cuts) - 2
      /\ u.count = cuts[u.number + 2] - cuts[u.number + 1]
  BY <1>1a, <1>2, <1>3, <1>5, HeadUnit
<1>8. n = u.number /\ u.first = InRing(cuts[n + 1]) /\ u.count = cuts[n + 2] - cuts[n + 1]
      /\ n \in 0 .. Len(cuts) - 2
  BY <1>4, <1>7 DEF Misread
<1>9. LanesTyped'
  BY <1>1, <1>2, <1>6 DEF LanesTyped
<1>10. \A m \in Lanes : LaneQueue(m)'
  <2>. SUFFICES ASSUME NEW m \in Lanes PROVE LaneQueue(m)'
    OBVIOUS
  <2>1. CASE m = l
    BY <1>6, <2>1
  <2>2. CASE m # l
    BY <1>1, <1>2, <1>6, <2>2 DEF LaneQueue, Place
  <2>. QED BY <2>1, <2>2
<1>11. ASSUME NEW m \in Lanes, m # l, m \notin dropping PROVE LaneWhole(m)'
  <2>1. LaneWhole(m)
    BY <1>1, <1>1a, <1>2, <1>11 DEF Place, Untouched, Drains
  <2>. QED BY <1>1, <1>6, <1>11, <2>1 DEF LaneWhole
<1>12. out' = position /\ out' # NoPair /\ Emitted' = position + 1
  BY <1>1, <1>5, <1>6, Bounds DEF Emitted
<1>13. CASE Head(pairs[l]).last
  <2>1. state' = "SELECT" /\ next_sequence' = n + 1 /\ last_end' = InRing(u.first + u.count)
        /\ Ends(cuts, u, position) /\ LaneWhole(l)'
    BY <1>1, <1>6, <1>13
  <2>2. position + 1 = cuts[n + 2]
    BY <1>8, <2>1 DEF Ends
  <2>3. Here'
    <3>1. n + 1 \in 0 .. Len(cuts) - 1 /\ n + 1 \in 1 .. Len(cuts) /\ n + 2 \in 1 .. Len(cuts)
          /\ (n + 1) + 1 = n + 2
      <4>1. \A c \in Nat : \A i \in 0 .. c - 2 :
                /\ i + 1 \in 0 .. c - 1 /\ i + 1 \in 1 .. c /\ i + 2 \in 1 .. c
                /\ (i + 1) + 1 = i + 2
        OBVIOUS
      <4>. QED BY <1>5, <1>8, <4>1, Zenon
    <3>2. cuts[n + 1] \in Int /\ cuts[n + 2] \in Int
      BY <1>5, <3>1
    <3>3. InRing(u.first + u.count) = InRing(cuts[n + 2])
      <4>1. PICK a \in Int, g \in Int : a = cuts[n + 1] /\ g = u.count /\ a + g = cuts[n + 2]
        BY <1>8, <3>2
      <4>2. InRing(InRing(a) + g) = InRing(a + g)
        BY RingSum
      <4>. QED BY <1>8, <4>1, <4>2
    <3>. QED BY <1>1, <1>12, <2>1, <2>2, <3>1, <3>3 DEF Here, InRing
  <2>4. Untouched'
    BY <1>1, <1>11, <2>1 DEF Untouched
  <2>5. InUnit' /\ Measured'
    BY <2>1 DEF InUnit, Measured, Drains
  <2>. QED BY <1>9, <1>10, <2>3, <2>4, <2>5 DEF Place
<1>14. CASE ~Head(pairs[l]).last
  <2>1. /\ UNCHANGED <<state, next_sequence, last_end>> /\ units'[l] = units[l]
        /\ From(cuts', sending'[l], units'[l], pairs'[l], position + 1)
    BY <1>1, <1>6, <1>14
  <2>2. Here'
    BY <1>1, <1>2, <1>12, <2>1 DEF Here, Place, InRing
  <2>3. Untouched'
    BY <1>1, <1>1a, <1>11, <2>1 DEF Untouched, Drains
  <2>4. InUnit'
    <3>. SUFFICES ASSUME NEW m \in Lanes, Drains(m)'
                  PROVE  /\ (~Misread(Head(units[m])))' /\ Head(units'[m]).sequence = next_sequence'
                         /\ From(cuts', sending'[m], units'[m], pairs'[m], Emitted')
      BY DEF InUnit, LaneFrom
    <3>1. m = l
      BY <1>1a, <2>1 DEF Drains
    <3>2. Head(units'[m]) = u
      BY <1>1a, <2>1, <3>1
    <3>3. (~Misread(Head(units[m])))'
      BY <1>1, <1>4, <3>2 DEF Misread, InRing
    <3>4. Head(units'[m]).sequence = next_sequence'
      BY <1>1a, <1>4, <2>1, <3>2
    <3>. QED BY <1>12, <2>1, <3>1, <3>3, <3>4
  <2>5. Measured'
    BY <1>1, <2>1 DEF Measured
  <2>. QED BY <1>9, <1>10, <2>2, <2>3, <2>4, <2>5 DEF Place
<1>. QED BY <1>13, <1>14

LEMMA DropPlace == ASSUME PlaceInv, Sound, NEW l \in Lanes, Drop(l) PROVE LanesTyped' /\ Place'
<1>1. /\ l \in dropping /\ pairs[l] # <<>> /\ PopPair(l) /\ PopUnit(l)
      /\ IF Head(pairs[l]).last THEN dropping' = dropping \ {l} ELSE dropping' = dropping
      /\ UNCHANGED <<cuts, sending, state, next_sequence, last_end, resume, out, position>>
  BY DEF Drop, sender, merge, outputs
<1>2. Place /\ IInv /\ LanesTyped /\ LaneQueue(l)
  BY DEF PlaceInv, Place
<1>3. units[l] # <<>>
  <2>1. pairs[l] \in Seq(Pair) /\ OfUnits(cuts, sending[l], units[l], pairs[l])
    BY <1>2, LaneTyped DEF LaneQueue, Queue
  <2>2. 1 \in 1 .. Len(pairs[l])
    BY <1>1, <2>1
  <2>3. PICK k \in 1 .. Len(units[l]) : TRUE
    BY <2>1, <2>2 DEF OfUnits
  <2>. QED BY <2>3
<1>4. PICK e \in Nat : LaneFrom(l, e)
  BY <1>2, <1>3 DEF LaneQueue, LaneFrom, Queue
<1>5. /\ pairs' \in [Lanes -> Seq(Pair)]
      /\ \A m \in Lanes : m # l => units'[m] = units[m] /\ pairs'[m] = pairs[m]
      /\ LaneQueue(l)'
      /\ Head(pairs[l]).last => LaneWhole(l)'
  BY <1>1, <1>2, <1>3, <1>4, PopLane
<1>6. ~Drains(l)
  BY <1>1, <1>2 DEF IInv, DrainReady, Present, Drains
<1>7. LanesTyped'
  BY <1>1, <1>2, <1>5 DEF LanesTyped
<1>8. \A m \in Lanes : LaneQueue(m)'
  <2>. SUFFICES ASSUME NEW m \in Lanes PROVE LaneQueue(m)'
    OBVIOUS
  <2>1. CASE m = l
    BY <1>5, <2>1
  <2>2. CASE m # l
    BY <1>1, <1>2, <1>5, <2>2 DEF LaneQueue, Place
  <2>. QED BY <2>1, <2>2
<1>9. Here' /\ Measured'
  BY <1>1, <1>2 DEF Place, Here, Emitted, Measured, Misread, InRing
<1>10. Untouched'
  <2>. SUFFICES ASSUME NEW m \in Lanes, m \notin dropping', ~Drains(m)' PROVE LaneWhole(m)'
    BY DEF Untouched
  <2>1. CASE m = l
    BY <1>1, <1>5, <2>1
  <2>2. CASE m # l
    <3>1. LaneWhole(m)
      BY <1>1, <1>2, <2>2 DEF Place, Untouched, Drains
    <3>. QED BY <1>1, <1>5, <2>2, <3>1 DEF LaneWhole
  <2>. QED BY <2>1, <2>2
<1>11. InUnit'
  <2>. SUFFICES ASSUME NEW m \in Lanes, Drains(m)'
                PROVE  /\ (~Misread(Head(units[m])))' /\ Head(units'[m]).sequence = next_sequence'
                       /\ From(cuts', sending'[m], units'[m], pairs'[m], Emitted')
    BY DEF InUnit, LaneFrom
  <2>1. Drains(m) /\ m # l
    BY <1>1, <1>6 DEF Drains
  <2>2. units'[m] = units[m] /\ pairs'[m] = pairs[m] /\ Emitted' = Emitted
    BY <1>1, <1>5, <2>1 DEF Emitted
  <2>3. /\ ~Misread(Head(units[m])) /\ Head(units[m]).sequence = next_sequence
        /\ LaneFrom(m, Emitted)
    BY <1>2, <2>1 DEF Place, InUnit
  <2>4. (~Misread(Head(units[m])))'
    BY <1>1, <2>2, <2>3 DEF Misread, InRing
  <2>. QED BY <1>1, <2>2, <2>3, <2>4 DEF LaneFrom
<1>. QED BY <1>7, <1>8, <1>9, <1>10, <1>11 DEF Place
-----------------------------------------------------------------------------
LEMMA PlaceNext == PlaceInv /\ [Next]_vars => PlaceInv'
<1>. SUFFICES ASSUME PlaceInv, [Next]_vars PROVE PlaceInv'
  OBVIOUS
<1>1. IInv'
  BY NextIInv DEF PlaceInv
<1>. SUFFICES ASSUME Sound' PROVE LanesTyped' /\ Place'
  BY <1>1 DEF PlaceInv
<1>2. Sound
  BY SoundBefore
<1>3. ASSUME Merge PROVE LanesTyped' /\ Place'
  <2>1. CASE Widen \/ OfferSkip
    BY <1>2, <2>1, QuietPlace DEF Widen, OfferSkip, sender, queues, outputs, merge
  <2>. QED BY <1>2, <1>3, <2>1, SelectPlace, DecidePlace, DrainPlace, MeasureGapPlace DEF Merge
<1>4. ASSUME Encoder PROVE LanesTyped' /\ Place'
  BY <1>2, <1>4, FinishSkipPlace, TakePairPlace DEF Encoder
<1>5. ASSUME NEW l \in Lanes, Drop(l) PROVE LanesTyped' /\ Place'
  BY <1>2, <1>5, DropPlace
<1>6. ASSUME NEW l \in Lanes, Sender(l) PROVE LanesTyped' /\ Place'
  BY <1>2, <1>6, AnnouncePlace, LoseHeaderPlace, MisreadPlace, ArrivePlace DEF Sender
<1>7. CASE UNCHANGED vars
  BY <1>2, <1>7, QuietPlace DEF vars, sender, queues, outputs, merge
<1>. QED BY <1>3, <1>4, <1>5, <1>6, <1>7 DEF Next

THEOREM PlaceInvariant == Spec => []PlaceInv
<1>. QED BY PlaceInit, PlaceNext, PTL DEF Spec

\* Sample time is kept: every pair leaves the merge at the position it was
\* sampled at, what is missing before it skipped exactly, for every ring,
\* unit length and queue, as long as the run is sound (reorder.v 10-15).
THEOREM SampleTimeKept == Spec => []InPlace
<1>1. PlaceInv => InPlace
  BY DEF PlaceInv, Place, Here, InPlace
<1>. QED BY <1>1, PlaceInvariant, PTL

\* What a skip reports is exactly what was lost: the pairs from the beginning of
\* the next unit due to that of the unit resumed at (reorder.v 10-15, SKIP).
SkipsLost == Sound /\ skip # NoSkip =>
    cuts[next_sequence + 1] + skip = cuts[resume.sequence + 1]

THEOREM SkipsWhatIsLost == Spec => []SkipsLost
<1>1. PlaceInv => SkipsLost
  BY SkipIsExact DEF SkipsLost
<1>. QED BY <1>1, PlaceInvariant, PTL
=============================================================================
