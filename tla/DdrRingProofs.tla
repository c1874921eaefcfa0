--------------------------- MODULE DdrRingProofs ----------------------------
(***************************************************************************)
(* Theorems about the DDR ring, for every size, reservation, burst, read   *)
(* window and quantum its assumptions allow.                               *)
(*                                                                         *)
(* Pointers are compared by their distance ahead of `reclaimed', which     *)
(* turns arithmetic modulo 2 * Size into ordinary arithmetic: the lemmas   *)
(* below are the only places that look inside Sub, Inc and Plus.           *)
(***************************************************************************)
EXTENDS DdrRing, TLAPS

(* The distance between two pointers fits in 0 .. Wrap - 1.                *)
LEMMA SubType ==
    ASSUME NEW p \in Pointer, NEW q \in Pointer
    PROVE  Sub(p, q) \in 0 .. Wrap - 1 /\ Sub(p, p) = 0
BY SizeAssumption DEF SizeAssumption, Sub, Pointer, Wrap

(* Advancing the leading pointer adds one to the distance.                 *)
LEMMA SubInc ==
    ASSUME NEW p \in Pointer, NEW q \in Pointer
    PROVE  /\ Inc(p) \in Pointer
           /\ Sub(p, q) + 1 < Wrap => Sub(Inc(p), q) = Sub(p, q) + 1
BY SizeAssumption DEF SizeAssumption, Sub, Inc, Pointer, Wrap

(* Advancing the trailing pointer takes one from it.                       *)
LEMMA SubShift ==
    ASSUME NEW p \in Pointer, NEW q \in Pointer, Sub(p, q) # 0
    PROVE  Sub(p, Inc(q)) = Sub(p, q) - 1
BY SizeAssumption DEF SizeAssumption, Sub, Inc, Pointer, Wrap

(* Distances from a common pointer subtract.                               *)
LEMMA SubSub ==
    ASSUME NEW p \in Pointer, NEW q \in Pointer, NEW r \in Pointer,
           Sub(q, r) <= Sub(p, r)
    PROVE  Sub(p, q) = Sub(p, r) - Sub(q, r)
BY SizeAssumption DEF SizeAssumption, Sub, Pointer, Wrap

(* A reservation of n beats is n beats ahead.                              *)
LEMMA SubPlus ==
    ASSUME NEW p \in Pointer, NEW n \in 0 .. Wrap - 1
    PROVE  Plus(p, n) \in Pointer /\ Sub(Plus(p, n), p) = n
BY SizeAssumption DEF SizeAssumption, Sub, Plus, Pointer, Wrap

(* The slot of a pointer is a slot of the memory.                          *)
LEMMA SlotType ==
    ASSUME NEW p \in Pointer
    PROVE  SlotOf(p) \in Slot
BY SizeAssumption DEF SizeAssumption, SlotOf, Slot, Pointer, Wrap

-----------------------------------------------------------------------------
(* The inductive invariant.  PointerOrder holds of a running ring only; a  *)
(* ring being cleared still has its reads in flight and its frozen         *)
(* pointers, so the order is stated for both, with the exact position of   *)
(* the write in flight only while the ring runs.                           *)
Ahead(p) == Sub(p, reclaimed)

OrderInv ==
    /\ Ahead(issued) <= Ahead(committed)
    /\ Ahead(committed) <= Ahead(written)
    /\ Ahead(written) <= Ahead(allocated)
    /\ Ahead(allocated) <= Size
    /\ ~isClearing => Ahead(allocated) = Ahead(written) + (IF pending THEN 1 ELSE 0)

(* Every read command sent is answered once, and its answer has room.      *)
ReadsInv ==
    /\ Len(reads) = Ahead(issued)
    /\ burstLeft <= Ahead(committed) - Ahead(issued)
    /\ outLevel + Ahead(issued) <= OutSize - 2

(* Where the incomplete record stands between committed and allocated,     *)
(* also while its last beat is being written, and what it has reserved.    *)
RecordInv ==
    /\ ~isClearing =>
          /\ (~pending \/ commit = "none") =>
                Ahead(allocated) - Ahead(committed) = length
          /\ (pending /\ commit = "whole") => length = 0
          /\ (pending /\ commit = "inside") => length = 1
          /\ length # 0 => /\ Sub(reservedEnd, allocated) = Reserve - length
                           /\ Ahead(allocated) + (Reserve - length) <= Size
    /\ isClearing => calibrated /\ length = 0 /\ out = NoBeat
    /\ clear => head = NoBeat
    /\ head # NoBeat => head \in NextBeats
    /\ errors = 0

IInv == TypeOK /\ OrderInv /\ ReadsInv /\ RecordInv

-----------------------------------------------------------------------------
LEMMA InitInv == Init => IInv
<1> SUFFICES ASSUME Init PROVE IInv
  OBVIOUS
<1> USE SizeAssumption, OutAssumption, ClockAssumption, BeatAssumption DEF SizeAssumption, OutAssumption, ClockAssumption, BeatAssumption
<1>1. 0 \in Pointer /\ Sub(0, 0) = 0
  BY DEF Pointer, Wrap, Sub
<1>2. TypeOK
  <2>1. reads \in Seq(Pointer \cup {NoBeat})
    BY DEF Init
  <2>2. mem \in [Slot -> Pointer \cup {NoBeat}]
    BY DEF Init
  <2>3. address \in Slot /\ length \in 0 .. Reserve - 1 /\ outLevel \in 0 .. OutSize
    BY DEF Init, Slot
  <2>4. burstLeft \in 0 .. Burst /\ quota \in 0 .. Quantum - 1
    BY DEF Init
  <2> QED
    BY <1>1, <2>1, <2>2, <2>3, <2>4 DEF Init, TypeOK
<1>3. OrderInv
  BY <1>1 DEF Init, OrderInv, Ahead, isClearing
<1>4. ReadsInv
  BY <1>1 DEF Init, ReadsInv, Ahead
<1>5. RecordInv
  BY <1>1 DEF Init, RecordInv, Ahead, isClearing
<1> QED
  BY <1>2, <1>3, <1>4, <1>5 DEF IInv

(* Whatever came before, what the packer offers is a beat.                 *)
LEMMA NextBeatsAreBeats == NextBeats \subseteq Beat
<1>1. /\ [start |-> TRUE, commit |-> "none"] \in Beat
      /\ [start |-> FALSE, commit |-> "none"] \in Beat
      /\ [start |-> FALSE, commit |-> "whole"] \in Beat
      /\ [start |-> TRUE, commit |-> "whole"] \in Beat
      /\ [start |-> TRUE, commit |-> "inside"] \in Beat
  BY DEF Beat
<1> QED
  BY <1>1 DEF NextBeats, BeatsAfter

(* The beats on offer are beats, and taking one leaves a record that fits. *)
LEMMA NextBeatsType ==
    ASSUME length \in 0 .. Reserve - 1, head \in NextBeats,
           reservedEnd \in Pointer, allocated \in Pointer
    PROVE  /\ head \in Beat
           /\ LengthAfter(head) \in 0 .. Reserve - 1
           /\ head.commit = "none" => LengthAfter(head) = length + 1
           /\ head.commit = "whole" => LengthAfter(head) = 0
           /\ head.commit = "inside" => LengthAfter(head) = 1
           /\ head.commit \in {"none", "inside", "whole"}
           /\ ~head.start => length # 0 \/ (head.commit = "whole" /\ allocated # reservedEnd)
           /\ head.start => LengthAfter(head) \in {0, 1}
<1> USE SizeAssumption DEF SizeAssumption, LengthAfter, LengthWith, Beat
<1>1. CASE head = [start |-> TRUE, commit |-> "none"] /\ length = 0
  BY <1>1
<1>2. CASE head = [start |-> TRUE, commit |-> "whole"]
  BY <1>2
<1>3. CASE head = [start |-> FALSE, commit |-> "whole"] /\ length # 0
  BY <1>3
<1>4. CASE head = [start |-> TRUE, commit |-> "inside"] /\ length # 0
  BY <1>4
<1>5. CASE head = [start |-> FALSE, commit |-> "none"] /\ length # 0 /\ length + 1 < Reserve
  BY <1>5
<1>6. CASE /\ head = [start |-> FALSE, commit |-> "whole"] /\ length = 0
           /\ ~isClearing /\ Sub(reservedEnd, allocated) > 0
  <2>1. allocated # reservedEnd
    BY <1>6 DEF Sub, Pointer, Wrap
  <2> QED
    BY <1>6, <2>1
<1> QED
  BY <1>1, <1>2, <1>3, <1>4, <1>5, <1>6 DEF NextBeats, BeatsAfter

(* What a running clock does to the pointers, measured from `reclaimed' as *)
(* it was.  A beat is taken only when no write is in flight, so taking and *)
(* completing a write exclude each other.                                  *)
LEMMA RunDistances ==
    ASSUME IInv,
           NEW rdy \in BOOLEAN, NEW wdf \in BOOLEAN, NEW resp \in BOOLEAN,
           NEW pop \in BOOLEAN, NEW deep \in BOOLEAN,
           Run(rdy, wdf, resp, pop, deep)
    PROVE  LET wc == WriteComplete(rdy, wdf)
               rc == ReadCommand(rdy)
           IN  /\ ~(take /\ wc) /\ (take => ~pending) /\ (wc => pending)
               /\ allocated' \in Pointer /\ written' \in Pointer
               /\ committed' \in Pointer /\ issued' \in Pointer
               /\ Sub(allocated', reclaimed) = Ahead(allocated) + (IF take THEN 1 ELSE 0)
               /\ Sub(written', reclaimed) = Ahead(written) + (IF wc THEN 1 ELSE 0)
               /\ Sub(committed', reclaimed) =
                     IF wc /\ commit = "whole" THEN Ahead(written) + 1
                     ELSE IF wc /\ commit = "inside" THEN Ahead(written)
                     ELSE Ahead(committed)
               /\ Sub(issued', reclaimed) = Ahead(issued) + (IF rc THEN 1 ELSE 0)
               /\ rc => /\ Ahead(issued) < Ahead(committed)
                        /\ burstLeft # 0
                        /\ outLevel + Ahead(issued) < OutSize - 2
<1> DEFINE wc == WriteComplete(rdy, wdf)
           rc == ReadCommand(rdy)
<1> USE SizeAssumption DEF SizeAssumption
<1>1. /\ allocated \in Pointer /\ written \in Pointer /\ committed \in Pointer
      /\ issued \in Pointer /\ reclaimed \in Pointer
      /\ commit \in {"none", "inside", "whole"} /\ pending \in BOOLEAN
      /\ run /\ ~isClearing
  BY DEF IInv, TypeOK, Run, run
<1>2. /\ Ahead(allocated) \in 0 .. Wrap - 1 /\ Ahead(written) \in 0 .. Wrap - 1
      /\ Ahead(committed) \in 0 .. Wrap - 1 /\ Ahead(issued) \in 0 .. Wrap - 1
  BY <1>1, SubType DEF Ahead
<1>3. Wrap = 2 * Size /\ Size + 1 < Wrap
  BY DEF Wrap
<1>4. /\ Ahead(issued) <= Ahead(committed) /\ Ahead(committed) <= Ahead(written)
      /\ Ahead(written) <= Ahead(allocated) /\ Ahead(allocated) <= Size
      /\ Ahead(allocated) = Ahead(written) + (IF pending THEN 1 ELSE 0)
  BY <1>1 DEF IInv, OrderInv
<1>5. take => ~pending /\ Ahead(allocated) < Size
  BY DEF take, inReady, Ahead, occupancy
<1>6. (wc => pending) /\ ~(take /\ wc)
  BY <1>5 DEF WriteComplete
<1>7. allocated' \in Pointer /\ Sub(allocated', reclaimed) = Ahead(allocated) + (IF take THEN 1 ELSE 0)
  <2>1. allocated' = IF take THEN Inc(allocated) ELSE allocated
    BY DEF Run, TakeBeat
  <2> QED
    BY <1>1, <1>2, <1>3, <1>4, <1>5, <2>1, SubInc DEF Ahead
<1>8. written' \in Pointer /\ Sub(written', reclaimed) = Ahead(written) + (IF wc THEN 1 ELSE 0)
  <2>1. written' = IF wc THEN Inc(written) ELSE written
    BY DEF Run, Commit
  <2> QED
    BY <1>1, <1>2, <1>3, <1>4, <2>1, SubInc DEF Ahead
<1>9. /\ committed' \in Pointer
      /\ Sub(committed', reclaimed) =
            IF wc /\ commit = "whole" THEN Ahead(written) + 1
            ELSE IF wc /\ commit = "inside" THEN Ahead(written)
            ELSE Ahead(committed)
  <2>1. committed' = IF wc /\ commit = "whole" THEN Inc(written)
                     ELSE IF wc /\ commit = "inside" THEN written
                     ELSE committed
    BY <1>1 DEF Run, Commit
  <2> QED
    BY <1>1, <1>2, <1>3, <1>4, <2>1, SubInc DEF Ahead
<1>10. rc => /\ Ahead(issued) < Ahead(committed)
             /\ burstLeft # 0
             /\ outLevel + Ahead(issued) < OutSize - 2
  <2>1. rc => readable # 0 /\ burstLeft # 0 /\ outLevel + Ahead(issued) < OutSize - 2
    BY DEF ReadCommand, chooseRead, wantRead, outstanding, Ahead
  <2>2. readable = Ahead(committed) - Ahead(issued)
    BY <1>1, <1>4, SubSub DEF readable, Ahead
  <2> QED
    BY <1>2, <1>4, <2>1, <2>2
<1>11. issued' \in Pointer /\ Sub(issued', reclaimed) = Ahead(issued) + (IF rc THEN 1 ELSE 0)
  <2>1. issued' = IF rc THEN Inc(issued) ELSE issued
    BY DEF Run, IssueReads
  <2> QED
    BY <1>1, <1>2, <1>3, <1>4, <1>10, <2>1, SubInc DEF Ahead
<1> QED
  BY <1>5, <1>6, <1>7, <1>8, <1>9, <1>10, <1>11

LEMMA RunInv ==
    ASSUME IInv,
           NEW rdy \in BOOLEAN, NEW wdf \in BOOLEAN, NEW resp \in BOOLEAN,
           NEW pop \in BOOLEAN, NEW deep \in BOOLEAN,
           Run(rdy, wdf, resp, pop, deep)
    PROVE  IInv'
<1> DEFINE wc == WriteComplete(rdy, wdf)
           rc == ReadCommand(rdy)
           one(b) == IF b THEN 1 ELSE 0
           newAllocated == Ahead(allocated) + one(take)
           newWritten == Ahead(written) + one(wc)
           newCommitted == IF wc /\ commit = "whole" THEN Ahead(written) + 1
                           ELSE IF wc /\ commit = "inside" THEN Ahead(written)
                           ELSE Ahead(committed)
           newIssued == Ahead(issued) + one(rc)
<1> USE SizeAssumption DEF SizeAssumption
<1>1. /\ TypeOK /\ run /\ ~isClearing /\ calibrated /\ errors = 0
      /\ Wrap = 2 * Size
  BY DEF IInv, Run, run, Wrap
<1>2. /\ Ahead(allocated) \in Nat /\ Ahead(written) \in Nat
      /\ Ahead(committed) \in Nat /\ Ahead(issued) \in Nat
      /\ Ahead(issued) <= Ahead(committed) /\ Ahead(committed) <= Ahead(written)
      /\ Ahead(written) <= Ahead(allocated) /\ Ahead(allocated) <= Size
      /\ Ahead(allocated) = Ahead(written) + one(pending)
  BY <1>1, SubType DEF IInv, OrderInv, TypeOK, Ahead, Pointer
<1>3. /\ Len(reads) = Ahead(issued)
      /\ burstLeft <= Ahead(committed) - Ahead(issued)
      /\ outLevel + Ahead(issued) <= OutSize - 2
  BY DEF IInv, ReadsInv
<1>4. /\ ~(take /\ wc) /\ (take => ~pending) /\ (wc => pending)
      /\ allocated' \in Pointer /\ written' \in Pointer
      /\ committed' \in Pointer /\ issued' \in Pointer
      /\ Sub(allocated', reclaimed) = newAllocated
      /\ Sub(written', reclaimed) = newWritten
      /\ Sub(committed', reclaimed) = newCommitted
      /\ Sub(issued', reclaimed) = newIssued
      /\ rc => /\ Ahead(issued) < Ahead(committed)
               /\ burstLeft # 0
               /\ outLevel + Ahead(issued) < OutSize - 2
  BY RunDistances
<1>5. resp => Ahead(issued) # 0
  <2>1. resp => reads # <<>> /\ reads \in Seq(Pointer \cup {NoBeat})
    BY <1>1 DEF Run, TypeOK
  <2> QED
    BY <1>3, <2>1
<1>6. resp => outstanding # 0 /\ outLevel < OutSize
  BY <1>1, <1>2, <1>3, <1>5, OutAssumption DEF OutAssumption, outstanding, Ahead, TypeOK
<1>7. reclaimed' = IF resp THEN Inc(reclaimed) ELSE reclaimed
  BY <1>6 DEF Run, Store
<1>8. reclaimed' \in Pointer
  BY <1>1, <1>7, SubInc DEF TypeOK
<1>9. /\ Sub(allocated', reclaimed') = newAllocated - one(resp)
      /\ Sub(written', reclaimed') = newWritten - one(resp)
      /\ Sub(committed', reclaimed') = newCommitted - one(resp)
      /\ Sub(issued', reclaimed') = newIssued - one(resp)
  <2>1. reclaimed \in Pointer
    BY <1>1 DEF TypeOK
  <2>2. resp => newIssued # 0 /\ newCommitted # 0 /\ newWritten # 0 /\ newAllocated # 0
    BY <1>2, <1>4, <1>5
  <2> QED
    BY <1>2, <1>4, <1>7, <2>1, <2>2, SubShift
<1>10. /\ Ahead(allocated)' = newAllocated - one(resp)
       /\ Ahead(written)' = newWritten - one(resp)
       /\ Ahead(committed)' = newCommitted - one(resp)
       /\ Ahead(issued)' = newIssued - one(resp)
  BY <1>9 DEF Ahead
<1>11. take => /\ head \in NextBeats /\ head # NoBeat /\ ~pending
               /\ Ahead(allocated) < Size
               /\ head.start => Ahead(allocated) <= Size - Reserve
  BY DEF take, inReady, occupancy, Ahead, IInv, RecordInv
<1>12. length \in 0 .. Reserve - 1 /\ reservedEnd \in Pointer /\ allocated \in Pointer
  BY <1>1 DEF TypeOK
<1>13. /\ take => LengthAfter(head) \in 0 .. Reserve - 1
       /\ length' = IF take THEN LengthAfter(head) ELSE length
  BY <1>11, <1>12, NextBeatsType DEF Run, TakeBeat
<1>14. ~Overrun
  <2>1. Overrun => /\ length # 0 /\ allocated = reservedEnd
    BY <1>11, <1>12, NextBeatsType DEF Overrun
  <2>2. length # 0 => Sub(reservedEnd, allocated) = Reserve - length
    BY <1>1 DEF IInv, RecordInv
  <2> QED
    BY <1>12, <2>1, <2>2, SubType
<1>15. /\ ~isClearing' /\ UNCHANGED <<clear, clearPending, calibrated>>
       /\ errors' = 0
       /\ outLevel' = outLevel + one(resp) - one(pop /\ outLevel > 0)
       /\ burstLeft' = IF rc THEN burstLeft - 1 ELSE IF burstReady THEN Burst ELSE burstLeft
       /\ pending' \in BOOLEAN /\ (pending' <=> (take \/ (pending /\ ~wc)))
  BY <1>1, <1>6, <1>14 DEF Run, clearing, isClearing, Store, IssueReads, AdvanceWrite
<1>16. burstReady => Burst <= Ahead(committed) - Ahead(issued)
  BY <1>1, <1>2, SubSub DEF burstReady, readable, Ahead, TypeOK
<1>17. OrderInv'
  <2>1. /\ newIssued <= newCommitted /\ newCommitted <= newWritten
        /\ newWritten <= newAllocated /\ newAllocated <= Size
    BY <1>2, <1>4, <1>11
  <2>2. newAllocated = newWritten + one(pending')
    <3>1. CASE take
      BY <3>1, <1>2, <1>4, <1>15
    <3>2. CASE ~take /\ wc
      BY <3>2, <1>2, <1>4, <1>15
    <3>3. CASE ~take /\ ~wc
      BY <3>3, <1>2, <1>4, <1>15
    <3> QED
      BY <3>1, <3>2, <3>3
  <2>3. one(resp) \in {0, 1} /\ one(pending') = IF pending' THEN 1 ELSE 0
    OBVIOUS
  <2> HIDE DEF newAllocated, newWritten, newCommitted, newIssued, one
  <2>4. /\ newAllocated \in Int /\ newWritten \in Int
        /\ newCommitted \in Int /\ newIssued \in Int
    BY <1>2 DEF newAllocated, newWritten, newCommitted, newIssued, one
  <2> QED
    BY <1>1, <1>10, <1>15, <2>1, <2>2, <2>3, <2>4 DEF OrderInv
<1>18. Len(reads') = newIssued - one(resp) /\ reads' \in Seq(Pointer \cup {NoBeat})
  <2>1. reads \in Seq(Pointer \cup {NoBeat}) /\ mem[SlotOf(issued)] \in Pointer \cup {NoBeat}
    BY <1>1, SlotType DEF TypeOK
  <2> DEFINE rest == IF resp THEN Tail(reads) ELSE reads
  <2>2. rest \in Seq(Pointer \cup {NoBeat}) /\ Len(rest) = Ahead(issued) - one(resp)
    <3>1. CASE resp
      BY <3>1, <1>2, <1>3, <1>5, <2>1
    <3>2. CASE ~resp
      BY <3>2, <1>2, <1>3, <2>1
    <3> QED
      BY <3>1, <3>2
  <2>3. reads' = IF rc THEN Append(rest, mem[SlotOf(issued)]) ELSE rest
    BY DEF Run, AnswerReads
  <2> HIDE DEF rest
  <2> QED
    BY <1>2, <2>1, <2>2, <2>3
<1>19. ReadsInv'
  <2>1. burstLeft \in 0 .. Burst /\ outLevel \in 0 .. OutSize
    BY <1>1 DEF TypeOK
  <2>2. newCommitted >= Ahead(committed)
    BY <1>2
  <2>3. burstLeft' <= newCommitted - newIssued
    BY <1>2, <1>3, <1>4, <1>15, <1>16, <2>1, <2>2
  <2>4. outLevel' + newIssued - one(resp) <= OutSize - 2
    <3>1. outLevel' <= outLevel + one(resp) /\ outLevel' \in Int
      BY <1>15, <2>1, OutAssumption DEF OutAssumption
    <3>2. one(resp) \in {0, 1}
      OBVIOUS
    <3>3. outLevel + newIssued <= OutSize - 2
      BY <1>2, <1>3, <1>4, <2>1, OutAssumption DEF OutAssumption
    <3>4. newIssued \in Int
      BY <1>2
    <3> HIDE DEF newIssued, one
    <3> QED
      BY <2>1, <3>1, <3>2, <3>3, <3>4, OutAssumption DEF OutAssumption
  <2>5. /\ newIssued \in Int /\ newCommitted \in Int /\ one(resp) \in Int
        /\ outLevel' \in Int /\ burstLeft' \in Int
    BY <1>2, <1>15, <2>1, SizeAssumption, OutAssumption DEF OutAssumption
  <2> HIDE DEF newIssued, newCommitted, one
  <2> QED
    BY <1>10, <1>18, <2>3, <2>4, <2>5, OutAssumption DEF OutAssumption, ReadsInv
<1>20. RecordInv'
  <2> DEFINE newLength == IF take THEN LengthAfter(head) ELSE length
             newCommit == IF take THEN head.commit ELSE commit
             newPending == take \/ (pending /\ ~wc)
             newReserved == IF take /\ head.start THEN Reservation ELSE reservedEnd
  <2>a. /\ length' = newLength /\ commit' = newCommit
        /\ reservedEnd' = newReserved
        /\ allocated' = IF take THEN Inc(allocated) ELSE allocated
    BY DEF Run, TakeBeat
  <2>b. /\ (~pending \/ commit = "none") => Ahead(allocated) - Ahead(committed) = length
        /\ (pending /\ commit = "whole") => length = 0
        /\ (pending /\ commit = "inside") => length = 1
        /\ length # 0 => /\ Sub(reservedEnd, allocated) = Reserve - length
                         /\ Ahead(allocated) + (Reserve - length) <= Size
        /\ commit \in {"none", "inside", "whole"}
    BY <1>1 DEF IInv, RecordInv, TypeOK
  <2>c. take => /\ head.commit = "none" => LengthAfter(head) = length + 1
                /\ head.commit = "whole" => LengthAfter(head) = 0
                /\ head.commit = "inside" => LengthAfter(head) = 1
                /\ ~head.start => length # 0 \/ (head.commit = "whole" /\ allocated # reservedEnd)
                /\ head.start => LengthAfter(head) \in {0, 1}
                /\ head.commit \in {"none", "inside", "whole"}
                /\ LengthAfter(head) \in 0 .. Reserve - 1
    BY <1>11, <1>12, NextBeatsType
  <2>d. take => length + 1 < Reserve \/ head.commit # "none"
    BY <1>11, <1>12, <2>c
  <2>1. (~newPending \/ newCommit = "none") => newAllocated - newCommitted = newLength
    <3>1. CASE take
      BY <3>1, <1>2, <1>4, <1>11, <1>12, <2>b, <2>c
    <3>2. CASE ~take /\ wc
      BY <3>2, <1>2, <1>4, <1>12, <2>b
    <3>3. CASE ~take /\ ~wc
      BY <3>3, <1>2, <1>4, <1>12, <2>b
    <3> QED
      BY <3>1, <3>2, <3>3
  <2>2. /\ (newPending /\ newCommit = "whole") => newLength = 0
        /\ (newPending /\ newCommit = "inside") => newLength = 1
    BY <1>4, <2>b, <2>c
  <2>3. newLength # 0 => /\ Sub(newReserved, allocated') = Reserve - newLength
                         /\ newAllocated + (Reserve - newLength) <= Size
    <3>1. CASE take /\ head.start
      <4>1. Reservation \in Pointer /\ Sub(Reservation, allocated) = Reserve
        BY <1>12, SubPlus DEF Reservation, Wrap
      <4>2. Sub(Reservation, Inc(allocated)) = Reserve - 1
        BY <1>12, <4>1, SubShift
      <4> QED
        BY <3>1, <1>2, <1>11, <2>a, <2>c, <4>2
    <3>2. CASE take /\ ~head.start /\ length # 0
      <4>1. Sub(reservedEnd, allocated) = Reserve - length
        BY <3>2, <2>b
      <4>2. Sub(reservedEnd, Inc(allocated)) = Reserve - length - 1
        BY <1>12, <4>1, SubShift
      <4>3. newLength # 0 => newLength = length + 1
        BY <3>2, <2>c, <1>11 DEF NextBeats, BeatsAfter
      <4> QED
        BY <3>2, <1>2, <1>12, <2>a, <2>b, <4>1, <4>2, <4>3
    <3>4. CASE take /\ ~head.start /\ length = 0
      BY <3>4, <2>c
    <3>3. CASE ~take
      BY <3>3, <1>2, <2>a, <2>b
    <3> QED
      BY <3>1, <3>2, <3>3, <3>4
  <2>4. head' # NoBeat => head' \in NextBeats'
    <3>1. head' # NoBeat => ~take /\ head' \in NextBeats
      BY <1>1 DEF Run, TakeBeat, IInv, RecordInv
    <3>2. ~take => NextBeats' = NextBeats
      BY <1>1, <1>15, <2>a DEF Run, run, NextBeats, BeatsAfter, Sub, Wrap
    <3> QED
      BY <3>1, <3>2
  <2>5. one(resp) \in {0, 1} /\ newLength \in Int /\ newAllocated \in Int /\ newCommitted \in Int
    BY <1>2, <1>12, <1>13
  <2> HIDE DEF newAllocated, newCommitted, one, newLength, newCommit, newPending, newReserved
  <2>6. (~newPending \/ newCommit = "none") =>
            (newAllocated - one(resp)) - (newCommitted - one(resp)) = newLength
    BY <2>1, <2>5
  <2>7. newLength # 0 => newAllocated - one(resp) + (Reserve - newLength) <= Size
    BY <2>3, <2>5
  <2>8. ~clear' /\ (pending' <=> newPending)
    BY <1>1, <1>15 DEF isClearing, newPending
  <2> QED
    BY <1>9, <1>15, <2>a, <2>2, <2>3, <2>4, <2>6, <2>7, <2>8 DEF RecordInv, Ahead
<1>21. TypeOK'
  <2>1. reservedEnd' \in Pointer /\ address' \in Slot /\ value' \in Pointer \cup {NoBeat}
    <3>1. Reservation \in Pointer
      BY <1>12, SubPlus DEF Reservation, Wrap
    <3> QED
      BY <1>1, <1>12, <3>1, SlotType DEF Run, TakeBeat, TypeOK
  <2>2. burstLeft' \in 0 .. Burst
    BY <1>1, <1>4, <1>15 DEF TypeOK
  <2>3. commandDone' \in BOOLEAN /\ dataDone' \in BOOLEAN
    BY DEF Run, AdvanceWrite
  <2>4. commit' \in {"none", "inside", "whole"} /\ length' \in 0 .. Reserve - 1
    BY <1>1, <1>11, <1>12, <1>13, NextBeatsType DEF Run, TakeBeat, TypeOK
  <2>5. writeTurn' \in BOOLEAN /\ quota' \in 0 .. Quantum - 1
    <3>1. \/ writeTurn' = ~writeTurn /\ quota' = 0
          \/ UNCHANGED <<writeTurn, quota>>
          \/ quota # Quantum - 1 /\ quota' = quota + 1 /\ UNCHANGED writeTurn
      BY DEF Run, Arbitrate, CountQuantum, turns
    <3>2. quota \in 0 .. Quantum - 1 /\ writeTurn \in BOOLEAN /\ Quantum \in Nat \ {0}
      BY <1>1, ClockAssumption DEF ClockAssumption, TypeOK
    <3>3. quota' \in 0 .. Quantum - 1
      BY <3>1, <3>2
    <3>4. writeTurn' \in BOOLEAN
      BY <3>1, <3>2, Zenon
    <3> QED
      BY <3>3, <3>4
  <2>6. head' \in Beat \cup {NoBeat}
    <3>2. NextBeats \subseteq Beat
      BY NextBeatsAreBeats
    <3> QED
      BY <1>1, <3>2 DEF Run, TakeBeat, TypeOK
  <2>7. mem' \in [Slot -> Pointer \cup {NoBeat}]
    BY <1>1 DEF Run, AdvanceWrite, TypeOK
  <2>8. outLevel' \in 0 .. OutSize
    BY <1>1, <1>6, <1>15, OutAssumption DEF OutAssumption, TypeOK
  <2>9. out' \in Pointer \cup {NoBeat}
    <3>1. resp => reads # <<>> /\ reads \in Seq(Pointer \cup {NoBeat})
      BY <1>1 DEF Run, TypeOK
    <3>2. resp => reads[1] \in Pointer \cup {NoBeat}
      BY <3>1
    <3> QED
      BY <1>1, <3>2 DEF Run, Store, TypeOK
  <2> QED
    BY <1>1, <1>4, <1>8, <1>15, <1>18, <2>1, <2>2, <2>3, <2>4, <2>5, <2>6, <2>7, <2>8, <2>9
       DEF TypeOK
<1> QED
  BY <1>17, <1>19, <1>20, <1>21 DEF IInv

-----------------------------------------------------------------------------
LEMMA ClearingInv ==
    ASSUME IInv,
           NEW rdy \in BOOLEAN, NEW wdf \in BOOLEAN, NEW resp \in BOOLEAN,
           NEW expired \in BOOLEAN,
           Clearing(rdy, wdf, resp, expired)
    PROVE  IInv'
<1> USE SizeAssumption DEF SizeAssumption
<1>1. /\ TypeOK /\ isClearing /\ calibrated /\ errors = 0 /\ length = 0 /\ out = NoBeat
      /\ clear' = clear /\ calibrated' = calibrated /\ length' = length
      /\ outLevel' = outLevel /\ out' = out
  BY DEF IInv, RecordInv, Clearing
<1>2. /\ Ahead(allocated) \in Nat /\ Ahead(written) \in Nat
      /\ Ahead(committed) \in Nat /\ Ahead(issued) \in Nat
      /\ Ahead(issued) <= Ahead(committed) /\ Ahead(committed) <= Ahead(written)
      /\ Ahead(written) <= Ahead(allocated) /\ Ahead(allocated) <= Size
  BY <1>1, SubType DEF IInv, OrderInv, TypeOK, Ahead, Pointer
<1>3. /\ Len(reads) = Ahead(issued)
      /\ burstLeft <= Ahead(committed) - Ahead(issued)
      /\ outLevel + Ahead(issued) <= OutSize - 2
  BY DEF IInv, ReadsInv
<1>4. mem' \in [Slot -> Pointer \cup {NoBeat}]
  BY <1>1 DEF Clearing, TypeOK
<1>5. /\ head' \in Beat \cup {NoBeat}
      /\ clear => head' = NoBeat
      /\ head' # NoBeat => head' \in NextBeats'
  <2>1. NextBeats \subseteq Beat
    BY NextBeatsAreBeats
  <2>2. isClearing' \/ Sub(reservedEnd, allocated)' = 0
    BY <1>1 DEF Clearing, ResetPointers, FinishTransactions, isClearing, Sub
  <2>3. isClearing /\ length' = length
    BY <1>1 DEF Clearing
  <2>4. NextBeats' = NextBeats
    <3> DEFINE left == IF isClearing THEN 0 ELSE Sub(reservedEnd, allocated)
    <3>1. left = 0 /\ left' = 0
      BY <2>2, <2>3
    <3> HIDE DEF left
    <3>2. NextBeats = BeatsAfter(length, Reserve, left)
      BY DEF NextBeats, left
    <3>3. NextBeats' = BeatsAfter(length', Reserve, left')
      BY DEF NextBeats, left, BeatsAfter
    <3> QED
      BY <2>3, <3>1, <3>2, <3>3
  <2> QED
    BY <1>1, <2>1, <2>4 DEF Clearing, TypeOK, IInv, RecordInv
<1>6. resp => Ahead(issued) # 0
  <2>1. resp => reads # <<>> /\ reads \in Seq(Pointer \cup {NoBeat})
    BY <1>1 DEF Clearing, TypeOK
  <2> QED
    BY <1>3, <2>1
<1>7. CASE Restart(resp, expired)
  <2>1. ResetPointers /\ ~clear /\ clearPending' = FALSE
    BY <1>7 DEF Clearing, Restart
  <2>2. reads' = <<>>
    <3>1. reads \in Seq(Pointer \cup {NoBeat})
      BY <1>1 DEF TypeOK
    <3>2. ~expired => Len(reads) = 0 /\ ~resp
      BY <1>3, <1>7 DEF Restart, quiet, outstanding, Ahead
    <3> QED
      BY <3>1, <3>2 DEF Clearing
  <2>3. 0 \in Pointer /\ Sub(0, 0) = 0
    BY DEF Pointer, Wrap, Sub
  <2>4. OrderInv'
    BY <2>1, <2>3, <1>1 DEF ResetPointers, OrderInv, Ahead, isClearing
  <2>5. ReadsInv'
    BY <2>1, <2>2, <2>3, <1>1, <1>2, <1>3, OutAssumption
       DEF OutAssumption, ResetPointers, ReadsInv, Ahead, TypeOK
  <2>6. RecordInv'
    BY <2>1, <2>3, <1>1, <1>5 DEF ResetPointers, RecordInv, Ahead, isClearing
  <2>7. TypeOK'
    <3>1. /\ burstLeft' \in 0 .. Burst /\ quota' \in 0 .. Quantum - 1
          /\ value' = value /\ address' = address /\ commit' = commit
      BY <2>1, ClockAssumption DEF ClockAssumption, ResetPointers
    <3>2. reads' \in Seq(Pointer \cup {NoBeat})
      BY <2>2
    <3> QED
      BY <1>1, <1>4, <1>5, <2>1, <2>3, <3>1, <3>2 DEF ResetPointers, TypeOK
  <2> QED
    BY <2>4, <2>5, <2>6, <2>7 DEF IInv
<1>8. CASE ~Restart(resp, expired)
  <2>1. FinishTransactions(rdy, wdf, resp)
    BY <1>8 DEF Clearing
  <2>2. /\ UNCHANGED <<allocated, written, committed, issued, reservedEnd, burstLeft,
                       value, commit, address, errors>>
        /\ UNCHANGED <<writeTurn, quota>>
        /\ clearPending' = TRUE
        /\ reclaimed' = IF resp THEN Inc(reclaimed) ELSE reclaimed
    BY <2>1, <1>6 DEF FinishTransactions, turns, outstanding, Ahead
  <2> DEFINE gone == IF resp THEN 1 ELSE 0
  <2>3. /\ Sub(allocated, reclaimed') = Ahead(allocated) - gone
        /\ Sub(written, reclaimed') = Ahead(written) - gone
        /\ Sub(committed, reclaimed') = Ahead(committed) - gone
        /\ Sub(issued, reclaimed') = Ahead(issued) - gone
        /\ reclaimed' \in Pointer
    BY <1>1, <1>2, <1>6, <2>2, SubShift, SubInc DEF Ahead, TypeOK
  <2>4. OrderInv'
    BY <1>2, <2>2, <2>3 DEF OrderInv, Ahead, isClearing
  <2>5. reads' \in Seq(Pointer \cup {NoBeat}) /\ (~expired => Len(reads') = Ahead(issued) - gone)
    <3>1. reads \in Seq(Pointer \cup {NoBeat})
      BY <1>1 DEF TypeOK
    <3>2. reads' = IF expired THEN <<>> ELSE IF resp THEN Tail(reads) ELSE reads
      BY DEF Clearing
    <3>3. CASE expired
      BY <3>2, <3>3
    <3>4. CASE ~expired /\ resp
      BY <3>1, <3>2, <3>4, <1>2, <1>3, <1>6
    <3>5. CASE ~expired /\ ~resp
      BY <3>1, <3>2, <3>5, <1>2, <1>3
    <3> QED
      BY <3>3, <3>4, <3>5
  <2>6. ~expired
    BY <1>8 DEF Clearing, Restart
  <2>7. ReadsInv'
    <3>1. outLevel \in Nat /\ burstLeft \in Nat /\ gone \in {0, 1} /\ OutSize \in Nat
      BY <1>1, OutAssumption DEF OutAssumption, TypeOK
    <3>2. burstLeft <= (Ahead(committed) - gone) - (Ahead(issued) - gone)
      BY <1>2, <1>3, <3>1
    <3>3. outLevel + (Ahead(issued) - gone) <= OutSize - 2
      BY <1>2, <1>3, <3>1
    <3> HIDE DEF gone
    <3> QED
      BY <1>1, <2>2, <2>3, <2>5, <2>6, <3>2, <3>3 DEF ReadsInv, Ahead
  <2>8. RecordInv'
    BY <1>1, <1>5, <2>2 DEF RecordInv, isClearing
  <2>9. TypeOK'
    BY <1>1, <1>4, <1>5, <2>1, <2>2, <2>3, <2>5 DEF FinishTransactions, TypeOK
  <2> QED
    BY <2>4, <2>7, <2>8, <2>9 DEF IInv
<1> QED
  BY <1>7, <1>8

(* The request for a new stream and its end, reset and calibration.        *)
LEMMA OutsideInv ==
    ASSUME IInv, RaiseClear \/ DropClear \/ ResetClock \/ Calibrate
    PROVE  IInv'
<1> USE SizeAssumption, OutAssumption, ClockAssumption
    DEF SizeAssumption, OutAssumption, ClockAssumption
<1>1. CASE RaiseClear
  <2>1. 0 \in 0 .. Reserve - 1 /\ 0 \in 0 .. OutSize
    OBVIOUS
  <2>2. TypeOK'
    BY <1>1, <2>1 DEF IInv, TypeOK, RaiseClear, pointers, writing, turns
  <2>3. OrderInv'
    BY <1>1 DEF IInv, OrderInv, Ahead, isClearing, RaiseClear, pointers, writing
  <2>4. Ahead(issued) \in Nat /\ outLevel \in Nat
    BY SubType DEF IInv, TypeOK, Ahead, Pointer
  <2>5. ReadsInv'
    BY <1>1, <2>4 DEF IInv, ReadsInv, Ahead, RaiseClear, pointers
  <2>6. RecordInv'
    BY <1>1 DEF IInv, RecordInv, Ahead, isClearing, RaiseClear
  <2> QED
    BY <2>2, <2>3, <2>5, <2>6 DEF IInv
<1>2. CASE DropClear
  <2>1. TypeOK'
    BY <1>2 DEF IInv, TypeOK, DropClear, pointers, writing, turns, outside
  <2>2. OrderInv' /\ ReadsInv'
    BY <1>2 DEF IInv, OrderInv, ReadsInv, Ahead, isClearing, DropClear, pointers, writing, outside
  <2>3. RecordInv'
    BY <1>2 DEF IInv, RecordInv, Ahead, isClearing, DropClear, outside, NextBeats
  <2> QED
    BY <2>1, <2>2, <2>3 DEF IInv
<1>3. CASE ResetClock
  <2>1. 0 \in Pointer /\ Sub(0, 0) = 0
    BY DEF Pointer, Wrap, Sub
  <2>2. 0 \in 0 .. Reserve - 1 /\ 0 \in 0 .. OutSize /\ 0 \in 0 .. Quantum - 1 /\ 0 \in 0 .. Burst
    OBVIOUS
  <2>3. reads' = <<>> /\ reads' \in Seq(Pointer \cup {NoBeat}) /\ Len(reads') = 0
    BY <1>3 DEF ResetClock
  <2>4. TypeOK'
    BY <1>3, <2>1, <2>2, <2>3 DEF IInv, TypeOK, ResetClock, ResetPointers
  <2>5. OrderInv' /\ ReadsInv' /\ RecordInv'
    BY <1>3, <2>1, <2>3
       DEF OrderInv, ReadsInv, RecordInv, Ahead, isClearing, ResetClock, ResetPointers
  <2> QED
    BY <2>4, <2>5 DEF IInv
<1>4. CASE Calibrate
  <2>1. TypeOK'
    BY <1>4 DEF IInv, TypeOK, Calibrate, pointers, writing, turns, clearing
  <2>2. OrderInv' /\ ReadsInv'
    BY <1>4 DEF IInv, OrderInv, ReadsInv, Ahead, isClearing, Calibrate, pointers, writing, clearing
  <2>3. RecordInv'
    BY <1>4 DEF IInv, RecordInv, Ahead, isClearing, Calibrate, pointers, writing, clearing, NextBeats
  <2> QED
    BY <2>1, <2>2, <2>3 DEF IInv
<1> QED
  BY <1>1, <1>2, <1>3, <1>4

(* The invariant is inductive.                                             *)
LEMMA NextInv == IInv /\ [Next]_vars => IInv'
<1> SUFFICES ASSUME IInv, [Next]_vars PROVE IInv'
  OBVIOUS
<1>1. CASE RunClock
  BY <1>1, RunInv DEF RunClock
<1>2. CASE ClearClock
  BY <1>2, ClearingInv DEF ClearClock
<1>3. CASE RaiseClear \/ DropClear \/ ResetClock \/ Calibrate
  BY <1>3, OutsideInv
<1>4. CASE UNCHANGED vars
  BY <1>4 DEF vars, pointers, writing, turns, clearing, outside, IInv, TypeOK, OrderInv,
              ReadsInv, RecordInv, Ahead, isClearing, NextBeats
<1> QED
  BY <1>1, <1>2, <1>3, <1>4 DEF Next

(* Every reachable state of the ring satisfies the invariant.              *)
THEOREM Invariance == Spec => []IInv
BY InitInv, NextInv, PTL DEF Spec

(* All variables keep their types: no pointer, level or counter of the     *)
(* ring leaves its width.                                                  *)
THEOREM TypeCorrect == Spec => []TypeOK
BY Invariance, PTL DEF IInv

(* ddr_ring.v:7-12: the five pointers never pass one another, however the  *)
(* memory, USB and a new stream interleave.                                *)
THEOREM PointersOrdered == Spec => []PointerOrder
<1>1. IInv => PointerOrder
  <2> SUFFICES ASSUME IInv, ~isClearing PROVE
        /\ outstanding <= Sub(committed, reclaimed)
        /\ Sub(committed, reclaimed) <= Sub(written, reclaimed)
        /\ occupancy = Sub(written, reclaimed) + (IF pending THEN 1 ELSE 0)
        /\ occupancy <= Size
    BY DEF PointerOrder
  <2> QED
    BY DEF IInv, OrderInv, Ahead, outstanding, occupancy
<1> QED
  BY <1>1, Invariance, PTL

(* ddr_ring.v:165 and :223: the error counter, which would stop the ring   *)
(* for the rest of the stream, never counts: no record outgrows its        *)
(* reservation and every response finds room in the output FIFO.           *)
THEOREM ErrorFree == Spec => []NoErrors
BY Invariance, PTL DEF IInv, RecordInv, NoErrors

(* ddr_ring.v:3-5: USB never sees half a record.                           *)
THEOREM OnlyWholeRecords == Spec => []WholeRecordsReadable
<1>1. IInv => WholeRecordsReadable
  <2> SUFFICES ASSUME IInv, ~isClearing
               PROVE  /\ Sub(allocated, committed) >= length
                      /\ ~pending => Sub(allocated, committed) = length
    BY DEF WholeRecordsReadable
  <2>1. /\ Ahead(allocated) \in Nat /\ Ahead(committed) \in Nat /\ Ahead(written) \in Nat
        /\ Ahead(committed) <= Ahead(written)
        /\ Ahead(allocated) = Ahead(written) + (IF pending THEN 1 ELSE 0)
        /\ length \in Nat /\ commit \in {"none", "inside", "whole"}
    BY SubType, SizeAssumption DEF SizeAssumption, IInv, OrderInv, TypeOK, Ahead, Pointer, Wrap
  <2>2. Sub(allocated, committed) = Ahead(allocated) - Ahead(committed)
    BY <2>1, SubSub DEF IInv, TypeOK, Ahead
  <2>3. /\ (~pending \/ commit = "none") => Ahead(allocated) - Ahead(committed) = length
        /\ (pending /\ commit = "whole") => length = 0
        /\ (pending /\ commit = "inside") => length = 1
    BY DEF IInv, RecordInv
  <2> QED
    BY <2>1, <2>2, <2>3
<1> QED
  BY <1>1, Invariance, PTL

(* ddr_ring.v:14-16: a record that has begun can be finished.              *)
THEOREM ReservationKept == Spec => []ReservationHolds
<1>1. IInv => ReservationHolds
  BY DEF IInv, RecordInv, ReservationHolds, Ahead, occupancy
<1> QED
  BY <1>1, Invariance, PTL

(* ddr_ring.v:33 and :215: a granted burst never runs out of data.         *)
THEOREM BurstsBacked == Spec => []BurstBacked
<1>1. IInv => BurstBacked
  <2> SUFFICES ASSUME IInv PROVE burstLeft <= readable
    BY DEF BurstBacked
  <2>1. readable = Ahead(committed) - Ahead(issued)
    BY SubSub DEF IInv, TypeOK, OrderInv, readable, Ahead
  <2> QED
    BY <2>1 DEF IInv, ReadsInv
<1> QED
  BY <1>1, Invariance, PTL

(* All three together (ddr_ring.v:24-33).                                  *)
THEOREM AlwaysSafe == Spec => []RingSafe
BY ErrorFree, OnlyWholeRecords, BurstsBacked, PTL DEF RingSafe
-----------------------------------------------------------------------------
(* Two pointers at the same distance from a third are the same pointer.    *)
LEMMA SubEqual ==
    ASSUME NEW p \in Pointer, NEW q \in Pointer, NEW r \in Pointer, Sub(p, r) = Sub(q, r)
    PROVE  p = q
BY SizeAssumption DEF SizeAssumption, Sub, Pointer, Wrap

(* Walking the distance leads to the pointer it was measured to.           *)
LEMMA PlusSub ==
    ASSUME NEW p \in Pointer, NEW r \in Pointer
    PROVE  Plus(r, Sub(p, r)) = p
BY SizeAssumption DEF SizeAssumption, Sub, Plus, Pointer, Wrap

(* A step of the starting point is one less to walk.                       *)
LEMMA PlusInc ==
    ASSUME NEW r \in Pointer, NEW n \in Nat, n + 1 < Wrap
    PROVE  Plus(Inc(r), n) = Plus(r, n + 1)
BY SizeAssumption DEF SizeAssumption, Inc, Plus, Pointer, Wrap

(* Beats less than a whole ring apart lie in different slots.              *)
LEMMA SlotsApart ==
    ASSUME NEW r \in Pointer, NEW a \in 0 .. Size - 1, NEW b \in 0 .. Size - 1,
           SlotOf(Plus(r, a)) = SlotOf(Plus(r, b))
    PROVE  a = b
BY SizeAssumption DEF SizeAssumption, SlotOf, Plus, Pointer, Wrap

(* The write in flight goes to the slot behind the last beat written.      *)
InFlight == pending => address = SlotOf(written)

LEMMA InFlightStep == IInv /\ InFlight /\ [Next]_vars => InFlight'
<1> SUFFICES ASSUME IInv, InFlight, [Next]_vars PROVE InFlight'
  OBVIOUS
<1>1. ASSUME NEW rdy \in BOOLEAN, NEW wdf \in BOOLEAN, NEW resp \in BOOLEAN,
             NEW pop \in BOOLEAN, NEW deep \in BOOLEAN,
             Run(rdy, wdf, resp, pop, deep)
      PROVE  InFlight'
  <2>1. CASE take
    <3>1. ~pending /\ ~isClearing /\ ~WriteComplete(rdy, wdf)
      BY <1>1, <2>1, RunDistances DEF Run, run
    <3>2. allocated = written
      <4>1. Ahead(allocated) = Ahead(written) /\ Ahead(written) \in Int
        BY <3>1, SubType DEF IInv, OrderInv, TypeOK, Ahead, Pointer
      <4>2. QED
        BY <4>1, SubEqual DEF IInv, TypeOK, Ahead
    <3>3. address' = SlotOf(allocated) /\ written' = written
      BY <1>1, <2>1, <3>1 DEF Run, TakeBeat, Commit
    <3>4. QED
      BY <3>2, <3>3 DEF InFlight, SlotOf
  <2>2. CASE ~take
    <3>1. address' = address /\ (pending' => pending /\ ~WriteComplete(rdy, wdf))
      BY <1>1, <2>2 DEF Run, TakeBeat, AdvanceWrite
    <3>2. ~WriteComplete(rdy, wdf) => written' = written
      BY <1>1 DEF Run, Commit
    <3>3. QED
      BY <3>1, <3>2 DEF InFlight, SlotOf
  <2>3. QED
    BY <2>1, <2>2
<1>2. CASE ClearClock
  <2>1. pending' => pending /\ address' = address /\ written' = written
    BY <1>2 DEF ClearClock, Clearing, ResetPointers, FinishTransactions
  <2>2. QED
    BY <2>1 DEF InFlight, SlotOf
<1>3. CASE RaiseClear \/ DropClear \/ ResetClock \/ Calibrate \/ UNCHANGED vars
  <2>1. pending' => pending /\ address' = address /\ written' = written
    BY <1>3 DEF RaiseClear, DropClear, ResetClock, Calibrate, ResetPointers, vars, pointers, writing
  <2>2. QED
    BY <2>1 DEF InFlight, SlotOf
<1>4. QED
  BY <1>1, <1>2, <1>3 DEF Next, RunClock

(* What a running clock does to the distances, measured from `reclaimed'   *)
(* as it becomes.                                                          *)
LEMMA RunMoves ==
    ASSUME IInv,
           NEW rdy \in BOOLEAN, NEW wdf \in BOOLEAN, NEW resp \in BOOLEAN,
           NEW pop \in BOOLEAN, NEW deep \in BOOLEAN,
           Run(rdy, wdf, resp, pop, deep)
    PROVE  LET rc == ReadCommand(rdy)
               gone == IF resp THEN 1 ELSE 0
           IN  /\ reclaimed' = IF resp THEN Inc(reclaimed) ELSE reclaimed
               /\ out' = IF resp THEN reads[1] ELSE out
               /\ resp => outstanding > 0
               /\ ~isClearing /\ ~isClearing'
               /\ occupancy \in Nat /\ outstanding \in Nat
               /\ outstanding <= Ahead(committed) /\ Ahead(committed) \in Nat
               /\ Ahead(committed) <= Ahead(written) /\ Ahead(written) \in Nat
               /\ occupancy = Ahead(written) + (IF pending THEN 1 ELSE 0)
               /\ occupancy <= Size
               /\ occupancy' = occupancy + (IF take THEN 1 ELSE 0) - gone
               /\ outstanding' = outstanding + (IF rc THEN 1 ELSE 0) - gone
               /\ rc => outstanding < Ahead(committed)
               /\ Sub(committed', reclaimed') >= Ahead(committed) - gone
               /\ take => Sub(committed', reclaimed') = Ahead(committed) - gone
<1> DEFINE wc == WriteComplete(rdy, wdf)
           rc == ReadCommand(rdy)
           gone == IF resp THEN 1 ELSE 0
<1> USE SizeAssumption DEF SizeAssumption
<1>1. /\ TypeOK /\ ~isClearing /\ ~isClearing' /\ outstanding = Ahead(issued)
      /\ occupancy = Ahead(allocated)
  BY DEF IInv, Run, run, isClearing, clearing, outstanding, occupancy, Ahead
<1>2. /\ Ahead(allocated) \in Nat /\ Ahead(written) \in Nat
      /\ Ahead(committed) \in Nat /\ Ahead(issued) \in Nat
      /\ Ahead(issued) <= Ahead(committed) /\ Ahead(committed) <= Ahead(written)
      /\ Ahead(written) <= Ahead(allocated) /\ Ahead(allocated) <= Size
      /\ Ahead(allocated) = Ahead(written) + (IF pending THEN 1 ELSE 0)
  BY <1>1, SubType DEF IInv, OrderInv, TypeOK, Ahead, Pointer
<1>3. Len(reads) = Ahead(issued) /\ outLevel + Ahead(issued) <= OutSize - 2
  BY DEF IInv, ReadsInv
<1>4. resp => Ahead(issued) > 0
  <2>1. resp => reads # <<>> /\ reads \in Seq(Pointer \cup {NoBeat})
    BY <1>1 DEF Run, TypeOK
  <2>2. QED
    BY <1>2, <1>3, <2>1
<1>5. resp => outstanding # 0 /\ outLevel < OutSize
  BY <1>1, <1>2, <1>3, <1>4, OutAssumption DEF OutAssumption, TypeOK
<1>6. /\ reclaimed' = IF resp THEN Inc(reclaimed) ELSE reclaimed
      /\ out' = IF resp THEN reads[1] ELSE out
  BY <1>5 DEF Run, Store
<1>7. /\ ~(take /\ wc)
      /\ allocated' \in Pointer /\ committed' \in Pointer /\ issued' \in Pointer
      /\ Sub(allocated', reclaimed) = Ahead(allocated) + (IF take THEN 1 ELSE 0)
      /\ Sub(committed', reclaimed) =
            IF wc /\ commit = "whole" THEN Ahead(written) + 1
            ELSE IF wc /\ commit = "inside" THEN Ahead(written)
            ELSE Ahead(committed)
      /\ Sub(issued', reclaimed) = Ahead(issued) + (IF rc THEN 1 ELSE 0)
      /\ rc => Ahead(issued) < Ahead(committed)
  BY RunDistances
<1>8. \A p \in Pointer : Sub(p, reclaimed) > 0 \/ ~resp =>
                            Sub(p, reclaimed') = Sub(p, reclaimed) - gone
  <2>1. \A p \in Pointer : Sub(p, reclaimed) \in Int /\ reclaimed \in Pointer
    BY <1>1, SubType DEF TypeOK, Pointer
  <2>2. QED
    BY <1>6, <2>1, SubShift
<1>9. Sub(committed', reclaimed) >= Ahead(committed) /\ (take => Sub(committed', reclaimed) = Ahead(committed))
  BY <1>2, <1>7
<1>10. /\ Sub(allocated', reclaimed') = Sub(allocated', reclaimed) - gone
       /\ Sub(issued', reclaimed') = Sub(issued', reclaimed) - gone
       /\ Sub(committed', reclaimed') = Sub(committed', reclaimed) - gone
  <2>1. resp => /\ Sub(allocated', reclaimed) > 0
                /\ Sub(issued', reclaimed) > 0
                /\ Sub(committed', reclaimed) > 0
    BY <1>2, <1>4, <1>7, <1>9
  <2>2. QED
    BY <1>7, <1>8, <2>1
<1>11. occupancy' = Sub(allocated', reclaimed') /\ outstanding' = Sub(issued', reclaimed')
  BY DEF occupancy, outstanding, Sub, Wrap
<1>12. /\ occupancy' = occupancy + (IF take THEN 1 ELSE 0) - gone
       /\ outstanding' = outstanding + (IF rc THEN 1 ELSE 0) - gone
  BY <1>1, <1>2, <1>7, <1>10, <1>11
<1>13. /\ Sub(committed', reclaimed') >= Ahead(committed) - gone
       /\ take => Sub(committed', reclaimed') = Ahead(committed) - gone
  <2>1. Sub(committed', reclaimed) \in Int
    BY <1>2, <1>7
  <2>2. QED
    BY <1>2, <1>9, <1>10, <2>1
<1>14. QED
  BY <1>1, <1>2, <1>4, <1>6, <1>7, <1>12, <1>13

(* A running clock moves no beat and changes none: the beats held keep     *)
(* their order, an answered read takes the first away, and a beat taken    *)
(* from the packer comes last.                                             *)
LEMMA RunKeepsBeats ==
    ASSUME IInv, InFlight,
           NEW rdy \in BOOLEAN, NEW wdf \in BOOLEAN, NEW resp \in BOOLEAN,
           NEW pop \in BOOLEAN, NEW deep \in BOOLEAN,
           Run(rdy, wdf, resp, pop, deep),
           NEW i \in 1 .. occupancy'
    PROVE  LET gone == IF resp THEN 1 ELSE 0
           IN  IF take /\ i = occupancy'
               THEN StoredBeat(i)' = allocated
               ELSE /\ i + gone \in 1 .. occupancy
                    /\ StoredBeat(i)' = StoredBeat(i + gone)
<1> DEFINE wc == WriteComplete(rdy, wdf)
           rc == ReadCommand(rdy)
           gone == IF resp THEN 1 ELSE 0
<1>1. /\ reclaimed' = IF resp THEN Inc(reclaimed) ELSE reclaimed
      /\ resp => outstanding > 0
      /\ occupancy \in Nat /\ outstanding \in Nat
      /\ outstanding <= Ahead(committed) /\ Ahead(committed) \in Nat
      /\ Ahead(committed) <= Ahead(written) /\ Ahead(written) \in Nat
      /\ occupancy = Ahead(written) + (IF pending THEN 1 ELSE 0)
      /\ occupancy <= Size
      /\ occupancy' = occupancy + (IF take THEN 1 ELSE 0) - gone
      /\ outstanding' = outstanding + (IF rc THEN 1 ELSE 0) - gone
      /\ rc => outstanding < Ahead(committed)
  BY RunMoves
<1>2. /\ TypeOK /\ Len(reads) = outstanding /\ reads \in Seq(Pointer \cup {NoBeat})
      /\ written \in Pointer /\ issued \in Pointer /\ reclaimed \in Pointer
      /\ mem \in [Slot -> Pointer \cup {NoBeat}] /\ Size \in Nat /\ Size >= 2
  BY SizeAssumption DEF SizeAssumption, IInv, TypeOK, ReadsInv, Ahead, outstanding
<1>3. ~(take /\ wc) /\ (take => ~pending) /\ (wc => pending)
  BY RunDistances
<1>4. StoredBeat(i)' = IF i <= outstanding' THEN reads'[i]
                       ELSE IF pending' /\ i = occupancy' THEN value'
                       ELSE mem'[SlotOf(Plus(reclaimed', i - 1))]
  BY DEF StoredBeat, SlotOf, Plus, Wrap
<1>5. StoredBeat(i + gone) = IF i + gone <= outstanding THEN reads[i + gone]
                             ELSE IF pending /\ i + gone = occupancy THEN value
                             ELSE mem[SlotOf(Plus(reclaimed, i + gone - 1))]
  BY DEF StoredBeat
<1>6. /\ i \in Nat /\ i >= 1 /\ i <= occupancy' /\ gone \in {0, 1} /\ occupancy' \in Int
      /\ i + gone \in Nat /\ i + gone >= 1
  BY <1>1
<1>7. Plus(reclaimed', i - 1) = Plus(reclaimed, i + gone - 1)
  <2>1. CASE resp
    <3>1. i - 1 \in Nat /\ (i - 1) + 1 < Wrap /\ i + gone - 1 = (i - 1) + 1
      BY <2>1, <1>1, <1>2, <1>6 DEF Wrap
    <3>2. QED
      BY <2>1, <3>1, <1>1, <1>2, PlusInc
  <2>2. CASE ~resp
    BY <2>2, <1>1, <1>6
  <2>3. QED
    BY <2>1, <2>2
<1>8. reads' = IF rc THEN Append(IF resp THEN Tail(reads) ELSE reads, mem[SlotOf(issued)])
               ELSE IF resp THEN Tail(reads) ELSE reads
  BY DEF Run, AnswerReads
<1>9. i + gone <= outstanding => reads'[i] = reads[i + gone]
  <2> DEFINE rest == IF resp THEN Tail(reads) ELSE reads
  <2>1. rest \in Seq(Pointer \cup {NoBeat}) /\ Len(rest) = outstanding - gone
    BY <1>1, <1>2
  <2>2. i + gone <= outstanding => rest[i] = reads[i + gone] /\ i \in 1 .. Len(rest)
    BY <1>1, <1>2, <1>6, <2>1
  <2>3. mem[SlotOf(issued)] \in Pointer \cup {NoBeat}
    BY <1>2, SlotType
  <2> HIDE DEF rest
  <2>4. i \in 1 .. Len(rest) => Append(rest, mem[SlotOf(issued)])[i] = rest[i]
    BY <2>1, <2>3
  <2>5. reads' = IF rc THEN Append(rest, mem[SlotOf(issued)]) ELSE rest
    BY <1>8 DEF rest
  <2>6. QED
    BY <2>2, <2>4, <2>5
<1>10. rc => reads'[outstanding - gone + 1] = mem[SlotOf(Plus(reclaimed, outstanding))]
  <2> DEFINE rest == IF resp THEN Tail(reads) ELSE reads
  <2>1. rest \in Seq(Pointer \cup {NoBeat}) /\ Len(rest) = outstanding - gone
    BY <1>1, <1>2
  <2>2. mem[SlotOf(issued)] \in Pointer \cup {NoBeat}
    BY <1>2, SlotType
  <2> HIDE DEF rest
  <2>3. Append(rest, mem[SlotOf(issued)])[Len(rest) + 1] = mem[SlotOf(issued)]
    BY <2>1, <2>2
  <2>4. Plus(reclaimed, outstanding) = issued
    BY <1>2, PlusSub DEF outstanding
  <2>5. rc => reads' = Append(rest, mem[SlotOf(issued)])
    BY <1>8 DEF rest
  <2>6. QED
    BY <2>1, <2>3, <2>4, <2>5
<1>11. CASE take /\ i = occupancy'
  <2>1. ~pending /\ pending' /\ value' = allocated
    BY <1>3, <1>11 DEF Run, TakeBeat, AdvanceWrite
  <2>2. i > outstanding'
    <3>1. Ahead(written) = occupancy
      BY <1>1, <2>1
    <3>2. QED
      BY <1>1, <1>6, <1>11, <3>1
  <2>3. QED
    BY <1>11, <1>4, <1>6, <2>1, <2>2, <1>1
<1>12. ASSUME ~(take /\ i = occupancy')
       PROVE  i + gone \in 1 .. occupancy /\ StoredBeat(i)' = StoredBeat(i + gone)
  <2>1. i + gone \in 1 .. occupancy
    BY <1>1, <1>6, <1>12
  <2>2. CASE i + gone <= outstanding
    <3>1. i <= outstanding'
      BY <1>1, <1>6, <2>2
    <3>2. QED
      BY <1>4, <1>5, <1>9, <2>1, <2>2, <3>1
  <2>3. CASE i + gone = outstanding + 1 /\ rc
    <3>1. i <= outstanding' /\ i = outstanding - gone + 1 /\ i + gone - 1 = outstanding
          /\ ~(i + gone <= outstanding)
      BY <1>1, <1>6, <2>3
    <3>2. ~(pending /\ i + gone = occupancy)
      BY <1>1, <1>6, <2>3
    <3>3. QED
      BY <1>4, <1>5, <1>10, <2>1, <2>3, <3>1, <3>2
  <2>4. CASE i + gone > outstanding /\ ~(i + gone = outstanding + 1 /\ rc)
    <3>1. ~(i <= outstanding') /\ ~(i + gone <= outstanding)
      BY <1>1, <1>6, <2>4
    <3>2. CASE pending /\ i + gone = occupancy /\ ~wc
      <4>1. pending' /\ value' = value /\ ~take
        BY <1>3, <3>2 DEF Run, TakeBeat, AdvanceWrite
      <4>2. i = occupancy'
        BY <1>1, <1>6, <3>2, <4>1
      <4>3. QED
        BY <1>4, <1>5, <2>1, <3>1, <3>2, <4>1, <4>2
    <3>3. CASE pending /\ i + gone = occupancy /\ wc
      <4>1. ~pending' /\ mem' = [mem EXCEPT ![address] = value]
        BY <1>3, <3>3 DEF Run, AdvanceWrite
      <4>2. i + gone - 1 = Ahead(written)
        BY <1>1, <1>6, <3>3
      <4>3. SlotOf(Plus(reclaimed, i + gone - 1)) = address /\ address \in Slot
        BY <1>2, <3>3, <4>2, PlusSub DEF Ahead, InFlight, TypeOK
      <4>4. mem'[address] = value
        BY <1>2, <4>1, <4>3
      <4>5. QED
        BY <1>4, <1>5, <1>7, <2>1, <3>1, <3>3, <4>1, <4>3, <4>4
    <3>4. CASE ~(pending /\ i + gone = occupancy)
      <4>1. ~(pending' /\ i = occupancy')
        <5>1. CASE take
          BY <1>12, <5>1
        <5>2. CASE ~take
          <6>1. pending' => pending
            BY <5>2 DEF Run, AdvanceWrite
          <6>2. i = occupancy' => i + gone = occupancy
            BY <1>1, <1>6, <5>2
          <6>3. QED
            BY <3>4, <6>1, <6>2
        <5>3. QED
          BY <5>1, <5>2
      <4>2. mem'[SlotOf(Plus(reclaimed, i + gone - 1))] = mem[SlotOf(Plus(reclaimed, i + gone - 1))]
        <5>1. CASE ~wc
          BY <5>1 DEF Run, AdvanceWrite
        <5>2. CASE wc
          <6> DEFINE n == i + gone - 1
                     w == Ahead(written)
          <6>1. n \in 0 .. Size - 1 /\ w \in 0 .. Size - 1 /\ n # w
            BY <1>1, <1>2, <1>3, <1>6, <2>1, <3>4, <5>2
          <6>2. Plus(reclaimed, w) = written
            BY <1>2, PlusSub DEF Ahead
          <6> HIDE DEF n, w
          <6>3. SlotOf(Plus(reclaimed, n)) # SlotOf(Plus(reclaimed, w))
            BY <1>2, <6>1, SlotsApart
          <6>4. address = SlotOf(Plus(reclaimed, w))
            BY <1>3, <5>2, <6>2 DEF InFlight
          <6>5. mem' = [mem EXCEPT ![address] = value]
            BY <5>2 DEF Run, AdvanceWrite
          <6>6. mem'[SlotOf(Plus(reclaimed, n))] = mem[SlotOf(Plus(reclaimed, n))]
            <7>1. n \in 0 .. Wrap - 1
              BY <1>2, <6>1 DEF Wrap
            <7>2. SlotOf(Plus(reclaimed, n)) \in Slot
              BY <1>2, <7>1, SubPlus, SlotType
            <7>3. QED
              BY <1>2, <6>3, <6>4, <6>5, <7>2
          <6>7. QED
            BY <6>6 DEF n
        <5>3. QED
          BY <5>1, <5>2
      <4>3. QED
        BY <1>4, <1>5, <1>7, <2>1, <3>1, <3>4, <4>1, <4>2
    <3>5. QED
      BY <3>2, <3>3, <3>4
  <2>5. QED
    BY <1>1, <1>6, <2>1, <2>2, <2>3, <2>4
<1>13. QED
  BY <1>11, <1>12

-----------------------------------------------------------------------------
(* The refinement.  Held is the queue of the abstract FIFO: the beats of a *)
(* running ring, oldest first.                                             *)
Held == [i \in 1 .. occupancy |-> StoredBeat(i)]
Left(gone) == IF gone THEN Tail(Held) ELSE Held

LEMMA HeldType ==
    ASSUME IInv, ~isClearing
    PROVE  /\ Held \in Seq(Pointer \cup {NoBeat})
           /\ Len(Held) = occupancy
           /\ occupancy \in 0 .. Size
<1>1. /\ TypeOK /\ Len(reads) = outstanding /\ outstanding \in Nat
      /\ occupancy \in Nat /\ occupancy <= Size /\ Size \in Nat /\ Wrap = 2 * Size
      /\ reclaimed \in Pointer
  BY SubType, SizeAssumption
     DEF SizeAssumption, IInv, TypeOK, ReadsInv, OrderInv, Ahead, outstanding, occupancy, Pointer, Wrap
<1>2. ASSUME NEW i \in 1 .. occupancy
      PROVE  StoredBeat(i) \in Pointer \cup {NoBeat}
  <2>1. i <= outstanding => reads[i] \in Pointer \cup {NoBeat}
    BY <1>1 DEF TypeOK
  <2>2. i - 1 \in 0 .. Wrap - 1
    BY <1>1
  <2>3. SlotOf(Plus(reclaimed, i - 1)) \in Slot
    BY <1>1, <2>2, SubPlus, SlotType
  <2>4. QED
    BY <1>1, <2>1, <2>3 DEF StoredBeat, TypeOK
<1>3. Held \in [1 .. occupancy -> Pointer \cup {NoBeat}]
  BY <1>2 DEF Held
<1>4. QED
  BY <1>1, <1>3

(* A running clock takes from the front and appends at the back.           *)
LEMMA RunQueue ==
    ASSUME IInv, InFlight,
           NEW rdy \in BOOLEAN, NEW wdf \in BOOLEAN, NEW resp \in BOOLEAN,
           NEW pop \in BOOLEAN, NEW deep \in BOOLEAN,
           Run(rdy, wdf, resp, pop, deep)
    PROVE  /\ Held' = IF take THEN Append(Left(resp), allocated) ELSE Left(resp)
           /\ out' = IF resp THEN Head(Held) ELSE out
<1> DEFINE gone == IF resp THEN 1 ELSE 0
           Datum == Pointer \cup {NoBeat}
<1>1. /\ out' = IF resp THEN reads[1] ELSE out
      /\ resp => outstanding > 0
      /\ ~isClearing
      /\ occupancy \in Nat /\ outstanding \in Nat
      /\ outstanding <= occupancy
      /\ occupancy' = occupancy + (IF take THEN 1 ELSE 0) - gone
  <2>1. /\ outstanding <= Ahead(committed) /\ Ahead(committed) <= Ahead(written)
        /\ occupancy = Ahead(written) + (IF pending THEN 1 ELSE 0)
        /\ Ahead(committed) \in Nat /\ Ahead(written) \in Nat
        /\ outstanding \in Nat
    BY RunMoves
  <2>2. outstanding <= occupancy
    BY <2>1
  <2>3. QED
    BY <2>2, RunMoves
<1>2. Held \in Seq(Datum) /\ Len(Held) = occupancy
  BY <1>1, HeldType
<1>3. /\ Left(resp) \in Seq(Datum) /\ Len(Left(resp)) = occupancy - gone
      /\ \A i \in 1 .. occupancy - gone : Left(resp)[i] = StoredBeat(i + gone)
  <2>1. \A i \in 1 .. occupancy : Held[i] = StoredBeat(i)
    BY DEF Held
  <2>2. CASE resp
    <3>1. Held # <<>> /\ Left(resp) = Tail(Held) /\ gone = 1
      BY <2>2, <1>1, <1>2 DEF Left
    <3>2. /\ Tail(Held) \in Seq(Datum) /\ Len(Tail(Held)) = occupancy - 1
          /\ \A i \in 1 .. occupancy - 1 : Tail(Held)[i] = Held[i + 1]
      BY <3>1, <1>2
    <3>3. \A i \in 1 .. occupancy - 1 : i + 1 \in 1 .. occupancy
      BY <1>1
    <3>4. QED
      BY <2>1, <3>1, <3>2, <3>3
  <2>3. CASE ~resp
    BY <2>1, <2>3, <1>1, <1>2 DEF Left
  <2>4. QED
    BY <2>2, <2>3
<1>4. Held' = [i \in 1 .. occupancy' |-> StoredBeat(i)']
  BY DEF Held
<1>5. \A i \in 1 .. occupancy' :
         IF take /\ i = occupancy' THEN StoredBeat(i)' = allocated
         ELSE i + gone \in 1 .. occupancy /\ StoredBeat(i)' = StoredBeat(i + gone)
  BY RunKeepsBeats
<1>6. allocated \in Datum
  BY DEF IInv, TypeOK
<1>7. out' = IF resp THEN Head(Held) ELSE out
  <2>1. resp => Held[1] = StoredBeat(1) /\ StoredBeat(1) = reads[1]
    BY <1>1 DEF Held, StoredBeat
  <2>2. resp => Head(Held) = Held[1]
    BY <1>1, <1>2
  <2>3. QED
    BY <1>1, <2>1, <2>2
<1>8. CASE take
  <2> DEFINE l == Left(resp)
             k == occupancy - gone
  <2>1. occupancy' = k + 1 /\ k \in Nat
    BY <1>1, <1>8
  <2>2. l \in Seq(Datum) /\ Len(l) = k /\ \A i \in 1 .. k : l[i] = StoredBeat(i + gone)
    BY <1>3
  <2>3. \A i \in 1 .. k + 1 : StoredBeat(i)' = IF i = k + 1 THEN allocated ELSE StoredBeat(i + gone)
    BY <1>5, <1>8, <2>1
  <2> HIDE DEF l, k
  <2>4. /\ Append(l, allocated) \in Seq(Datum) /\ Len(Append(l, allocated)) = k + 1
        /\ \A i \in 1 .. k : Append(l, allocated)[i] = l[i]
        /\ Append(l, allocated)[k + 1] = allocated
    BY <2>1, <2>2, <1>6
  <2>5. \A i \in 1 .. k + 1 : i = k + 1 \/ i \in 1 .. k
    BY <2>1
  <2>6. \A i \in 1 .. k + 1 : Append(l, allocated)[i] = StoredBeat(i)'
    BY <2>1, <2>2, <2>3, <2>4, <2>5
  <2>7. \A s \in Seq(Datum) : s = [i \in 1 .. Len(s) |-> s[i]]
    OBVIOUS
  <2> DEFINE m == Append(l, allocated)
  <2>8. m \in Seq(Datum) /\ Len(m) = k + 1 /\ \A i \in 1 .. k + 1 : m[i] = StoredBeat(i)'
    BY <2>4, <2>6
  <2> HIDE DEF m, Datum
  <2>9. m = [i \in 1 .. k + 1 |-> m[i]]
    BY <2>7, <2>8
  <2>10. [i \in 1 .. k + 1 |-> m[i]] = [i \in 1 .. k + 1 |-> StoredBeat(i)']
    BY <2>8
  <2>11. Held' = m
    BY <1>4, <2>1, <2>9, <2>10
  <2>12. QED
    BY <1>8, <1>7, <2>11 DEF l, m
<1>9. CASE ~take
  <2> DEFINE l == Left(resp)
             k == occupancy - gone
  <2>1. occupancy' = k
    BY <1>1, <1>9
  <2>2. l \in Seq(Datum) /\ Len(l) = k /\ \A i \in 1 .. k : l[i] = StoredBeat(i + gone)
    BY <1>3
  <2>3. \A i \in 1 .. k : StoredBeat(i)' = StoredBeat(i + gone)
    BY <1>5, <1>9, <2>1
  <2>4. \A s \in Seq(Datum) : s = [i \in 1 .. Len(s) |-> s[i]]
    OBVIOUS
  <2> HIDE DEF l, k, Datum
  <2>5. l = [i \in 1 .. k |-> l[i]]
    BY <2>2, <2>4
  <2>6. [i \in 1 .. k |-> l[i]] = [i \in 1 .. k |-> StoredBeat(i)']
    BY <2>2, <2>3
  <2>7. Held' = l
    BY <1>4, <2>1, <2>5, <2>6
  <2>8. QED
    BY <1>9, <1>7, <2>7 DEF l
<1>10. QED
  BY <1>8, <1>9

(* Taking a beat is the FIFO's Accept, every other running clock its       *)
(* Release.                                                                *)
LEMMA RunRefines ==
    ASSUME IInv, InFlight,
           NEW rdy \in BOOLEAN, NEW wdf \in BOOLEAN, NEW resp \in BOOLEAN,
           NEW pop \in BOOLEAN, NEW deep \in BOOLEAN,
           Run(rdy, wdf, resp, pop, deep)
    PROVE  Fifo!Next
<1> DEFINE gone == IF resp THEN 1 ELSE 0
           queue == IF isClearing THEN <<>> ELSE [i \in 1 .. occupancy |-> StoredBeat(i)]
           whole == IF isClearing THEN 0 ELSE Sub(committed, reclaimed)
<1>1. /\ ~isClearing /\ ~isClearing'
      /\ resp => outstanding > 0
      /\ outstanding \in Nat /\ occupancy \in Nat
      /\ outstanding <= Ahead(committed) /\ Ahead(committed) \in Nat
      /\ occupancy' = occupancy + (IF take THEN 1 ELSE 0) - gone
      /\ Sub(committed', reclaimed') >= Ahead(committed) - gone
      /\ take => Sub(committed', reclaimed') = Ahead(committed) - gone
  BY RunMoves
<1>2. queue = Held /\ queue' = Held'
  BY <1>1 DEF Held
<1>3. whole = Ahead(committed) /\ whole' = Sub(committed', reclaimed')
  BY <1>1 DEF Ahead, Sub, Wrap
<1>4. Len(Held) = occupancy
  BY <1>1, HeldType
<1>5. /\ Held' = IF take THEN Append(Left(resp), allocated) ELSE Left(resp)
      /\ out' = IF resp THEN Head(Held) ELSE out
  BY RunQueue
<1>6. length \in 0 .. Reserve - 1 /\ reservedEnd \in Pointer /\ allocated \in Pointer
  BY DEF IInv, TypeOK
<1> HIDE DEF queue, whole
<1>7. Fifo!Deliver(resp)
  <2>1. resp => whole > 0
    BY <1>1, <1>3
  <2>2. QED
    BY <1>2, <1>5, <2>1 DEF Fifo!Deliver, queue, whole
<1>8. Fifo!Rest(resp) = Left(resp) /\ Fifo!Gone(resp) = gone
  BY <1>2 DEF Fifo!Rest, Fifo!Gone, Left, queue
<1>9. CASE take
  <2>1. head \in NextBeats /\ occupancy < Size
    BY <1>9 DEF take, inReady, IInv, RecordInv
  <2>2. /\ length' = LengthAfter(head)
        /\ LengthAfter(head) \in 0 .. Reserve - 1
        /\ LengthAfter(head) \in {0, 1, length + 1}
    BY <1>6, <1>9, <2>1, NextBeatsType DEF Run, TakeBeat
  <2>3. whole' = whole - Fifo!Gone(resp)
    BY <1>1, <1>3, <1>8, <1>9
  <2>4. queue' \in {Append(Fifo!Rest(resp), number) : number \in 0 .. Wrap - 1}
    BY <1>2, <1>5, <1>6, <1>8, <1>9 DEF Pointer
  <2>5. Len(queue) < Size
    BY <1>2, <1>4, <2>1
  <2>6. Fifo!Accept
    BY <1>7, <2>2, <2>3, <2>4, <2>5 DEF Fifo!Accept, queue, whole
  <2>7. QED
    BY <2>6 DEF Fifo!Next
<1>10. CASE ~take
  <2>1. length' = length
    BY <1>10 DEF Run, TakeBeat
  <2>2. whole' + gone >= whole
    <3>1. Sub(committed', reclaimed') \in Int
      <4>1. committed' \in Pointer /\ reclaimed' \in Pointer
        BY RunInv DEF IInv, TypeOK
      <4>2. QED
        BY <4>1, SubType
    <3>2. QED
      BY <1>1, <1>3, <3>1
  <2>3. whole' + gone <= occupancy - length
    <3>1. /\ TypeOK' /\ Ahead(committed)' <= Ahead(written)'
          /\ Ahead(allocated)' = Ahead(written)' + (IF pending' THEN 1 ELSE 0)
          /\ (~pending' \/ commit' = "none") =>
                Ahead(allocated)' - Ahead(committed)' = length'
          /\ (pending' /\ commit' = "whole") => length' = 0
          /\ (pending' /\ commit' = "inside") => length' = 1
      BY <1>1, RunInv DEF IInv, OrderInv, RecordInv
    <3>2. commit' \in {"none", "inside", "whole"} /\ length' \in Nat
      BY <1>6, <2>1, <3>1 DEF TypeOK
    <3>3. Ahead(allocated)' = occupancy' /\ Ahead(committed)' = whole'
      BY <1>3 DEF Ahead, occupancy, Sub, Wrap
    <3>4. whole' \in Int /\ Ahead(written)' \in Int /\ occupancy' \in Int /\ length \in Nat
      <4>1. /\ committed' \in Pointer /\ written' \in Pointer /\ reclaimed' \in Pointer
            /\ Ahead(written)' = Sub(written', reclaimed')
        BY <3>1 DEF TypeOK, Ahead, Sub, Wrap
      <4>2. whole' \in Int /\ Ahead(written)' \in Int
        BY <1>3, <4>1, SubType
      <4>3. occupancy' \in Int
        BY <1>1, <1>10
      <4>4. QED
        BY <1>6, <4>2, <4>3
    <3>5. whole' <= occupancy' - length'
      <4>1. PICK a \in Int, w \in Int, c \in Int, n \in Nat :
               a = occupancy' /\ w = Ahead(written)' /\ c = whole' /\ n = length'
        BY <3>2, <3>4, Zenon
      <4>2. c <= w /\ a = w + (IF pending' THEN 1 ELSE 0)
        BY <3>1, <3>3, <4>1
      <4>3. \/ a - c = n
            \/ pending' /\ n = 0
            \/ pending' /\ n = 1
        BY <3>1, <3>2, <3>3, <4>1
      <4>4. c <= a - n
        BY <4>2, <4>3
      <4>5. QED
        BY <4>1, <4>4
    <3>6. QED
      <4>1. occupancy' + gone = occupancy
        BY <1>1, <1>10
      <4>2. PICK a \in Int, c \in Int, n \in Nat : a = occupancy' /\ c = whole' /\ n = length
        BY <3>4, Zenon
      <4>3. c <= a - n
        BY <2>1, <3>5, <4>2
      <4>4. c + gone <= (a + gone) - n
        BY <4>3
      <4>5. QED
        BY <4>1, <4>2, <4>4
  <2>4. whole' + Fifo!Gone(resp) \in whole .. Len(queue) - length
    <3>1. whole' \in Int
      <4>1. committed' \in Pointer /\ reclaimed' \in Pointer
        BY RunInv DEF IInv, TypeOK
      <4>2. QED
        BY <1>3, <4>1, SubType
    <3>2. QED
      BY <1>1, <1>2, <1>3, <1>4, <1>6, <1>8, <2>2, <2>3, <3>1
  <2>5. queue' = Fifo!Rest(resp)
    BY <1>2, <1>5, <1>8, <1>10
  <2>6. Fifo!Release
    BY <1>7, <2>1, <2>4, <2>5 DEF Fifo!Release, queue, whole
  <2>7. QED
    BY <2>6 DEF Fifo!Next
<1>11. QED
  BY <1>9, <1>10

(* ddr_ring.v:1-16: whatever the memory controller, the output side and    *)
(* the requests for a new stream do, the ring delivers the beats it took,  *)
(* in order, each once, and only out of whole records.                     *)
THEOREM FifoImplemented == Spec => ImplementsFifo
<1>1. Init => Fifo!Init /\ InFlight
  <2> SUFFICES ASSUME Init PROVE Fifo!Init /\ InFlight
    OBVIOUS
  <2>1. /\ length = 0 /\ out = NoBeat /\ ~isClearing /\ ~pending
        /\ Sub(committed, reclaimed) = 0 /\ occupancy = 0
    BY DEF Init, isClearing, Sub, occupancy
  <2>2. QED
    BY <2>1 DEF Fifo!Init, InFlight
<1>2. IInv /\ InFlight /\ [Next]_vars => [Fifo!Next]_(Fifo!fifo)
  <2> SUFFICES ASSUME IInv, InFlight, [Next]_vars
               PROVE  Fifo!Next \/ UNCHANGED Fifo!fifo
    OBVIOUS
  <2> DEFINE queue == IF isClearing THEN <<>> ELSE [i \in 1 .. occupancy |-> StoredBeat(i)]
             whole == IF isClearing THEN 0 ELSE Sub(committed, reclaimed)
  <2>1. CASE RunClock
    BY <2>1, RunRefines DEF RunClock
  <2>2. CASE RaiseClear \/ ResetClock
    <3>1. length' = 0 /\ out' = NoBeat
      BY <2>2 DEF RaiseClear, ResetClock
    <3>2. queue' = <<>> /\ whole' = 0
      <4>1. CASE RaiseClear
        BY <4>1 DEF RaiseClear, isClearing
      <4>2. CASE ResetClock
        BY <4>2 DEF ResetClock, ResetPointers, occupancy, Sub
      <4>3. QED
        BY <2>2, <4>1, <4>2
    <3>3. Fifo!Clear
      BY <3>1, <3>2 DEF Fifo!Clear
    <3>4. QED
      BY <3>3 DEF Fifo!Next
  <2>3. CASE ClearClock
    <3>1. length' = 0 /\ out' = NoBeat
      BY <2>3 DEF ClearClock, Clearing, IInv, RecordInv
    <3>2. queue' = <<>> /\ whole' = 0
      <4>1. PICK rdy, wdf, resp, expired \in BOOLEAN : Clearing(rdy, wdf, resp, expired)
        BY <2>3 DEF ClearClock
      <4>2. CASE Restart(resp, expired)
        BY <4>1, <4>2 DEF Clearing, ResetPointers, occupancy, Sub
      <4>3. CASE ~Restart(resp, expired)
        BY <4>1, <4>3 DEF Clearing, FinishTransactions, isClearing
      <4>4. QED
        BY <4>2, <4>3
    <3>3. Fifo!Clear
      BY <3>1, <3>2 DEF Fifo!Clear
    <3>4. QED
      BY <3>3 DEF Fifo!Next
  <2>4. CASE DropClear \/ Calibrate \/ UNCHANGED vars
    <3>1. isClearing' = isClearing
      BY <2>4 DEF DropClear, Calibrate, isClearing, vars, clearing
    <3>2. UNCHANGED <<allocated, written, committed, issued, reclaimed, pending, value,
                      length, mem, reads, out>>
      BY <2>4 DEF DropClear, Calibrate, vars, pointers, writing, outside
    <3>3. queue' = queue /\ whole' = whole
      BY <3>1, <3>2 DEF StoredBeat, occupancy, outstanding, Sub, Plus, SlotOf, Wrap
    <3>4. QED
      BY <3>2, <3>3 DEF Fifo!fifo
  <2>5. QED
    BY <2>1, <2>2, <2>3, <2>4 DEF Next
<1>3. QED
  BY <1>1, <1>2, InFlightStep, Invariance, PTL DEF Spec, ImplementsFifo, Fifo!Spec
=============================================================================
