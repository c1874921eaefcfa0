------------------------- MODULE AcquisitionProofs --------------------------
(***************************************************************************)
(* The handoff between the two cores is correct for every ring size,       *)
(* threshold, guard and duration, and for every interleaving of the cores  *)
(* and the writer.                                                         *)
(*                                                                         *)
(* The argument counts the units each core has published (Done).  Core 0   *)
(* is never more than one ahead of core 1 and never behind, so the number  *)
(* of units published, Turn, says whose turn it is, which bank is on offer *)
(* or being filled, and where the bank select register points.             *)
(*                                                                         *)
(* What is in the banks then follows (DataInv): every cell of the unit     *)
(* being filled, left or sent, and the guard in front of it, so that the   *)
(* searches for both ends find them exactly or fail.                       *)
(***************************************************************************)
EXTENDS Acquisition, WellFoundedInduction, TLAPS

Sending == {"group", "transmit", "release"}
Loop == {"wait", "prepare", "check", "poll", "measure", "switch", "locate"} \cup Sending

Done(lane) == unit[lane] + (IF pc[lane] \in Sending THEN 1 ELSE 0)
Turn == Done(0) + Done(1)
Spot(n) == n % 4
Switching == pc[0] = "locate" \/ pc[1] = "locate"
Cuts == Turn + (IF Switching THEN 2 ELSE 1)

(* Who is where while a run starts and ends.                               *)
Phases ==
    /\ pc[0] = "idle" => pc[1] = "idle" /\ seen = core1_request
    /\ pc[0] = "joining" => /\ ~started /\ ~core1_done /\ ~stopped
                            /\ pc[1] \in {"idle", "joining"}
                            /\ pc[1] = "idle" => ~core1_ready
                            /\ unit[0] = 0 /\ unit[1] = 0
    /\ pc[0] \in Loop \cup {"over"} => started /\ (pc[1] = "idle" => core1_done)
    /\ core1_done => pc[1] = "idle" /\ seen = core1_request
    /\ pc[0] = "idle" /\ core1_done => stopped
    /\ pc[1] # "idle" => seen = core1_request
    /\ pc[1] \in Loop \cup {"over"} => started

(* Whose turn it is.                                                       *)
Turns ==
    /\ Done(0) = Done(1) \/ Done(0) = Done(1) + 1
    /\ Holding(0) => Done(0) = Done(1)
    /\ Holding(1) => Done(0) = Done(1) + 1
    /\ \A b \in Banks : valid[b] => b = Spot(Turn)

(* Where the writer is.                                                    *)
WriterInv ==
    started => /\ stopped => ~running
               /\ ~stopped => /\ running
                              /\ bank_select = Spot(IF Switching THEN Turn + 1 ELSE Turn)

(* When the run has been stopped.                                          *)
StopInv ==
    /\ \A b \in Banks : valid[b] => ~stopped
    /\ \A lane \in Lanes :
          /\ Holding(lane) /\ pc[lane] # "locate" => ~stopped
          /\ pc[lane] = "locate" => (stopped <=> last[lane])
          /\ pc[lane] = "over" => stopped
          /\ last[lane] => lane = 1
    /\ stopped /\ status = "OK" => pc[1] = "locate" \/ Done(0) = Done(1)

BusyInv ==
    ~stopped => \A lane \in Lanes, b \in Banks :
        busy[b] /\ b % 2 = lane => /\ Mine(lane) = b
                                   /\ pc[lane] \in {"switch", "locate"} \cup Sending

CutsInv == status = "OK" => Len(cuts) = Cuts

IInv ==
    /\ TypeOK /\ cuts \in Seq(Nat)
    /\ Phases /\ OneBaton /\ Turns /\ WriterInv /\ StopInv /\ BusyInv /\ CutsInv
    /\ OwnershipUnbroken

-----------------------------------------------------------------------------
(* Banks are served in order.                                              *)
LEMMA SpotNext == ASSUME NEW n \in Nat
                  PROVE  /\ Spot(n) \in Banks
                         /\ Spot(n + 1) = After(Spot(n))
                         /\ Spot(n) # Spot(n + 1) /\ Spot(n) # Spot(n + 2)
                         /\ Spot(n) # Spot(n + 3)
BY DEF Spot, Banks, After

LEMMA SpotZero == Spot(0) = 0
BY DEF Spot

LEMMA MineSpot == ASSUME NEW lane \in Lanes, unit[lane] \in Nat
                  PROVE  /\ Mine(lane) = Spot(2 * unit[lane] + lane)
                         /\ Mine(lane) \in Banks /\ Mine(lane) % 2 = lane
                         /\ After(Mine(lane)) \in Banks /\ After(Mine(lane)) % 2 = 1 - lane
<1>1. lane = 0 \/ lane = 1
  BY DEF Lanes
<1>2. unit[lane] % 2 = 0 => (2 * unit[lane] + lane) % 4 = lane
  BY <1>1
<1>3. unit[lane] % 2 # 0 => (2 * unit[lane] + lane) % 4 = lane + 2
  BY <1>1
<1>4. Mine(lane) = Spot(2 * unit[lane] + lane) /\ Mine(lane) \in {lane, lane + 2}
  BY <1>2, <1>3 DEF Mine, Spot
<1> QED
  BY <1>1, <1>4 DEF Banks, After

LEMMA Counts == ASSUME TypeOK
                PROVE  /\ Done(0) \in Nat /\ Done(1) \in Nat /\ Turn \in Nat
                       /\ \A lane \in Lanes : unit[lane] \in Nat /\ pc[lane] \in Points
BY DEF TypeOK, Done, Turn, Lanes

LEMMA Update == ASSUME NEW S, NEW T, NEW f \in [S -> T], NEW x \in S, NEW v \in T
                PROVE  /\ [f EXCEPT ![x] = v] \in [S -> T]
                       /\ [f EXCEPT ![x] = v][x] = v
                       /\ \A y \in S : y # x => [f EXCEPT ![x] = v][y] = f[y]
OBVIOUS

LEMMA InitInv == Init => IInv
<1> SUFFICES ASSUME Init PROVE IInv
  OBVIOUS
<1> USE DEF Init, Lanes, Banks
<1>1. TypeOK /\ cuts \in Seq(Nat)
  <2>1. /\ pc \in [Lanes -> Points] /\ unit \in [Lanes -> Nat]
        /\ status \in Codes /\ fail_lane \in Lanes
        /\ pos \in Nat /\ cuts \in Seq(Nat) /\ bank_select \in Banks \cup {NoBank}
    BY DEF Points, Codes
  <2>2. valid \in [Banks -> BOOLEAN] /\ busy \in [Banks -> BOOLEAN] /\ last \in [Lanes -> BOOLEAN]
    BY Zenon
  <2> QED
    BY <2>1, <2>2, Zenon DEF TypeOK
<1>2. Done(0) = 0 /\ Done(1) = 0 /\ Turn = 0 /\ ~Switching /\ Cuts = 1
  BY DEF Done, Turn, Switching, Cuts, Sending
<1>3. Phases
  BY DEF Phases, Loop, Sending
<1>4. OneBaton
  BY DEF OneBaton, Holding
<1>5. Turns
  BY <1>2 DEF Turns, Holding
<1>6. WriterInv /\ StopInv /\ BusyInv
  BY DEF WriterInv, StopInv, BusyInv, Holding
<1>7. CutsInv /\ OwnershipUnbroken
  BY <1>2 DEF CutsInv, OwnershipUnbroken
<1> QED
  BY <1>1, <1>3, <1>4, <1>5, <1>6, <1>7 DEF IInv

(* Steps that move no core and leave the handoff alone.                    *)
LEMMA StillInv ==
    ASSUME IInv, TypeOK',
           UNCHANGED <<control, joining, ending, busy, valid, last, cuts, running, bank_select>>
    PROVE  IInv'
<1>1. UNCHANGED <<pc, unit, started, core1_request, seen, core1_ready, core1_done, stopped, status,
                  busy, valid, last, cuts, running, bank_select>>
  BY DEF control, joining, ending
<1> QED
  BY <1>1 DEF IInv, Phases, OneBaton, Turns, WriterInv, StopInv, BusyInv, CutsInv,
              OwnershipUnbroken, Holding, Done, Turn, Switching, Cuts, Mine

(* Any step of one core: what it moves.                                    *)
LEMMA Moved ==
    ASSUME TypeOK, NEW lane \in Lanes, NEW to \in Points, pc' = [pc EXCEPT ![lane] = to]
    PROVE  /\ pc'[lane] = to /\ pc'[1 - lane] = pc[1 - lane]
           /\ lane = 0 => pc'[0] = to /\ pc'[1] = pc[1]
           /\ lane = 1 => pc'[1] = to /\ pc'[0] = pc[0]
           /\ 1 - lane \in Lanes
           /\ unit' = unit => Done(1 - lane)' = Done(1 - lane)
           /\ unit' = unit /\ (to \in Sending <=> pc[lane] \in Sending)
                => Done(0)' = Done(0) /\ Done(1)' = Done(1) /\ Turn' = Turn
BY DEF TypeOK, Lanes, Done, Turn

LEMMA FailInv ==
    ASSUME IInv, NEW lane \in Lanes, NEW code \in Codes, code \notin {"OK", "OWNER", "REUSE"},
           Holding(lane), Fail(lane, code), stopped_by_host' \in BOOLEAN
    PROVE  IInv'
<1> USE DEF Holding
<1>1. TypeOK /\ lane \in {0, 1} /\ pc[lane] \notin Sending /\ "over" \in Points
  BY DEF IInv, Lanes, Sending, Points
<1>2. /\ pc' = [pc EXCEPT ![lane] = "over"]
      /\ status' = IF status = "OK" THEN code ELSE status
      /\ running' = FALSE /\ bank_select' = NoBank /\ stopped' = TRUE
      /\ last' = [last EXCEPT ![lane] = FALSE]
      /\ UNCHANGED <<unit, core1_request, seen, core1_ready, started, core1_done, stop_requested,
                     busy, valid, pos, cuts>>
      /\ fail_lane' \in {lane, fail_lane}
  BY DEF Fail, Abandon, Go, ForgetLocals, joining, handoff, ghosts
<1>3. TypeOK'
  <2>1. pc' \in [Lanes -> Points] /\ last' \in [Lanes -> BOOLEAN]
    BY <1>1, <1>2, Update DEF TypeOK
  <2>2. status' \in Codes /\ fail_lane' \in Lanes
    BY <1>1, <1>2 DEF TypeOK, Lanes
  <2>3. /\ unit' \in [Lanes -> Nat] /\ bank_select' \in Banks \cup {NoBank} /\ pos' \in Nat
    BY <1>1, <1>2 DEF TypeOK
  <2>4. /\ core1_request' \in BOOLEAN /\ seen' \in BOOLEAN /\ core1_ready' \in BOOLEAN
        /\ started' \in BOOLEAN /\ core1_done' \in BOOLEAN
        /\ stopped' \in BOOLEAN /\ stop_requested' \in BOOLEAN /\ running' \in BOOLEAN
    BY <1>1, <1>2 DEF TypeOK
  <2>5. busy' \in [Banks -> BOOLEAN] /\ valid' \in [Banks -> BOOLEAN]
    BY <1>1, <1>2 DEF TypeOK
  <2> QED
    BY <2>1, <2>2, <2>3, <2>4, <2>5 DEF TypeOK
<1>4. /\ Done(0)' = Done(0) /\ Done(1)' = Done(1) /\ Turn' = Turn
      /\ pc'[lane] = "over" /\ pc'[1 - lane] = pc[1 - lane]
      /\ lane = 0 => pc'[0] = "over" /\ pc'[1] = pc[1]
      /\ lane = 1 => pc'[1] = "over" /\ pc'[0] = pc[0]
  BY <1>1, <1>2, Moved DEF Sending
<1>5. Phases'
  BY <1>1, <1>2, <1>4 DEF IInv, Phases, Loop
<1>6. OneBaton'
  BY <1>1, <1>2, <1>4 DEF IInv, OneBaton
<1>7. Turns'
  BY <1>1, <1>2, <1>4 DEF IInv, Turns
<1>8. WriterInv' /\ BusyInv'
  BY <1>2 DEF WriterInv, BusyInv
<1>9. ~Holding(1 - lane) /\ \A b \in Banks : ~valid[b]
  BY <1>1 DEF IInv, OneBaton
<1>10. status' # "OK" /\ status' \notin {"OWNER", "REUSE"}
  BY <1>2 DEF IInv, OwnershipUnbroken
<1>11. StopInv'
  <2>1. last'[lane] = FALSE /\ last'[1 - lane] = last[1 - lane]
    <3>1. last \in [Lanes -> BOOLEAN] /\ 1 - lane \in Lanes /\ 1 - lane # lane
      BY <1>1 DEF TypeOK, Lanes
    <3> QED
      BY <1>2, <3>1, Update, Zenon
  <2> QED
    BY <1>1, <1>2, <1>4, <1>9, <1>10, <2>1 DEF IInv, StopInv, Lanes
<1> QED
  BY <1>2, <1>3, <1>5, <1>6, <1>7, <1>8, <1>10, <1>11 DEF IInv, CutsInv, OwnershipUnbroken

(* Steps that leave a core where it was in its turn.                       *)
LEMMA PassInv ==
    ASSUME IInv, TypeOK', NEW lane \in Lanes, NEW to \in Points,
           pc' = [pc EXCEPT ![lane] = to],
           \/ pc[lane] \in {"prepare", "check", "poll"} /\ to \in {"check", "poll", "measure"}
           \/ pc[lane] \in Sending /\ to \in Sending,
           UNCHANGED <<unit, joining, stopped, status, busy, valid, last, cuts, running, bank_select>>
    PROVE  IInv'
<1>1. TypeOK /\ lane \in {0, 1}
  BY DEF IInv, Lanes
<1>2. /\ Done(0)' = Done(0) /\ Done(1)' = Done(1) /\ Turn' = Turn
      /\ pc'[lane] = to /\ pc'[1 - lane] = pc[1 - lane]
      /\ lane = 0 => pc'[0] = to /\ pc'[1] = pc[1]
      /\ lane = 1 => pc'[1] = to /\ pc'[0] = pc[0]
  BY <1>1, Moved DEF Sending
<1>3. UNCHANGED <<core1_request, seen, core1_ready, started, core1_done>>
  BY DEF joining
<1>4. Phases'
  BY <1>1, <1>2, <1>3 DEF IInv, Phases, Loop, Sending
<1>5. OneBaton'
  BY <1>1, <1>2 DEF IInv, OneBaton, Holding, Sending
<1>6. Turns'
  BY <1>1, <1>2 DEF IInv, Turns, Holding, Sending
<1>7. Switching' = Switching /\ Switching' \in BOOLEAN
  BY <1>1, <1>2 DEF Switching, Sending
<1>8. WriterInv' /\ CutsInv'
  BY <1>2, <1>3, <1>7 DEF IInv, WriterInv, CutsInv, Cuts
<1>9. StopInv'
  BY <1>1, <1>2 DEF IInv, StopInv, Holding, Lanes, Sending
<1>10. BusyInv'
  BY <1>1, <1>2 DEF IInv, BusyInv, Mine, Lanes, Sending
<1> QED
  BY <1>4, <1>5, <1>6, <1>8, <1>9, <1>10 DEF IInv, OwnershipUnbroken

(* The checks of prepare pass: the core that took a bank finds the writer  *)
(* in it, and the next bank is not being sent.                             *)
LEMMA PrepareOwns ==
    ASSUME IInv, NEW lane \in Lanes, pc[lane] = "prepare"
    PROVE  bank_select = Mine(lane) /\ ~busy[After(Mine(lane))]
<1>1. /\ TypeOK /\ lane \in {0, 1} /\ Holding(lane) /\ ~Holding(1 - lane) /\ ~stopped
      /\ started /\ 1 - lane \in Lanes
  BY DEF IInv, OneBaton, Holding, StopInv, Phases, Loop, Lanes
<1>2. /\ unit[0] \in Nat /\ unit[1] \in Nat
      /\ Done(lane) = unit[lane]
      /\ Done(1 - lane) = unit[1 - lane] + (IF pc[1 - lane] \in Sending THEN 1 ELSE 0)
  BY <1>1 DEF TypeOK, Lanes, Done, Sending
<1>3. /\ lane = 0 => Done(0) = Done(1)
      /\ lane = 1 => Done(0) = Done(1) + 1
  BY <1>1 DEF IInv, Turns
<1>4. Turn = 2 * unit[lane] + lane
  BY <1>1, <1>2, <1>3 DEF Turn
<1>5. ~Switching
  BY <1>1 DEF Switching, Holding
<1>6. bank_select = Mine(lane)
  BY <1>1, <1>2, <1>4, <1>5, MineSpot DEF IInv, WriterInv, Lanes
<1>7. ~busy[After(Mine(lane))]
  <2> SUFFICES ASSUME busy[After(Mine(lane))] PROVE FALSE
    OBVIOUS
  <2>1. After(Mine(lane)) \in Banks /\ After(Mine(lane)) % 2 = 1 - lane
    BY <1>1, <1>2, MineSpot
  <2>2. /\ Mine(1 - lane) = After(Mine(lane))
        /\ pc[1 - lane] \in {"switch", "locate"} \cup Sending
    BY <1>1, <2>1 DEF IInv, BusyInv
  <2>3. pc[1 - lane] \in Sending
    BY <1>1, <2>2 DEF Holding
  <2>4. 2 * unit[1 - lane] + (1 - lane) + 1 = 2 * unit[lane] + lane
    BY <1>1, <1>2, <1>3, <2>3
  <2>5. /\ Mine(1 - lane) = Spot(2 * unit[1 - lane] + (1 - lane))
        /\ Mine(lane) = Spot(2 * unit[lane] + lane)
    BY <1>1, <1>2, MineSpot
  <2> DEFINE n == 2 * unit[1 - lane] + (1 - lane)
  <2>6. n \in Nat /\ n + 1 \in Nat /\ n + 1 = 2 * unit[lane] + lane
    BY <1>1, <1>2, <2>4
  <2>7. Mine(1 - lane) = Spot(n) /\ Mine(lane) = Spot(n + 1)
    BY <2>5, <2>6
  <2> HIDE DEF n
  <2>8. After(Spot(n + 1)) = Spot(n + 2) /\ Spot(n) # Spot(n + 2)
    <3>1. n + 1 + 1 = n + 2
      BY <2>6
    <3> QED
      BY <2>6, <3>1, SpotNext
  <2> QED
    BY <2>2, <2>7, <2>8
<1> QED
  BY <1>6, <1>7

LEMMA MoveType == ASSUME TypeOK, NEW lane \in Lanes, NEW to \in Points, Go(lane, to)
                  PROVE  pc' \in [Lanes -> Points]
BY Update DEF TypeOK, Go

LEMMA RunType == ASSUME TypeOK, StartRun \/ Join \/ StartWriter \/ EnterLoop \/ LeaveLoop \/ FinishRun
                 PROVE  TypeOK'
<1> USE DEF Lanes
<1> DEFINE sets == /\ unit' \in [Lanes -> Nat] /\ status' \in Codes /\ fail_lane' \in Lanes
                   /\ bank_select' \in Banks \cup {NoBank} /\ pos' \in Nat
           flags == /\ core1_request' \in BOOLEAN /\ seen' \in BOOLEAN /\ core1_ready' \in BOOLEAN
                    /\ started' \in BOOLEAN /\ core1_done' \in BOOLEAN
                    /\ stopped' \in BOOLEAN /\ stop_requested' \in BOOLEAN
                    /\ stopped_by_host' \in BOOLEAN /\ running' \in BOOLEAN
           banks == /\ busy' \in [Banks -> BOOLEAN] /\ valid' \in [Banks -> BOOLEAN]
                    /\ last' \in [Lanes -> BOOLEAN]
<1>1. pc' \in [Lanes -> Points]
  BY MoveType DEF StartRun, Join, StartWriter, EnterLoop, LeaveLoop, FinishRun, Points
<1>2. sets
  BY DEF TypeOK, StartRun, Join, StartWriter, EnterLoop, LeaveLoop, FinishRun, joining, ending,
         writer, Banks, Codes
<1>3. flags
  BY DEF TypeOK, StartRun, Join, StartWriter, EnterLoop, LeaveLoop, FinishRun, joining, ending,
         writer
<1>4. banks
  BY DEF TypeOK, StartRun, ClearHandoff, Join, StartWriter, EnterLoop, LeaveLoop, FinishRun, handoff,
         locals
<1> QED
  BY <1>1, <1>2, <1>3, <1>4 DEF TypeOK

(* The types of the flags that no step of a running core changes.          *)
LEMMA LaneType ==
    ASSUME TypeOK, pc' \in [Lanes -> Points], unit' \in [Lanes -> Nat],
           busy' \in [Banks -> BOOLEAN], valid' \in [Banks -> BOOLEAN],
           last' \in [Lanes -> BOOLEAN],
           stopped' \in BOOLEAN, stop_requested' \in BOOLEAN, stopped_by_host' \in BOOLEAN,
           running' \in BOOLEAN, bank_select' \in Banks \cup {NoBank},
           UNCHANGED <<joining, status, fail_lane, pos>>
    PROVE  TypeOK'
<1>1. /\ core1_request' \in BOOLEAN /\ seen' \in BOOLEAN /\ core1_ready' \in BOOLEAN
      /\ started' \in BOOLEAN /\ core1_done' \in BOOLEAN
  BY DEF TypeOK, joining
<1>2. status' \in Codes /\ fail_lane' \in Lanes /\ pos' \in Nat
  BY DEF TypeOK
<1> QED
  BY <1>1, <1>2 DEF TypeOK

LEMMA LeaveInv == ASSUME IInv, NEW lane \in Lanes, LeaveStopped(lane) PROVE IInv'
<1>1. /\ TypeOK /\ lane \in {0, 1} /\ "over" \in Points /\ pc[lane] = "wait" /\ stopped
      /\ pc' = [pc EXCEPT ![lane] = "over"]
      /\ UNCHANGED <<unit, core1_request, seen, core1_ready, started, core1_done, stopped,
                     stop_requested, stopped_by_host, status, fail_lane, busy, valid, last,
                     running, bank_select, pos, cuts>>
  BY DEF IInv, Lanes, Points, LeaveStopped, Go, joining, ending, handoff, locals, writer, ghosts
<1>2. /\ Done(0)' = Done(0) /\ Done(1)' = Done(1) /\ Turn' = Turn
      /\ pc'[lane] = "over" /\ pc'[1 - lane] = pc[1 - lane]
      /\ lane = 0 => pc'[0] = "over" /\ pc'[1] = pc[1]
      /\ lane = 1 => pc'[1] = "over" /\ pc'[0] = pc[0]
  BY <1>1, Moved DEF Sending
<1>3. TypeOK'
  <2>1. pc' \in [Lanes -> Points]
    BY <1>1, Update DEF TypeOK
  <2> QED
    BY <1>1, <2>1, LaneType DEF TypeOK, joining
<1>4. Phases'
  BY <1>1, <1>2 DEF IInv, Phases, Loop
<1>5. OneBaton'
  BY <1>1, <1>2 DEF IInv, OneBaton, Holding
<1>6. Turns'
  BY <1>1, <1>2 DEF IInv, Turns, Holding
<1>7. Switching' = Switching /\ Switching' \in BOOLEAN
  BY <1>1, <1>2 DEF Switching
<1>8. WriterInv' /\ CutsInv' /\ BusyInv'
  BY <1>1, <1>2, <1>7 DEF IInv, WriterInv, CutsInv, Cuts, BusyInv
<1>9. StopInv'
  BY <1>1, <1>2 DEF IInv, StopInv, Holding, Lanes
<1> QED
  BY <1>1, <1>3, <1>4, <1>5, <1>6, <1>8, <1>9 DEF IInv, OwnershipUnbroken

LEMMA TakeInv == ASSUME IInv, NEW lane \in Lanes, TakeBank(lane) PROVE IInv'
<1>1. /\ TypeOK /\ lane \in {0, 1} /\ "prepare" \in Points /\ pc[lane] = "wait" /\ ~stopped
      /\ pc' = [pc EXCEPT ![lane] = "prepare"]
      /\ valid[Mine(lane)] /\ valid' = [valid EXCEPT ![Mine(lane)] = FALSE]
      /\ UNCHANGED <<unit, core1_request, seen, core1_ready, started, core1_done, stopped,
                     stop_requested, stopped_by_host, status, fail_lane, busy, last,
                     running, bank_select, pos, cuts>>
  BY DEF IInv, Lanes, Points, TakeBank, Go, joining, ending, locals, writer, ghosts
<1>2. /\ Done(0)' = Done(0) /\ Done(1)' = Done(1) /\ Turn' = Turn
      /\ pc'[lane] = "prepare" /\ pc'[1 - lane] = pc[1 - lane]
      /\ lane = 0 => pc'[0] = "prepare" /\ pc'[1] = pc[1]
      /\ lane = 1 => pc'[1] = "prepare" /\ pc'[0] = pc[0]
  BY <1>1, Moved DEF Sending
<1>3. Mine(lane) \in Banks /\ Mine(lane) = Spot(2 * unit[lane] + lane) /\ unit[lane] \in Nat
  BY <1>1, MineSpot DEF TypeOK
<1>4. valid' \in [Banks -> BOOLEAN] /\ \A b \in Banks : ~valid'[b]
  <2>1. valid \in [Banks -> BOOLEAN]
    BY <1>1 DEF TypeOK
  <2>2. \A b \in Banks : b # Mine(lane) => ~valid[b]
    BY <1>1, <1>3 DEF IInv, OneBaton
  <2> QED
    BY <1>1, <1>3, <2>1, <2>2, Update, Zenon
<1>5. ~Holding(0) /\ ~Holding(1)
  BY <1>1, <1>3 DEF IInv, OneBaton
<1>6. TypeOK'
  <2>1. pc' \in [Lanes -> Points]
    BY <1>1, Update DEF TypeOK
  <2> QED
    BY <1>1, <1>4, <2>1, LaneType DEF TypeOK, joining
<1>7. Phases'
  BY <1>1, <1>2 DEF IInv, Phases, Loop
<1>8. OneBaton'
  BY <1>1, <1>2, <1>4, <1>5 DEF OneBaton, Holding
<1>9. /\ lane = 0 => Done(0) = Done(1)
      /\ lane = 1 => Done(0) = Done(1) + 1
  <2>1. Mine(lane) = Spot(Turn) /\ (Done(0) = Done(1) \/ Done(0) = Done(1) + 1)
    BY <1>1, <1>3 DEF IInv, Turns
  <2>2. Done(lane) = unit[lane] /\ Done(0) \in Nat /\ Done(1) \in Nat
    BY <1>1, Counts DEF Done, Sending
  <2>3. ASSUME lane = 0, Done(0) = Done(1) + 1 PROVE FALSE
    <3>1. Turn = 2 * unit[lane] + lane - 1 /\ Turn \in Nat
      BY <2>2, <2>3, Counts, <1>1 DEF Turn
    <3>2. Spot(Turn + 1) = Spot(Turn)
      BY <1>1, <1>3, <2>1, <2>3, <3>1
    <3> QED
      BY <3>1, <3>2, SpotNext
  <2>4. ASSUME lane = 1, Done(0) = Done(1) PROVE FALSE
    <3>1. 2 * unit[lane] + lane = Turn + 1 /\ Turn \in Nat
      BY <2>2, <2>4, Counts, <1>1 DEF Turn
    <3> QED
      BY <1>3, <2>1, <3>1, SpotNext
  <2> QED
    BY <1>1, <2>1, <2>3, <2>4
<1>10. Turns'
  BY <1>1, <1>2, <1>4, <1>5, <1>9 DEF IInv, Turns, Holding
<1>11. Switching' = Switching /\ Switching' \in BOOLEAN
  BY <1>1, <1>2 DEF Switching
<1>12. WriterInv' /\ CutsInv'
  BY <1>1, <1>2, <1>11 DEF IInv, WriterInv, CutsInv, Cuts
<1>13. StopInv'
  BY <1>1, <1>2, <1>4 DEF IInv, StopInv, Holding, Lanes
<1>14. BusyInv'
  BY <1>1, <1>2 DEF IInv, BusyInv, Mine, Lanes, Sending
<1> QED
  BY <1>1, <1>6, <1>7, <1>8, <1>10, <1>12, <1>13, <1>14 DEF IInv, OwnershipUnbroken

LEMMA PrepareInv ==
    ASSUME IInv, NEW lane \in Lanes, NEW byte \in BOOLEAN, Prepare(lane, byte)
    PROVE  IInv'
<1>1. TypeOK /\ pc[lane] = "prepare" /\ "check" \in Points
  BY DEF Prepare, IInv, Points
<1>2. bank_select = Mine(lane) /\ ~busy[After(Mine(lane))]
  BY <1>1, PrepareOwns
<1>3. /\ pc' = [pc EXCEPT ![lane] = "check"]
      /\ stop_requested' = (stop_requested \/ (lane = 0 /\ byte))
      /\ UNCHANGED <<unit, joining, stopped, stopped_by_host, status, fail_lane, busy, valid, last,
                     running, bank_select, pos, cuts>>
  BY <1>2 DEF Prepare, Go, handoff, locals, writer, ghosts
<1>4. stop_requested' \in BOOLEAN
  BY <1>3
<1>5. TypeOK'
  <2>1. pc' \in [Lanes -> Points]
    BY <1>1, <1>3, Update DEF TypeOK
  <2> QED
    BY <1>1, <1>3, <1>4, <2>1, LaneType DEF TypeOK
<1> QED
  BY <1>1, <1>3, <1>5, PassInv

LEMMA CheckInv == ASSUME IInv, NEW lane \in Lanes, CheckPrepared(lane) PROVE IInv'
<1>1. TypeOK /\ pc[lane] = "check" /\ "poll" \in Points /\ Holding(lane)
  BY DEF CheckPrepared, IInv, Points, Holding
<1>2. CASE Fail(lane, "LATE_PREPARE") /\ UNCHANGED stopped_by_host
  <2>1. stopped_by_host' \in BOOLEAN
    BY <1>1, <1>2 DEF TypeOK
  <2> QED
    BY <1>1, <1>2, <2>1, FailInv DEF Codes
<1>3. CASE /\ Go(lane, "poll")
           /\ UNCHANGED <<unit, joining, ending, handoff, edges, locals, writer, bank, ghosts>>
  <2>1. /\ pc' = [pc EXCEPT ![lane] = "poll"]
        /\ UNCHANGED <<unit, joining, stopped, stop_requested, stopped_by_host, status, fail_lane,
                       busy, valid, last, running, bank_select, pos, cuts>>
    BY <1>3 DEF Go, ending, handoff, locals, writer, ghosts
  <2>2. pc' \in [Lanes -> Points]
    BY <1>1, <2>1, Update DEF TypeOK
  <2>3. TypeOK'
    BY <1>1, <2>1, <2>2, LaneType DEF TypeOK
  <2> QED
    BY <1>1, <2>1, <2>3, PassInv
<1> QED
  BY <1>2, <1>3 DEF CheckPrepared

LEMMA PollInv == ASSUME IInv, NEW lane \in Lanes, Poll(lane) PROVE IInv'
<1>1. TypeOK /\ pc[lane] = "poll" /\ "measure" \in Points /\ Holding(lane) /\ ~stopped
  BY DEF Poll, IInv, StopInv, Points, Holding
<1>2. CASE Fail(lane, "LATE_POLL") /\ UNCHANGED stopped_by_host
  <2>1. stopped_by_host' \in BOOLEAN
    BY <1>1, <1>2 DEF TypeOK
  <2> QED
    BY <1>1, <1>2, <2>1, FailInv DEF Codes
<1>3. CASE /\ Go(lane, "measure")
           /\ UNCHANGED <<unit, joining, ending, handoff, edges, switched, last, extent, writer,
                          bank, ghosts>>
  <2>1. /\ pc' = [pc EXCEPT ![lane] = "measure"]
        /\ UNCHANGED <<unit, joining, stopped, stop_requested, stopped_by_host, status, fail_lane,
                       busy, valid, last, running, bank_select, pos, cuts>>
    BY <1>3 DEF Go, ending, handoff, writer, ghosts
  <2>2. pc' \in [Lanes -> Points]
    BY <1>1, <2>1, Update DEF TypeOK
  <2>3. TypeOK'
    BY <1>1, <2>1, <2>2, LaneType DEF TypeOK
  <2> QED
    BY <1>1, <2>1, <2>3, PassInv
<1> QED
  BY <1>1, <1>2, <1>3 DEF Poll

LEMMA SendInv ==
    ASSUME IInv, NEW lane \in Lanes, PrepareDescriptor(lane) \/ Transmit(lane)
    PROVE  IInv'
<1>1. PICK to \in Sending :
         /\ TypeOK /\ pc[lane] \in Sending /\ to \in Points
         /\ pc' = [pc EXCEPT ![lane] = to]
         /\ UNCHANGED <<unit, joining, stopped, stop_requested, stopped_by_host, status, fail_lane,
                        busy, valid, last, running, bank_select, pos, cuts>>
  BY DEF PrepareDescriptor, Transmit, IInv, Sending, Points, Go, ending, handoff, locals, writer,
         ghosts
<1>2. pc' \in [Lanes -> Points]
  BY <1>1, Update DEF TypeOK
<1>3. TypeOK'
  BY <1>1, <1>2, LaneType DEF TypeOK
<1> QED
  BY <1>1, <1>3, PassInv

LEMMA MeasureInv == ASSUME IInv, NEW lane \in Lanes, Measure(lane) PROVE IInv'
<1>1. /\ TypeOK /\ lane \in {0, 1} /\ pc[lane] = "measure" /\ Holding(lane) /\ ~stopped
      /\ "switch" \in Points /\ unit[lane] \in Nat
      /\ stopped_by_host' = (stopped_by_host \/ (Ends(lane) /\ ~Expired))
  BY DEF Measure, IInv, StopInv, Holding, Lanes, Points, TypeOK
<1>2. stopped_by_host' \in BOOLEAN
  BY <1>1
<1>3. CASE Fail(lane, "LATE_SWITCH")
  BY <1>1, <1>2, <1>3, FailInv DEF Codes
<1>4. CASE ~Fail(lane, "LATE_SWITCH")
  <2>1. /\ pc' = [pc EXCEPT ![lane] = "switch"]
        /\ busy' = [busy EXCEPT ![Mine(lane)] = TRUE]
        /\ last' = [last EXCEPT ![lane] = Ends(lane)]
        /\ UNCHANGED <<unit, joining, core1_request, seen, core1_ready, started, core1_done, stopped,
                       stop_requested, status, fail_lane, valid, running, bank_select, pos, cuts>>
    BY <1>4 DEF Measure, Go, joining, writer, ghosts
  <2>2. Ends(lane) \in BOOLEAN /\ (Ends(lane) => lane = 1)
    BY DEF Ends
  <2>3. Mine(lane) \in Banks /\ Mine(lane) % 2 = lane
    BY <1>1, MineSpot
  <2>4. TypeOK'
    <3>1. pc' \in [Lanes -> Points]
      BY <1>1, <2>1, Update DEF TypeOK
    <3>2. busy' \in [Banks -> BOOLEAN] /\ last' \in [Lanes -> BOOLEAN]
      BY <1>1, <2>1, <2>2, <2>3, Update DEF TypeOK
    <3> QED
      BY <1>1, <1>2, <2>1, <3>1, <3>2, LaneType DEF TypeOK
  <2>5. /\ Done(0)' = Done(0) /\ Done(1)' = Done(1) /\ Turn' = Turn
        /\ pc'[lane] = "switch" /\ pc'[1 - lane] = pc[1 - lane]
        /\ lane = 0 => pc'[0] = "switch" /\ pc'[1] = pc[1]
        /\ lane = 1 => pc'[1] = "switch" /\ pc'[0] = pc[0]
    BY <1>1, <2>1, Moved DEF Sending
  <2>6. Phases'
    BY <1>1, <2>1, <2>5 DEF IInv, Phases, Loop
  <2>7. OneBaton'
    BY <1>1, <2>1, <2>5 DEF IInv, OneBaton, Holding
  <2>8. Turns'
    BY <1>1, <2>1, <2>5 DEF IInv, Turns, Holding
  <2>9. Switching' = Switching /\ Switching' \in BOOLEAN
    BY <1>1, <2>5 DEF Switching
  <2>10. WriterInv' /\ CutsInv'
    BY <2>1, <2>5, <2>9 DEF IInv, WriterInv, CutsInv, Cuts
  <2>11. \A l \in Lanes : last'[l] => l = 1
    <3>1. last \in [Lanes -> BOOLEAN] /\ \A l \in Lanes : last[l] => l = 1
      BY <1>1 DEF TypeOK, IInv, StopInv
    <3> QED
      BY <2>1, <2>2, <3>1, Update, Zenon
  <2>12. last'[1 - lane] = last[1 - lane]
    <3>1. last \in [Lanes -> BOOLEAN] /\ 1 - lane \in Lanes /\ 1 - lane # lane
      BY <1>1 DEF TypeOK, Lanes
    <3> QED
      BY <2>1, <2>2, <3>1, Update, Zenon
  <2>13. StopInv'
    BY <1>1, <2>1, <2>5, <2>11, <2>12 DEF IInv, StopInv, Holding, Lanes
  <2>14. \A b \in Banks : b # Mine(lane) => busy'[b] = busy[b]
    BY <1>1, <2>1, <2>3, Update, Zenon DEF TypeOK
  <2>15. BusyInv'
    <3>1. \A l \in Lanes : Mine(l)' = Mine(l)
      BY <2>1 DEF Mine
    <3> QED
      BY <1>1, <2>1, <2>3, <2>5, <2>14, <3>1 DEF IInv, BusyInv, Lanes, Sending
  <2> QED
    BY <2>1, <2>4, <2>6, <2>7, <2>8, <2>10, <2>13, <2>15 DEF IInv, OwnershipUnbroken
<1> QED
  BY <1>3, <1>4

(* A core that holds the baton is the one whose turn it is.                *)
LEMMA HolderTurn ==
    ASSUME IInv, NEW lane \in Lanes, Holding(lane)
    PROVE  /\ Turn = 2 * unit[lane] + lane /\ Turn \in Nat /\ unit[lane] \in Nat
           /\ Mine(lane) = Spot(Turn) /\ Mine(lane) \in Banks
           /\ Spot(Turn + 1) = After(Mine(lane)) /\ After(Mine(lane)) \in Banks
           /\ ~Holding(1 - lane) /\ (\A b \in Banks : ~valid[b])
<1>1. /\ TypeOK /\ lane \in {0, 1} /\ ~Holding(1 - lane) /\ (\A b \in Banks : ~valid[b])
  BY DEF IInv, OneBaton, Lanes
<1>2. /\ unit[lane] \in Nat /\ Done(0) \in Nat /\ Done(1) \in Nat /\ Turn \in Nat
  BY <1>1, Counts
<1>3. /\ lane = 0 => Done(0) = Done(1)
      /\ lane = 1 => Done(0) = Done(1) + 1
      /\ Done(lane) = unit[lane]
  BY <1>1, <1>2 DEF IInv, Turns, Done, Holding, Sending
<1>4. Turn = 2 * unit[lane] + lane
  BY <1>1, <1>2, <1>3 DEF Turn
<1>5. /\ Mine(lane) = Spot(Turn) /\ Mine(lane) \in Banks /\ After(Mine(lane)) \in Banks
  BY <1>2, <1>4, MineSpot
<1> QED
  BY <1>1, <1>2, <1>4, <1>5, SpotNext

LEMMA SwitchInv == ASSUME IInv, NEW lane \in Lanes, Switch(lane) PROVE IInv'
<1>1. /\ TypeOK /\ lane \in {0, 1} /\ pc[lane] = "switch" /\ Holding(lane) /\ ~stopped
      /\ "locate" \in Points /\ cuts \in Seq(Nat) /\ pos \in Nat
  BY DEF Switch, IInv, StopInv, Holding, Lanes, Points, TypeOK
<1>2. /\ pc' = [pc EXCEPT ![lane] = "locate"]
      /\ cuts' = Append(cuts, pos)
      /\ last[lane] => running' = FALSE /\ bank_select' = NoBank /\ stopped' = TRUE
      /\ ~last[lane] => /\ bank_select' = After(Mine(lane))
                        /\ running' = running /\ stopped' = stopped
      /\ UNCHANGED <<unit, joining, core1_request, seen, core1_ready, started, core1_done,
                     stop_requested, stopped_by_host, status, fail_lane, busy, valid, last, pos>>
  BY DEF Switch, MoveWriter, EndWriting, Go, joining, handoff, locals
<1>3. /\ Turn \in Nat /\ After(Mine(lane)) = Spot(Turn + 1) /\ After(Mine(lane)) \in Banks
      /\ ~Holding(1 - lane) /\ (\A b \in Banks : ~valid[b])
  BY <1>1, HolderTurn
<1>4. /\ Done(0)' = Done(0) /\ Done(1)' = Done(1) /\ Turn' = Turn
      /\ pc'[lane] = "locate" /\ pc'[1 - lane] = pc[1 - lane]
      /\ lane = 0 => pc'[0] = "locate" /\ pc'[1] = pc[1]
      /\ lane = 1 => pc'[1] = "locate" /\ pc'[0] = pc[0]
  BY <1>1, <1>2, Moved DEF Sending
<1>5. ~Switching /\ Switching'
  BY <1>1, <1>3, <1>4 DEF Switching, Holding
<1>6. stopped' \in BOOLEAN /\ running' \in BOOLEAN /\ (stopped' <=> last[lane])
  <2>1. CASE last[lane]
    BY <1>2, <2>1
  <2>2. CASE ~last[lane]
    BY <1>1, <1>2, <2>2 DEF TypeOK
  <2> QED
    BY <2>1, <2>2
<1>7. TypeOK' /\ cuts' \in Seq(Nat) /\ Len(cuts') = Len(cuts) + 1
  <2>1. pc' \in [Lanes -> Points]
    BY <1>1, <1>2, Update DEF TypeOK
  <2>2. bank_select' \in Banks \cup {NoBank}
    BY <1>2, <1>3
  <2>3. TypeOK'
    BY <1>1, <1>2, <1>6, <2>1, <2>2, LaneType DEF TypeOK
  <2> QED
    BY <1>1, <1>2, <2>3
<1>8. Phases'
  <2>1. pc[0] # "joining"
    BY <1>1 DEF IInv, Phases, Loop
  <2> QED
    BY <1>1, <1>2, <1>4, <2>1 DEF IInv, Phases, Loop
<1>9. OneBaton'
  BY <1>1, <1>2, <1>3, <1>4 DEF IInv, OneBaton, Holding
<1>10. Turns'
  BY <1>1, <1>2, <1>4 DEF IInv, Turns, Holding
<1>11. WriterInv'
  <2>1. CASE last[lane]
    BY <1>2, <2>1 DEF WriterInv
  <2>2. CASE ~last[lane]
    <3>1. bank_select' = Spot(Turn' + 1)
      BY <1>2, <1>3, <1>4, <2>2
    <3>2. started => running
      BY <1>1 DEF IInv, WriterInv
    <3>3. started' = started /\ running' = running /\ stopped' = stopped
      BY <1>2, <2>2
    <3>4. started' => running' /\ ~stopped'
      BY <1>1, <3>2, <3>3
    <3> QED
      BY <1>5, <3>1, <3>4 DEF WriterInv
  <2> QED
    BY <2>1, <2>2
<1>12. StopInv'
  <2>1. /\ \A b \in Banks : ~valid'[b]
        /\ \A l \in Lanes : last'[l] => l = 1
    BY <1>2, <1>3 DEF IInv, StopInv
  <2>2. stopped' => lane = 1
    BY <1>1, <1>6 DEF IInv, StopInv
  <2>3. pc[1 - lane] # "over"
    BY <1>1 DEF IInv, StopInv, Lanes
  <2> QED
    BY <1>1, <1>2, <1>3, <1>4, <1>6, <2>1, <2>2, <2>3 DEF StopInv, Holding, Lanes
<1>13. BusyInv'
  BY <1>1, <1>2, <1>4 DEF IInv, BusyInv, Mine, Lanes
<1>14. CutsInv'
  BY <1>2, <1>3, <1>4, <1>5, <1>7 DEF IInv, CutsInv, Cuts
<1> QED
  BY <1>2, <1>7, <1>8, <1>9, <1>10, <1>11, <1>12, <1>13, <1>14 DEF IInv, OwnershipUnbroken

LEMMA LocateInv == ASSUME IInv, NEW lane \in Lanes, Locate(lane) PROVE IInv'
<1>1. /\ TypeOK /\ lane \in {0, 1} /\ pc[lane] = "locate" /\ Holding(lane)
      /\ "group" \in Points /\ "group" \in Sending /\ Switching
      /\ UNCHANGED stopped_by_host
  BY DEF Locate, IInv, Holding, Lanes, Points, Sending, Switching
<1>2. CASE \E code \in {"END", "START", "LENGTH"} : Fail(lane, code)
  <2>1. stopped_by_host' \in BOOLEAN
    BY <1>1 DEF TypeOK
  <2> QED
    BY <1>1, <1>2, <2>1, FailInv DEF Codes
<1>3. CASE ~ \E code \in {"END", "START", "LENGTH"} : Fail(lane, code)
  <2>1. /\ pc' = [pc EXCEPT ![lane] = "group"]
        /\ last[lane] => valid' = valid
        /\ ~last[lane] => valid' = [valid EXCEPT ![After(Mine(lane))] = TRUE]
        /\ UNCHANGED <<unit, joining, core1_request, seen, core1_ready, started, core1_done,
                       stopped, stop_requested, stopped_by_host, status, fail_lane, busy, last,
                       running, bank_select, pos, cuts>>
    BY <1>1, <1>3, Zenon DEF Locate, Go, joining, writer, ghosts
  <2>2. /\ Turn \in Nat /\ unit[lane] \in Nat /\ Turn = 2 * unit[lane] + lane
        /\ After(Mine(lane)) = Spot(Turn + 1) /\ After(Mine(lane)) \in Banks
        /\ ~Holding(1 - lane) /\ (\A b \in Banks : ~valid[b])
    BY <1>1, HolderTurn
  <2>3. /\ pc'[lane] = "group" /\ pc'[1 - lane] = pc[1 - lane]
        /\ lane = 0 => pc'[0] = "group" /\ pc'[1] = pc[1]
        /\ lane = 1 => pc'[1] = "group" /\ pc'[0] = pc[0]
        /\ Done(1 - lane)' = Done(1 - lane) /\ 1 - lane \in Lanes
    BY <1>1, <2>1, Moved
  <2>4. Done(lane) = unit[lane] /\ Done(lane)' = unit[lane] + 1
    BY <1>1, <2>1, <2>2, <2>3 DEF Done, Sending
  <2>5. /\ Done(0) \in Nat /\ Done(1) \in Nat
        /\ lane = 0 => Done(0)' = Done(0) + 1 /\ Done(1)' = Done(1) /\ Done(0) = Done(1)
        /\ lane = 1 => Done(1)' = Done(1) + 1 /\ Done(0)' = Done(0) /\ Done(0) = Done(1) + 1
    BY <1>1, <2>3, <2>4, Counts DEF IInv, Turns
  <2>6. Turn' = Turn + 1
    BY <1>1, <2>5 DEF Turn
  <2>7. ~Switching'
    BY <1>1, <2>2, <2>3 DEF Switching, Holding
  <2>8. /\ valid' \in [Banks -> BOOLEAN]
        /\ \A b \in Banks : valid'[b] => ~last[lane] /\ b = Spot(Turn + 1)
    <3>1. valid \in [Banks -> BOOLEAN]
      BY <1>1 DEF TypeOK
    <3>2. CASE last[lane]
      BY <2>1, <2>2, <3>1, <3>2
    <3>3. CASE ~last[lane]
      <4>1. valid' = [valid EXCEPT ![After(Mine(lane))] = TRUE]
        BY <2>1, <3>3
      <4>2. valid' \in [Banks -> BOOLEAN] /\ \A b \in Banks : b # After(Mine(lane)) => ~valid'[b]
        BY <2>2, <3>1, <4>1, Update, Zenon
      <4> QED
        BY <2>2, <3>3, <4>2, Zenon
    <3> QED
      BY <3>2, <3>3
  <2>9. TypeOK'
    <3>1. pc' \in [Lanes -> Points]
      BY <1>1, <2>1, Update DEF TypeOK
    <3> QED
      BY <1>1, <2>1, <2>8, <3>1, LaneType DEF TypeOK
  <2>10. Phases'
    <3>1. pc[0] # "joining"
      BY <1>1 DEF IInv, Phases, Loop, Sending
    <3> QED
      BY <1>1, <2>1, <2>3, <3>1 DEF IInv, Phases, Loop, Sending
  <2>11. ~Holding(0)' /\ ~Holding(1)'
    BY <1>1, <2>2, <2>3 DEF Holding
  <2>12. OneBaton'
    BY <2>8, <2>11 DEF OneBaton
  <2>13. Turns'
    BY <1>1, <2>5, <2>6, <2>8, <2>11 DEF Turns
  <2>14. WriterInv'
    BY <1>1, <2>1, <2>6, <2>7 DEF IInv, WriterInv
  <2>15. stopped <=> last[lane]
    BY <1>1 DEF IInv, StopInv
  <2>16. StopInv'
    <3>1. stopped /\ status = "OK" => Done(0)' = Done(1)'
      BY <1>1, <2>5, <2>15 DEF IInv, StopInv
    <3>2. /\ \A b \in Banks : valid'[b] => ~stopped'
      BY <2>1, <2>8, <2>15
    <3> QED
      BY <1>1, <2>1, <2>2, <2>3, <2>11, <3>1, <3>2 DEF IInv, StopInv, Holding, Lanes
  <2>17. BusyInv'
    BY <1>1, <2>1, <2>3 DEF IInv, BusyInv, Mine, Lanes, Sending
  <2>18. CutsInv'
    <3>1. status = "OK" => Len(cuts) = Turn + 2
      BY <1>1 DEF IInv, CutsInv, Cuts
    <3>2. Cuts' = Turn + 2
      BY <2>2, <2>6, <2>7 DEF Cuts
    <3> QED
      BY <2>1, <3>1, <3>2 DEF CutsInv
  <2> QED
    BY <2>1, <2>9, <2>10, <2>12, <2>13, <2>14, <2>16, <2>17, <2>18 DEF IInv, OwnershipUnbroken
<1> QED
  BY <1>2, <1>3

LEMMA ReleaseInv == ASSUME IInv, NEW lane \in Lanes, Release(lane) PROVE IInv'
<1>1. /\ TypeOK /\ lane \in {0, 1} /\ pc[lane] = "release" /\ "wait" \in Points
      /\ unit[lane] \in Nat /\ unit \in [Lanes -> Nat] /\ pc \in [Lanes -> Points]
      /\ pc' = [pc EXCEPT ![lane] = "wait"]
      /\ unit' = [unit EXCEPT ![lane] = unit[lane] + 1]
      /\ busy' = [busy EXCEPT ![Mine(lane)] = FALSE]
      /\ last' = [last EXCEPT ![lane] = FALSE]
      /\ UNCHANGED <<joining, core1_request, seen, core1_ready, started, core1_done, stopped,
                     stop_requested, stopped_by_host, status, fail_lane, valid, running,
                     bank_select, pos, cuts>>
  BY DEF Release, IInv, TypeOK, Lanes, Points, Go, ForgetLocals, joining, ending, writer, ghosts
<1>2. Mine(lane) \in Banks /\ Mine(lane) % 2 = lane
  BY <1>1, MineSpot
<1>3. /\ pc'[lane] = "wait" /\ pc'[1 - lane] = pc[1 - lane] /\ 1 - lane \in Lanes
      /\ lane = 0 => pc'[0] = "wait" /\ pc'[1] = pc[1]
      /\ lane = 1 => pc'[1] = "wait" /\ pc'[0] = pc[0]
      /\ unit'[lane] = unit[lane] + 1 /\ unit'[1 - lane] = unit[1 - lane]
  BY <1>1 DEF Lanes
<1>4. /\ Done(lane)' = Done(lane) /\ Done(1 - lane)' = Done(1 - lane)
      /\ Done(0)' = Done(0) /\ Done(1)' = Done(1)
  BY <1>1, <1>3 DEF Done, Sending
<1>5. Turn' = Turn
  BY <1>4 DEF Turn
<1>6. Switching' = Switching /\ Switching' \in BOOLEAN
  BY <1>1, <1>3 DEF Switching
<1>7. /\ last' \in [Lanes -> BOOLEAN] /\ last'[1 - lane] = last[1 - lane] /\ ~last'[lane]
  <2>1. last \in [Lanes -> BOOLEAN] /\ 1 - lane \in Lanes /\ 1 - lane # lane
    BY <1>1 DEF TypeOK, Lanes
  <2> QED
    BY <1>1, <2>1, Update, Zenon
<1>8. /\ busy' \in [Banks -> BOOLEAN] /\ ~busy'[Mine(lane)]
      /\ \A b \in Banks : b # Mine(lane) => busy'[b] = busy[b]
  <2>1. busy \in [Banks -> BOOLEAN]
    BY <1>1 DEF TypeOK
  <2> QED
    BY <1>1, <1>2, <2>1, Update, Zenon
<1>9. TypeOK'
  <2>1. pc' \in [Lanes -> Points] /\ unit' \in [Lanes -> Nat]
    BY <1>1, Update
  <2> QED
    BY <1>1, <1>7, <1>8, <2>1, LaneType DEF TypeOK
<1>10. Phases'
  <2>1. pc[0] # "joining"
    BY <1>1 DEF IInv, Phases, Loop, Sending
  <2> QED
    BY <1>1, <1>3, <2>1 DEF IInv, Phases, Loop, Sending
<1>11. OneBaton'
  BY <1>1, <1>3 DEF IInv, OneBaton, Holding
<1>12. Turns'
  BY <1>1, <1>3, <1>4, <1>5 DEF IInv, Turns, Holding
<1>13. WriterInv' /\ CutsInv'
  BY <1>1, <1>5, <1>6 DEF IInv, WriterInv, CutsInv, Cuts
<1>14. StopInv'
  BY <1>1, <1>3, <1>4, <1>7 DEF IInv, StopInv, Holding, Lanes
<1>15. BusyInv'
  <2> SUFFICES ASSUME ~stopped, NEW l \in Lanes, NEW b \in Banks, busy'[b], b % 2 = l
               PROVE  Mine(l)' = b /\ pc'[l] \in {"switch", "locate"} \cup Sending
    BY <1>1 DEF BusyInv
  <2>1. b # Mine(lane) /\ busy[b]
    BY <1>8
  <2>2. Mine(l) = b /\ pc[l] \in {"switch", "locate"} \cup Sending
    BY <2>1 DEF IInv, BusyInv
  <2>3. l = 1 - lane
    BY <1>1, <2>1, <2>2 DEF Lanes
  <2> QED
    BY <1>3, <2>2, <2>3 DEF Mine
<1> QED
  BY <1>1, <1>9, <1>10, <1>11, <1>12, <1>13, <1>14, <1>15 DEF IInv, OwnershipUnbroken

LEMMA RunInv ==
    ASSUME IInv, StartRun \/ Join \/ StartWriter \/ EnterLoop \/ LeaveLoop \/ FinishRun
    PROVE  IInv'
<1> USE DEF Lanes
<1>1. TypeOK /\ TypeOK' /\ pc \in [Lanes -> Points]
  BY RunType DEF IInv, TypeOK
<1>2. CASE StartRun
  <2>1. /\ pc[0] = "idle" /\ pc[1] = "idle" /\ seen = core1_request
        /\ pc'[0] = "joining" /\ pc'[1] = "idle" /\ unit'[0] = 0 /\ unit'[1] = 0
        /\ ~started' /\ ~core1_done' /\ ~stopped' /\ ~core1_ready' /\ status' = "OK"
        /\ valid' = [b \in Banks |-> b = 0] /\ busy' = [b \in Banks |-> FALSE]
        /\ cuts' = <<0>> /\ last' = last
    BY <1>1, <1>2 DEF StartRun, ClearHandoff, Go, locals, IInv, Phases
  <2>2. Done(0)' = 0 /\ Done(1)' = 0
    BY <2>1 DEF Done, Sending
  <2>3. Turn' = 0 /\ ~Switching' /\ Cuts' = 1
    BY <2>1, <2>2 DEF Turn, Switching, Cuts
  <2>4. Phases'
    BY <2>1 DEF Phases, Loop, Sending
  <2>5. OneBaton'
    BY <2>1 DEF OneBaton, Holding, Banks
  <2>6. Turns'
    BY <2>1, <2>2, <2>3, SpotZero DEF Turns, Holding
  <2>7. WriterInv' /\ BusyInv'
    BY <2>1 DEF WriterInv, BusyInv
  <2>8. StopInv'
    BY <2>1 DEF IInv, StopInv, Holding
  <2>9. CutsInv' /\ OwnershipUnbroken' /\ cuts' \in Seq(Nat)
    <3>1. Len(cuts') = 1 /\ cuts' \in Seq(Nat)
      BY <2>1
    <3> QED
      BY <2>1, <2>3, <3>1 DEF CutsInv, OwnershipUnbroken
  <2> QED
    BY <1>1, <2>4, <2>5, <2>6, <2>7, <2>8, <2>9 DEF IInv
<1>3. CASE Join \/ StartWriter \/ EnterLoop \/ LeaveLoop \/ FinishRun
  <2>1. /\ UNCHANGED <<unit, stopped, status, busy, valid, last, cuts, core1_request>>
        /\ Join => /\ pc[1] = "idle" /\ core1_request # seen
                   /\ pc'[0] = pc[0] /\ pc'[1] = "joining"
                   /\ seen' = core1_request
                   /\ UNCHANGED <<started, core1_done, running, bank_select>>
        /\ StartWriter => /\ pc[0] = "joining" /\ core1_ready
                          /\ pc'[0] = "wait" /\ pc'[1] = pc[1]
                          /\ started' = TRUE /\ running' = TRUE /\ bank_select' = 0
                          /\ UNCHANGED <<seen, core1_done, core1_ready>>
        /\ EnterLoop => /\ pc[1] = "joining" /\ started
                        /\ pc'[0] = pc[0] /\ pc'[1] = "wait"
                        /\ UNCHANGED <<seen, core1_ready, started, core1_done, running, bank_select>>
        /\ LeaveLoop => /\ pc[1] = "over"
                        /\ pc'[0] = pc[0] /\ pc'[1] = "idle"
                        /\ core1_done' = TRUE
                        /\ UNCHANGED <<seen, core1_ready, started, running, bank_select>>
        /\ FinishRun => /\ pc[0] = "over" /\ core1_done
                        /\ pc'[0] = "idle" /\ pc'[1] = pc[1]
                        /\ running' = FALSE
                        /\ UNCHANGED <<seen, core1_ready, started, core1_done>>
    BY <1>1, <1>3 DEF Join, StartWriter, EnterLoop, LeaveLoop, FinishRun, Go, joining, ending,
                      handoff, locals, writer, ghosts
  <2>2. Done(0)' = Done(0) /\ Done(1)' = Done(1) /\ Done(0) \in Nat /\ Done(1) \in Nat
    BY <1>1, <1>3, <2>1, Counts DEF Done, Sending
  <2>3. Turn' = Turn
    BY <2>2 DEF Turn
  <2>4. Switching' = Switching /\ Switching' \in BOOLEAN
    BY <1>3, <2>1 DEF Switching
  <2>5. Phases'
    <3>1. CASE Join
      BY <2>1, <3>1 DEF IInv, Phases, Loop, Sending
    <3>2. CASE StartWriter
      BY <2>1, <3>2 DEF IInv, Phases, Loop, Sending
    <3>3. CASE EnterLoop
      BY <2>1, <3>3 DEF IInv, Phases, Loop, Sending
    <3>4. CASE LeaveLoop
      BY <2>1, <3>4 DEF IInv, Phases, Loop, Sending
    <3>5. CASE FinishRun
      <4>1. stopped
        BY <2>1, <3>5 DEF IInv, StopInv
      <4> QED
        BY <2>1, <3>5, <4>1 DEF IInv, Phases, Loop, Sending
    <3> QED
      BY <1>3, <3>1, <3>2, <3>3, <3>4, <3>5
  <2>6. /\ Holding(0)' => Holding(0)
        /\ Holding(1)' => Holding(1)
    BY <1>3, <2>1 DEF Holding
  <2>7. OneBaton'
    BY <2>1, <2>6 DEF IInv, OneBaton
  <2>8. Turns'
    BY <2>1, <2>2, <2>3, <2>6 DEF IInv, Turns
  <2>9. ASSUME StartWriter PROVE WriterInv'
    <3>1. Turn = 0 /\ ~Switching /\ ~stopped
      BY <2>1, <2>9 DEF IInv, Phases, Turn, Done, Switching, Sending
    <3>2. ~stopped' /\ running' /\ bank_select' = 0 /\ Turn' = 0 /\ ~Switching'
      BY <2>1, <2>3, <2>4, <2>9, <3>1
    <3> QED
      BY <3>2, SpotZero DEF WriterInv
  <2>10. WriterInv'
    <3>1. CASE Join \/ EnterLoop \/ LeaveLoop
      <4>1. UNCHANGED <<started, stopped, running, bank_select>>
        BY <2>1, <3>1
      <4> QED
        BY <2>3, <2>4, <4>1 DEF IInv, WriterInv
    <3>2. CASE FinishRun
      <4>1. stopped
        BY <2>1, <3>2 DEF IInv, StopInv
      <4> QED
        BY <2>1, <3>2, <4>1 DEF WriterInv
    <3> QED
      BY <1>3, <2>9, <3>1, <3>2
  <2>11. StopInv'
    BY <1>3, <2>1, <2>2 DEF IInv, StopInv, Holding
  <2>12. BusyInv'
    BY <1>3, <2>1 DEF IInv, BusyInv, Mine, Sending
  <2>13. CutsInv'
    BY <2>1, <2>3, <2>4 DEF IInv, CutsInv, Cuts
  <2> QED
    BY <1>1, <2>1, <2>5, <2>7, <2>8, <2>10, <2>11, <2>12, <2>13 DEF IInv, OwnershipUnbroken
<1> QED
  BY <1>2, <1>3

LEMMA NextInv == IInv /\ [Next]_vars => IInv'
<1> SUFFICES ASSUME IInv, [Next]_vars PROVE IInv'
  OBVIOUS
<1>1. CASE StartRun \/ StartWriter \/ FinishRun \/ Join \/ EnterLoop \/ LeaveLoop
  BY <1>1, RunInv
<1>2. ASSUME NEW lane \in Lanes, Lane(lane) PROVE IInv'
  BY <1>2, LeaveInv, TakeInv, PrepareInv, CheckInv, PollInv, MeasureInv, SwitchInv, LocateInv,
     SendInv, ReleaseInv DEF Lane
<1>3. CASE Writer \/ UNCHANGED vars
  <2>1. /\ UNCHANGED <<control, joining, ending, busy, valid, last, cuts, running, bank_select>>
        /\ pos' \in Nat
    BY <1>3 DEF Writer, WritePair, LandPair, vars, handoff, locals, writer, ghosts, IInv, TypeOK
  <2>2. TypeOK'
    BY <2>1 DEF IInv, TypeOK, control, joining, ending
  <2> QED
    BY <2>1, <2>2, StillInv
<1> QED
  BY <1>1, <1>2, <1>3 DEF Next, Core0, Core1, Lanes

-----------------------------------------------------------------------------
(* The invariant the rest follows from: the number of published units says *)
(* whose turn it is and where the writer is.                               *)
THEOREM Invariance == Spec => []IInv
BY InitInv, NextInv, PTL DEF Spec

(* capture.c:72-84: every control variable keeps its type.                 *)
THEOREM TypeCorrect == Spec => []TypeOK
BY Invariance, PTL DEF IInv

(* capture.c:18: "no locking: the stagger alone keeps the cores apart", at *)
(* any speed of the cores and of the writer.                               *)
THEOREM Baton == Spec => []OneBaton
BY Invariance, PTL DEF IInv

(* capture.c:343: the writer is never moved into a bank that is in use.    *)
THEOREM WriterStaysOwned == Spec => []WriterOwned
<1>1. IInv => WriterOwned
  <2> SUFFICES ASSUME IInv, started, running
               PROVE  /\ \A b \in Banks : valid[b] => bank_select = b
                      /\ \A lane \in Lanes :
                            /\ pc[lane] \in {"prepare", "check", "poll", "measure", "switch"}
                                  => bank_select = Mine(lane)
                            /\ pc[lane] \in {"locate"} \cup Sending => bank_select # Mine(lane)
    BY DEF WriterOwned, Sending
  <2>1. /\ TypeOK /\ ~stopped /\ Turn \in Nat
        /\ bank_select = Spot(IF Switching THEN Turn + 1 ELSE Turn)
    BY Counts DEF IInv, WriterInv
  <2>2. ASSUME NEW b \in Banks, valid[b] PROVE bank_select = b
    <3>1. ~Switching /\ b = Spot(Turn)
      BY <2>2 DEF IInv, OneBaton, Turns, Switching, Holding
    <3> QED
      BY <2>1, <3>1
  <2>3. ASSUME NEW lane \in Lanes, Holding(lane)
        PROVE  bank_select = Mine(lane) <=> pc[lane] # "locate"
    <3>1. /\ Turn \in Nat /\ Mine(lane) = Spot(Turn) /\ ~Holding(1 - lane) /\ lane \in {0, 1}
      BY <2>3, HolderTurn DEF Lanes
    <3>2. Switching <=> pc[lane] = "locate"
      BY <3>1 DEF Switching, Holding
    <3> QED
      BY <2>1, <3>1, <3>2, SpotNext
  <2>4. ASSUME NEW lane \in Lanes, pc[lane] \in Sending PROVE bank_select # Mine(lane)
    <3>1. /\ lane \in {0, 1} /\ unit[lane] \in Nat /\ Done(lane) = unit[lane] + 1
          /\ Mine(lane) = Spot(2 * unit[lane] + lane)
          /\ Done(0) \in Nat /\ Done(1) \in Nat
      BY <2>1, <2>4, Counts, MineSpot DEF Lanes, Done
    <3>2. /\ Done(0) = Done(1) \/ Done(0) = Done(1) + 1
          /\ pc[0] = "locate" => Done(0) = Done(1)
          /\ pc[1] = "locate" => Done(0) = Done(1) + 1
          /\ lane = 0 => pc[0] # "locate"
          /\ lane = 1 => pc[1] # "locate"
      BY <2>4 DEF IInv, Turns, Holding, Sending
    <3>3. PICK n \in Nat : n = 2 * unit[lane] + lane
      BY <3>1
    <3>4. CASE Switching
      <4>1. Turn + 1 = n + 2
        <5>1. lane = 0 => Turn + 1 = n + 2
          BY <3>1, <3>2, <3>3, <3>4 DEF Turn, Switching
        <5>2. lane = 1 => Turn + 1 = n + 2
          BY <3>1, <3>2, <3>3, <3>4 DEF Turn, Switching
        <5> QED
          BY <3>1, <5>1, <5>2
      <4> QED
        BY <2>1, <3>1, <3>3, <3>4, <4>1, SpotNext
    <3>5. CASE ~Switching
      <4>1. Turn = n + 1 \/ Turn = n + 2
        BY <3>1, <3>2, <3>3 DEF Turn
      <4> QED
        BY <2>1, <3>1, <3>3, <3>5, <4>1, SpotNext
    <3> QED
      BY <3>4, <3>5
  <2> QED
    BY <2>2, <2>3, <2>4 DEF Holding, Sending
<1> QED
  BY <1>1, Invariance, PTL

(* capture.c:275-285: a run never ends with ESP_FAIL_OWNER or              *)
(* ESP_FAIL_REUSE, whatever the timing.                                    *)
THEOREM OwnershipChecksPass == Spec => []OwnershipUnbroken
BY Invariance, PTL DEF IInv

(* capture.c:319: "both lanes always carry the same number of units".      *)
THEOREM LanesStayEven == Spec => []LanesEven
<1>1. IInv => LanesEven
  <2> SUFFICES ASSUME IInv, pc[0] = "idle", core1_done, status = "OK"
               PROVE  unit[0] = unit[1] /\ Len(cuts) = 1 + unit[0] + unit[1]
    BY DEF LanesEven
  <2>1. /\ TypeOK /\ stopped /\ pc[1] = "idle"
        /\ Done(0) = Done(1) /\ ~Switching
    BY DEF IInv, Phases, StopInv, Switching
  <2>2. Done(0) = unit[0] /\ Done(1) = unit[1] /\ unit[0] \in Nat /\ unit[1] \in Nat
    BY <2>1 DEF Done, Sending, TypeOK, Lanes
  <2>3. Len(cuts) = Turn + 1
    BY <2>1 DEF IInv, CutsInv, Cuts
  <2> QED
    BY <2>1, <2>2, <2>3 DEF Turn
<1> QED
  BY <1>1, Invariance, PTL

-----------------------------------------------------------------------------
(* What is in the banks.                                                   *)

(* The unit the writer is in, or entered last.                             *)
Active == Len(cuts) - 1
Begin(n) == cuts[n + 1]
Guard(n) == IF n = 0 THEN Ring - Threshold ELSE EndGuard

(* A bank m after the pairs from .. to - 1 were stored in it, with guard   *)
(* cells from the probe on that held sentinels before.                     *)
Holds(m, from, to) ==
    \A x \in from .. to - 1 : /\ m[Masked(x)] # Sentinel
                              /\ to <= x + Ring => m[Masked(x)] = x
Marked(m, probe, guard, from, to) ==
    \A k \in 0 .. guard - 1 : m[Masked(probe + k)] # Sentinel =>
        \E x \in from .. to - 1 : Masked(x) = Masked(probe + k)
Kept(m, probe, guard, from, to) == Holds(m, from, to) /\ Marked(m, probe, guard, from, to)

(* One pair may not have landed yet.                                       *)
Landed(n, to) == IF pipeline # NoPair /\ pipeline.bank = Spot(n) THEN to - 1 ELSE to

DataTypes ==
    /\ bank \in [Banks -> [Cells -> Int]]
    /\ start \in [Banks -> Int] /\ end_probe \in [Banks -> Int]
    /\ write_index \in [Lanes -> Int]
    /\ extent \in [Lanes -> [first : Int, count : Int]]
    /\ line = [lane \in Lanes |-> line[lane]]
    /\ \A lane \in Lanes : line[lane] # NoUnit => line[lane].sequence \in Nat

Running ==
    /\ running => started /\ ~stopped
    /\ pc[0] \in {"idle", "joining"} => ~running
    /\ status # "OK" => stopped
    /\ \A lane \in Lanes : Holding(lane) => status = "OK"
    /\ Len(cuts) >= 1 /\ cuts[Len(cuts)] <= pos

(* The pair in the pipeline is the last one taken.  Right after a switch   *)
(* it may belong to the bank left.                                         *)
Piped == pipeline # NoPair =>
    /\ pipeline \in [bank : Banks, pair : Nat] /\ pipeline.pair = pos - 1
    /\ \/ pipeline.bank = Spot(Active) /\ Begin(Active) < pos
       \/ /\ Switching /\ Active >= 1 /\ pipeline.bank = Spot(Active - 1)
          /\ Begin(Active) = pos /\ Begin(Active - 1) < pos
SettledInv ==
    \A lane \in Lanes : pc[lane] \in Sending /\ pipeline # NoPair => pipeline.bank # Mine(lane)

(* The unit being stored, the one being located, and the next bank.        *)
Filling == ~stopped =>
    /\ Kept(bank[Spot(Active)], end_probe[Spot(Active)], Guard(Active), Begin(Active),
            Landed(Active, pos))
    /\ ~Switching => start[Spot(Active)] = Masked(Begin(Active))
Polled ==
    \A lane \in Lanes : pc[lane] \in {"measure", "switch"} =>
        \E w \in Begin(Active) .. pos : write_index[lane] = Masked(w)
Prepared ==
    \A lane \in Lanes : pc[lane] \in {"check", "poll", "measure", "switch"} =>
        LET next == Spot(Active + 1)
        IN  \A k \in 0 .. EndGuard - 1 : bank[next][Masked(end_probe[next] + k)] = Sentinel
Leaving ==
    \A lane \in Lanes : pc[lane] = "locate" =>
        /\ Active >= 1
        /\ Kept(bank[Spot(Active - 1)], end_probe[Spot(Active - 1)], Guard(Active - 1),
                Begin(Active - 1), Landed(Active - 1, Begin(Active)))
        /\ start[Spot(Active - 1)] = Masked(Begin(Active - 1))
        /\ \E w \in Begin(Active - 1) .. Begin(Active) : write_index[lane] = Masked(w)

(* The unit being sent.                                                    *)
Size(n) == Begin(n + 1) - Begin(n)
Pairs(n) == [k \in 1 .. Size(n) |-> Begin(n) + k - 1]
Located(lane) ==
    LET n == Sequence(lane)
    IN  /\ pc[lane] \in Sending => n + 2 <= Len(cuts)
        /\ pc[lane] = "group" =>
              /\ extent[lane] = [first |-> Masked(Begin(n)), count |-> Size(n)]
              /\ Size(n) \in 0 .. MaxPairs
              /\ \A x \in Begin(n) .. Begin(n + 1) - 1 : bank[Mine(lane)][Masked(x)] = x
        /\ pc[lane] = "transmit" =>
              Read(bank[Mine(lane)], extent[lane].first, extent[lane].count) = Pairs(n)

DataInv ==
    /\ DataTypes /\ Running /\ Piped /\ SettledInv
    /\ Filling /\ Polled /\ Prepared /\ Leaving
    /\ \A lane \in Lanes : Located(lane)
    /\ SentExactly

LEMMA Least ==
    ASSUME NEW T \in SUBSET Nat, T # {}
    PROVE  \E i \in T : \A j \in T : i <= j
<1> DEFINE Less == {p \in Nat \X Nat : p[1] < p[2]}
<1>1. IsWellFoundedOn(Less, Nat)
  BY NatLessThanWellFounded DEF OpToRel
<1>2. PICK i \in T : \A j \in T : ~(<<j, i>> \in Less)
  BY <1>1, WFMin
<1>3. \A j \in T : <<j, i>> \in Nat \X Nat
  OBVIOUS
<1>4. \A j \in T : ~(j < i)
  BY <1>2, <1>3
<1> QED
  BY <1>4

Ranges(from, to) == (from .. to) \X (from .. to)
Seeks(low, f, lo, hi) ==
    LET mid == (lo + hi) \div 2
    IN  IF lo >= hi THEN lo
        ELSE IF mid \in low THEN f[<<mid + 1, hi>>] ELSE f[<<lo, mid>>]
Seeker(low, f, from, to) == f = [p \in Ranges(from, to) |-> Seeks(low, f, p[1], p[2])]

(* The search finds the boundary e of a set of offsets that has one.       *)
LEMMA SearchFinds ==
    ASSUME NEW low, NEW from \in Int, NEW to \in Int, NEW e \in from .. to,
           \A k \in from .. to : k \in low <=> k < e
    PROVE  Search(low, from, to) = e
<1> DEFINE Between(lo, hi) == IF lo >= hi THEN lo ELSE IF e < lo THEN lo ELSE IF e > hi THEN hi ELSE e
           g == [p \in Ranges(from, to) |-> Between(p[1], p[2])]
           Seek == CHOOSE f : Seeker(low, f, from, to)
<1>1. Search(low, from, to) = Seek[<<from, to>>]
  BY DEF Search, Seeks, Seeker, Ranges
<1>2. ASSUME NEW lo \in from .. to, NEW hi \in from .. to, lo < hi
      PROVE  /\ (lo + hi) \div 2 \in lo .. hi - 1
             /\ (lo + hi) \div 2 \in from .. to /\ (lo + hi) \div 2 + 1 \in from .. to
             /\ Between(lo, hi) = IF (lo + hi) \div 2 \in low THEN Between((lo + hi) \div 2 + 1, hi)
                                     ELSE Between(lo, (lo + hi) \div 2)
  BY <1>2
<1>3. ASSUME NEW lo \in from .. to, NEW hi \in from .. to
      PROVE  /\ <<lo, hi>> \in Ranges(from, to) /\ <<lo, hi>>[1] = lo /\ <<lo, hi>>[2] = hi
             /\ g[<<lo, hi>>] = Between(lo, hi)
  <2>1. <<lo, hi>> \in Ranges(from, to) /\ <<lo, hi>>[1] = lo /\ <<lo, hi>>[2] = hi
    BY DEF Ranges
  <2> HIDE DEF Between
  <2> QED
    BY <2>1
<1>4. ASSUME NEW lo \in from .. to, NEW hi \in from .. to
      PROVE  Seeks(low, g, lo, hi) = Between(lo, hi)
  BY <1>2, <1>3 DEF Seeks
<1>5. Seeker(low, g, from, to)
  <2>1. ASSUME NEW p \in Ranges(from, to)
        PROVE  Seeks(low, g, p[1], p[2]) = Between(p[1], p[2])
    <3>1. p[1] \in from .. to /\ p[2] \in from .. to
      BY DEF Ranges
    <3> HIDE DEF g, Between
    <3> QED
      BY <1>4, <3>1
  <2> HIDE DEF Between
  <2>2. [p \in Ranges(from, to) |-> Seeks(low, g, p[1], p[2])] = g
    BY <2>1, Zenon
  <2> QED
    BY <2>2, Zenon DEF Seeker
<1>6. Seeker(low, Seek, from, to)
  BY <1>5, Zenon
<1> HIDE DEF Seek, g
<1>7. ASSUME NEW lo \in from .. to, NEW hi \in from .. to
      PROVE  Seek[<<lo, hi>>] = Seeks(low, Seek, lo, hi)
  <2>1. \A p \in Ranges(from, to) : Seek[p] = Seeks(low, Seek, p[1], p[2])
    BY <1>6, Zenon DEF Seeker
  <2>2. Seek[<<lo, hi>>] = Seeks(low, Seek, <<lo, hi>>[1], <<lo, hi>>[2])
    BY <1>3, <2>1, Zenon
  <2> QED
    BY <1>3, <2>2
<1>8. ASSUME NEW lo \in from .. to, NEW hi \in from .. to, lo >= hi
      PROVE  Seek[<<lo, hi>>] = Between(lo, hi)
  BY <1>7, <1>8 DEF Seeks
<1> DEFINE Wrong == {d \in Nat : \E lo, hi \in from .. to :
                                    lo < hi /\ d = hi - lo /\ Seek[<<lo, hi>>] # Between(lo, hi)}
<1>9. ASSUME Wrong # {} PROVE FALSE
  <2>1. Wrong \in SUBSET Nat
    OBVIOUS
  <2> HIDE DEF Wrong
  <2>2. PICK d \in Wrong : \A c \in Wrong : d <= c
    BY <1>9, <2>1, Least
  <2> USE DEF Wrong
  <2>3. PICK lo \in from .. to, hi \in from .. to :
           lo < hi /\ d = hi - lo /\ Seek[<<lo, hi>>] # Between(lo, hi)
    BY <2>2
  <2>4. ASSUME NEW l \in from .. to, NEW h \in from .. to, h - l < d
        PROVE  Seek[<<l, h>>] = Between(l, h)
    <3>1. CASE l >= h
      BY <1>8, <3>1
    <3>2. CASE l < h
      <4>1. h - l \in Nat /\ d \in Int
        BY <2>3, <3>2
      <4> DEFINE c == h - l
      <4>2. ~(d <= c)
        BY <2>4, <4>1
      <4> HIDE DEF c, Wrong
      <4>3. c \notin Wrong
        BY <2>2, <4>2, Zenon
      <4> USE DEF c, Wrong
      <4> QED
        BY <3>2, <4>1, <4>3
    <3> QED
      BY <3>1, <3>2
  <2>5. Seek[<<lo, hi>>] = Seeks(low, Seek, lo, hi)
    BY <1>7
  <2> DEFINE mid == (lo + hi) \div 2
  <2>6. /\ mid \in lo .. hi - 1 /\ mid \in from .. to /\ mid + 1 \in from .. to
        /\ Between(lo, hi) = IF mid \in low THEN Between(mid + 1, hi) ELSE Between(lo, mid)
    BY <1>2, <2>3
  <2>7. Seek[<<lo, hi>>] = IF mid \in low THEN Seek[<<mid + 1, hi>>] ELSE Seek[<<lo, mid>>]
    BY <2>3, <2>5 DEF Seeks
  <2>8. Seek[<<mid + 1, hi>>] = Between(mid + 1, hi) /\ Seek[<<lo, mid>>] = Between(lo, mid)
    <3>1. hi - (mid + 1) < d /\ mid - lo < d
      BY <2>3, <2>6
    <3> HIDE DEF mid
    <3> QED
      BY <2>4, <2>6, <3>1
  <2> HIDE DEF mid, Between
  <2> QED
    BY <2>3, <2>6, <2>7, <2>8
<1>10. Seek[<<from, to>>] = Between(from, to)
  <2>1. from \in from .. to /\ to \in from .. to /\ (from < to => to - from \in Nat)
    OBVIOUS
  <2>2. CASE from < to
    BY <1>9, <2>1, <2>2
  <2>3. CASE from >= to
    BY <1>8, <2>1, <2>3
  <2> QED
    BY <2>2, <2>3
<1>11. Between(from, to) = e
  OBVIOUS
<1> QED
  BY <1>1, <1>10, <1>11

-----------------------------------------------------------------------------
(* Indices into the ring.                                                  *)
LEMMA ModIs ==
    ASSUME NEW N \in Nat \ {0}, NEW x \in Int, NEW q \in Int, NEW r \in 0 .. N - 1,
           x = r + q * N
    PROVE  x % N = r
OBVIOUS

LEMMA ModTurns ==
    ASSUME NEW N \in Nat \ {0}, NEW x \in Int
    PROVE  x % N \in 0 .. N - 1 /\ \E q \in Int : x = (x % N) + q * N
<1>1. x % N \in 0 .. N - 1
  OBVIOUS
<1>2. x = (x % N) + (x \div N) * N /\ x \div N \in Int
  OBVIOUS
<1> DEFINE q == x \div N
<1>3. q \in Int /\ x = (x % N) + q * N
  BY <1>2
<1> HIDE DEF q
<1> QED
  BY <1>1, <1>3, Zenon

LEMMA MaskIs == ASSUME NEW x \in Int, NEW q \in Int, NEW r \in Cells, x = r + q * Ring
                PROVE  Masked(x) = r
BY ModIs, RingAssumption DEF RingAssumption, Masked, Cells

LEMMA MaskTurns == ASSUME NEW x \in Int
                   PROVE  Masked(x) \in Cells /\ \E q \in Int : x = Masked(x) + q * Ring
BY ModTurns, RingAssumption DEF RingAssumption, Masked, Cells

LEMMA MaskType == ASSUME NEW x \in Int PROVE Masked(x) \in Cells /\ Masked(x) \in Int
<1>1. Masked(x) \in Cells
  BY MaskTurns
<1> QED
  BY <1>1, RingAssumption DEF RingAssumption, Cells

LEMMA MaskSmall == ASSUME NEW x \in Cells PROVE Masked(x) = x
BY RingAssumption DEF RingAssumption, Masked, Cells

(* Fewer pairs than a ring lie in different cells.                         *)
LEMMA MaskApart == ASSUME NEW x \in Int, NEW y \in Int, x < y, y < x + Ring
                   PROVE  Masked(x) # Masked(y)
<1> USE RingAssumption DEF RingAssumption, Cells
<1> SUFFICES ASSUME Masked(x) = Masked(y) PROVE FALSE
  OBVIOUS
<1>1. PICK q \in Int : x = Masked(x) + q * Ring
  BY MaskTurns
<1>2. PICK p \in Int : y = Masked(y) + p * Ring
  BY MaskTurns
<1>3. PICK m \in Int : m = Masked(x) /\ m = Masked(y)
  BY MaskTurns
<1>4. PICK d \in Int : d = p - q
  OBVIOUS
<1>5. y - x = d * Ring
  BY <1>1, <1>2, <1>3, <1>4
<1>6. d >= 1 => d * Ring >= Ring
  OBVIOUS
<1>7. d <= 0 => d * Ring <= 0
  OBVIOUS
<1> QED
  BY <1>5, <1>6, <1>7

LEMMA MaskShift == ASSUME NEW x \in Int, NEW y \in Int, NEW c \in Int, Masked(x) = Masked(y)
                   PROVE  Masked(x + c) = Masked(y + c)
<1> USE RingAssumption DEF RingAssumption, Cells
<1>1. PICK q \in Int : x = Masked(x) + q * Ring
  BY MaskTurns
<1>2. PICK p \in Int : y = Masked(y) + p * Ring
  BY MaskTurns
<1>3. PICK r \in Int : x + c = Masked(x + c) + r * Ring
  <2> DEFINE z == x + c
  <2>1. z \in Int
    OBVIOUS
  <2> HIDE DEF z
  <2>2. \E r \in Int : z = Masked(z) + r * Ring
    BY <2>1, MaskTurns
  <2> QED
    BY <2>2 DEF z
<1>4. PICK m \in Int : m = Masked(x) /\ m = Masked(y)
  BY MaskTurns
<1>5. PICK s \in Cells : s = Masked(x + c)
  <2>1. x + c \in Int
    OBVIOUS
  <2> QED
    BY <2>1, MaskTurns
<1>6. y + c = s + (r + p - q) * Ring
  BY <1>1, <1>2, <1>3, <1>4, <1>5
<1>7. PICK t \in Int : t = r + p - q
  OBVIOUS
<1>8. y + c = s + t * Ring
  BY <1>6, <1>7
<1>9. y + c \in Int
  OBVIOUS
<1>10. Masked(y + c) = s
  BY ONLY <1>5, <1>7, <1>8, <1>9, MaskIs
<1> QED
  BY <1>5, <1>10

LEMMA MaskTwice == ASSUME NEW x \in Int, NEW c \in Int
                   PROVE  Masked(Masked(x)) = Masked(x) /\ Masked(Masked(x) + c) = Masked(x + c)
<1>1. Masked(x) \in Cells /\ Masked(x) \in Int
  BY MaskTurns DEF Cells
<1>2. Masked(Masked(x)) = Masked(x)
  BY <1>1, MaskSmall
<1> QED
  BY <1>1, <1>2, MaskShift

LEMMA MaskBack == ASSUME NEW x \in Int PROVE Masked(x - Ring) = Masked(x)
<1> USE RingAssumption DEF RingAssumption, Cells
<1>1. PICK q \in Int : x = Masked(x) + q * Ring
  BY MaskTurns
<1>2. PICK r \in Cells : r = Masked(x)
  BY MaskTurns
<1>3. PICK p \in Int : p = q - 1
  OBVIOUS
<1>4. x - Ring = r + p * Ring /\ x - Ring \in Int
  BY <1>1, <1>2, <1>3
<1>5. Masked(x - Ring) = r
  BY ONLY <1>2, <1>3, <1>4, MaskIs
<1> QED
  BY <1>2, <1>5

(* Two indices tell the length of a unit shorter than the ring.            *)
LEMMA MaskCount == ASSUME NEW x \in Int, NEW y \in Int, x <= y, y < x + Ring
                   PROVE  Masked(Masked(y) - Masked(x)) = y - x
<1> USE RingAssumption DEF RingAssumption, Cells
<1>1. PICK q \in Int : x = Masked(x) + q * Ring
  BY MaskTurns
<1>2. PICK p \in Int : y = Masked(y) + p * Ring
  BY MaskTurns
<1>3. PICK r \in Int : r = Masked(x)
  BY MaskTurns
<1>4. PICK s \in Int : s = Masked(y)
  BY MaskTurns
<1>5. PICK t \in Int : t = q - p
  OBVIOUS
<1>6. PICK c \in Cells : c = y - x
  OBVIOUS
<1>7. PICK z \in Int : z = s - r
  OBVIOUS
<1>8. PICK a \in Int : a = q * Ring
  OBVIOUS
<1>9. PICK b \in Int : b = p * Ring
  OBVIOUS
<1>10. t * Ring = a - b
  BY <1>5, <1>8, <1>9
<1>11. x = r + a /\ y = s + b
  BY <1>1, <1>2, <1>3, <1>4, <1>8, <1>9
<1>12. z = c + (a - b)
  BY ONLY <1>3, <1>4, <1>6, <1>7, <1>8, <1>9, <1>11, x \in Int, y \in Int
<1>13. z = c + t * Ring
  BY <1>10, <1>12
<1>14. Masked(z) = c
  BY ONLY <1>5, <1>6, <1>7, <1>13, MaskIs
<1> QED
  BY <1>3, <1>4, <1>6, <1>7, <1>14

-----------------------------------------------------------------------------
(* What a bank holds.                                                      *)
LEMMA Lands ==
    ASSUME NEW m \in [Cells -> Int], NEW from \in Nat, NEW x \in Nat, from <= x,
           Holds(m, from, x)
    PROVE  Holds([m EXCEPT ![Masked(x)] = x], from, x + 1)
<1> DEFINE n == [m EXCEPT ![Masked(x)] = x]
<1> SUFFICES ASSUME NEW y \in from .. x
             PROVE  n[Masked(y)] # Sentinel /\ (x + 1 <= y + Ring => n[Masked(y)] = y)
  BY DEF Holds
<1>1. Masked(x) \in Cells /\ Masked(y) \in Cells
  BY MaskTurns
<1>2. n[Masked(x)] = x /\ \A c \in Cells : c # Masked(x) => n[c] = m[c]
  BY <1>1
<1> HIDE DEF n
<1>3. CASE y = x
  BY <1>2, <1>3 DEF Sentinel
<1>4. CASE y < x
  <2>1. m[Masked(y)] # Sentinel /\ (x <= y + Ring => m[Masked(y)] = y)
    BY <1>4 DEF Holds
  <2>2. x + 1 <= y + Ring => Masked(y) # Masked(x)
    BY <1>4, MaskApart, RingAssumption DEF RingAssumption
  <2>3. x # Sentinel
    BY DEF Sentinel
  <2>4. x + 1 <= y + Ring => x <= y + Ring
    BY RingAssumption DEF RingAssumption
  <2> QED
    BY <1>1, <1>2, <2>1, <2>2, <2>3, <2>4
<1> QED
  BY <1>3, <1>4

LEMMA LandsMarked ==
    ASSUME NEW m \in [Cells -> Int], NEW from \in Nat, NEW x \in Nat, from <= x,
           NEW probe \in Int, NEW guard \in Int, Marked(m, probe, guard, from, x)
    PROVE  Marked([m EXCEPT ![Masked(x)] = x], probe, guard, from, x + 1)
<1> DEFINE n == [m EXCEPT ![Masked(x)] = x]
<1> SUFFICES ASSUME NEW k \in 0 .. guard - 1, n[Masked(probe + k)] # Sentinel
             PROVE  \E y \in from .. x : Masked(y) = Masked(probe + k)
  BY DEF Marked
<1>1. Masked(x) \in Cells /\ Masked(probe + k) \in Cells
  BY MaskTurns
<1>2. n[Masked(x)] = x /\ \A c \in Cells : c # Masked(x) => n[c] = m[c]
  BY <1>1
<1>3. Masked(probe + k) = Masked(x) \/ m[Masked(probe + k)] # Sentinel
  BY <1>1, <1>2
<1> HIDE DEF n
<1>4. CASE m[Masked(probe + k)] # Sentinel
  BY <1>4 DEF Marked
<1> QED
  BY <1>3, <1>4

LEMMA FindsEnd ==
    ASSUME NEW m \in [Cells -> Int], NEW from \in Nat, NEW to \in Nat, NEW w \in from .. to,
           NEW probe \in Int, NEW guard \in Int, guard <= Ring,
           Holds(m, from, to), Marked(m, probe, guard, from, to),
           FindEnd(m, probe, Masked(w), guard) # NotFound
    PROVE  FindEnd(m, probe, Masked(w), guard) = Masked(to) /\ to < from + Ring
<1> DEFINE o == Masked(Masked(w) - probe)
           written == {k \in 0 .. guard - 1 : m[Masked(probe + k)] # Sentinel}
<1>1. /\ o < guard /\ guard - 1 \notin written
      /\ FindEnd(m, probe, Masked(w), guard) = Masked(probe + Search(written, o, guard - 1))
  <2>1. FindEnd(m, probe, Masked(w), guard) =
            IF o >= guard \/ guard - 1 \in written THEN NotFound
            ELSE Masked(probe + Search(written, o, guard - 1))
    BY Zenon DEF FindEnd
  <2>2. Masked(w) - probe \in Int
    <3>1. w \in Int
      OBVIOUS
    <3> QED
      BY <3>1, MaskType
  <2>3. o \in Int
    BY <2>2, MaskTurns DEF Cells
  <2> HIDE DEF o, written
  <2>4. ~(o >= guard) /\ guard - 1 \notin written
    BY <2>1, Zenon
  <2> QED
    BY <2>1, <2>3, <2>4
<1>2. o \in Nat /\ w \in Int /\ Masked(w) \in Int /\ Ring \in Nat \ {0}
  <2>1. w \in Int
    OBVIOUS
  <2>2. Masked(w) \in Int /\ Masked(w) - probe \in Int
    BY <2>1, MaskType
  <2>3. o \in Cells
    BY <2>2, MaskTurns
  <2>4. Ring \in Nat \ {0}
    BY RingAssumption DEF RingAssumption
  <2> QED
    BY <2>1, <2>2, <2>3, <2>4 DEF Cells
<1>3. Masked(probe + o) = Masked(w)
  <2> DEFINE z == Masked(w) - probe
  <2>1. z \in Int /\ z + probe = Masked(w)
    BY <1>2
  <2> HIDE DEF z
  <2>2. Masked(Masked(z) + probe) = Masked(z + probe)
    BY <2>1, MaskTwice
  <2>3. Masked(z) + probe = probe + Masked(z)
    BY <2>1, MaskTurns DEF Cells
  <2>4. Masked(probe + Masked(z)) = Masked(w)
    BY <1>2, <2>1, <2>2, <2>3, MaskTwice
  <2> QED
    BY <2>4 DEF z
<1> HIDE DEF o, written
<1>4. ASSUME NEW k \in Int PROVE Masked(probe + k) = Masked(w + (k - o))
  <2> DEFINE p == probe + o
             c == k - o
  <2>1. p \in Int /\ c \in Int /\ p + c = probe + k
    BY <1>2
  <2> HIDE DEF p, c
  <2>2. Masked(p) = Masked(w)
    BY <1>3 DEF p
  <2>3. Masked(p + c) = Masked(w + c)
    BY ONLY <1>2, <2>1, <2>2, MaskShift
  <2> QED
    BY <2>1, <2>3 DEF c
<1>5. ASSUME NEW k \in 0 .. guard - 1, NEW x \in from .. to - 1, x = w + (k - o)
      PROVE  k \in written
  <2>1. m[Masked(x)] # Sentinel
    BY DEF Holds
  <2> QED
    BY <1>4, <1>5, <2>1 DEF written
<1>6. ASSUME NEW k \in 0 .. guard - 1, k \in written
      PROVE  \E x \in from .. to - 1 : Masked(x) = Masked(w + (k - o))
  BY <1>4, <1>6 DEF written, Marked
<1> DEFINE top == w + (guard - 1 - o)
<1>7. top >= to /\ guard - 1 \in 0 .. guard - 1
  BY <1>1, <1>2, <1>5
<1>8. top < from + Ring
  <2> SUFFICES ASSUME top >= from + Ring PROVE FALSE
    BY <1>2
  <2>1. top - Ring \in from .. to - 1 /\ top \in Int
    BY <1>2
  <2> DEFINE x == top - Ring
  <2>2. m[Masked(x)] # Sentinel
    BY <2>1 DEF Holds
  <2>3. Masked(x) = Masked(top)
    BY <2>1, MaskBack
  <2>4. Masked(probe + (guard - 1)) = Masked(top)
    BY <1>4
  <2>5. m[Masked(probe + (guard - 1))] # Sentinel
    BY <2>2, <2>3, <2>4
  <2> QED
    BY <1>1, <1>7, <2>5 DEF written
<1> DEFINE e == o + (to - w)
<1>9. e \in o .. guard - 1 /\ e \in Int
  BY <1>2, <1>7
<1>10. ASSUME NEW k \in o .. guard - 1 PROVE k \in written <=> k < e
  <2>1. k \in 0 .. guard - 1 /\ w + (k - o) \in w .. top
    BY <1>2
  <2>2. CASE k < e
    <3>1. w + (k - o) \in from .. to - 1
      BY <1>2, <2>1, <2>2
    <3> QED
      BY <1>5, <2>1, <2>2, <3>1
  <2>3. CASE k >= e
    <3> SUFFICES ASSUME k \in written PROVE FALSE
      BY <2>3, <1>2
    <3>1. PICK x \in from .. to - 1 : Masked(x) = Masked(w + (k - o))
      BY <1>6, <2>1
    <3>2. PICK y \in Int : y = w + (k - o)
      BY <2>1
    <3>3. x < y /\ y < x + Ring
      BY <1>2, <1>8, <2>1, <2>3, <3>2
    <3> QED
      BY <3>1, <3>2, <3>3, MaskApart
  <2> QED
    BY <1>2, <2>2, <2>3
<1>11. Search(written, o, guard - 1) = e
  <2>1. o \in Int /\ guard - 1 \in Int
    BY <1>2
  <2> HIDE DEF e
  <2> QED
    BY <1>9, <1>10, <2>1, SearchFinds
<1>12. Masked(probe + e) = Masked(to)
  <2>1. w + (e - o) = to
    BY <1>2
  <2>2. Masked(probe + e) = Masked(w + (e - o))
    BY <1>4, <1>9
  <2> QED
    BY <2>1, <2>2
<1>13. to < from + Ring
  BY <1>2, <1>7, <1>8
<1> QED
  BY <1>1, <1>11, <1>12, <1>13

(* The head of a unit that begins o pairs into a group.                    *)
LEMMA HeadIs ==
    ASSUME NEW f \in Cells, NEW n \in Nat
    PROVE  LET o == f % Group
           IN  /\ o \in 0 .. Group - 1 /\ HeadAt(f) = f - o /\ f - o >= 0 /\ f - o + Group <= Ring
               /\ HeadPairs(f, n) = IF o = 0 THEN 0 ELSE IF Group - o > n THEN n ELSE Group - o
               /\ \E u \in Int : f = o + u * Group
<1> DEFINE o == f % Group
<1>1. Group \in Nat \ {0} /\ Ring \in Nat \ {0} /\ f \in Nat /\ f < Ring /\ Ring % Group = 0
  BY RingAssumption, GeometryAssumption DEF RingAssumption, GeometryAssumption, Cells
<1>2. o \in 0 .. Group - 1 /\ \E u \in Int : f = o + u * Group
  <2>1. f \in Int
    BY <1>1
  <2> QED
    BY <1>1, <2>1, ModTurns, Zenon
<1>3. PICK u \in Int : f = o + u * Group
  BY <1>2
<1>4. PICK b \in Int : Ring = (Ring % Group) + b * Group
  <2>1. Ring \in Int
    BY <1>1
  <2> QED
    BY <1>1, <2>1, ModTurns, Zenon
<1>5. PICK r \in 0 .. Group - 1 : r = o
  BY <1>2
<1>6. f = r + u * Group /\ Ring = b * Group
  BY <1>1, <1>3, <1>4, <1>5
<1>7. u >= 0
  <2>1. u <= -1 => u * Group <= -Group
    BY <1>1
  <2> QED
    BY <1>1, <1>5, <1>6, <2>1
<1>8. f - r >= 0 /\ f - r + Group <= Ring
  <2>1. u >= b => u * Group >= b * Group
    BY <1>1
  <2>2. u < b
    BY <1>1, <1>5, <1>6, <2>1
  <2>3. (u + 1) * Group <= b * Group
    BY <1>1, <2>2
  <2>4. u * Group + Group <= b * Group
    BY <1>1, <2>3
  <2>5. u * Group >= 0
    BY <1>1, <1>7
  <2> QED
    BY <1>1, <1>5, <1>6, <2>4, <2>5
<1>9. (0 - f) % Group = IF r = 0 THEN 0 ELSE Group - r
  <2>1. CASE r = 0
    <3>1. 0 - f = 0 + (-u) * Group /\ -u \in Int /\ 0 - f \in Int /\ 0 \in 0 .. Group - 1
      BY <1>1, <1>6, <2>1
    <3> QED
      BY <1>1, <2>1, <3>1, ModIs
  <2>2. CASE r # 0
    <3>1. 0 - f = (Group - r) + (-u - 1) * Group
      BY <1>1, <1>5, <1>6, <2>2
    <3>2. -u - 1 \in Int /\ 0 - f \in Int /\ Group - r \in 0 .. Group - 1
      BY <1>1, <1>5, <2>2
    <3> QED
      BY <1>1, <2>2, <3>1, <3>2, ModIs
  <2> QED
    BY <2>1, <2>2
<1>10. HeadPairs(f, n) = IF o = 0 THEN 0 ELSE IF Group - o > n THEN n ELSE Group - o
  <2>1. HeadPairs(f, n) = IF (0 - f) % Group > n THEN n ELSE (0 - f) % Group
    BY DEF HeadPairs
  <2> QED
    BY <1>5, <1>9, <2>1
<1>11. HeadAt(f) = f - o
  BY DEF HeadAt
<1> QED
  BY <1>2, <1>5, <1>8, <1>10, <1>11

(* prepare_descriptor and the kernel: the groups read carry the pairs of   *)
(* the unit, though a partial group is moved and both are padded in place. *)
LEMMA GroupReads ==
    ASSUME NEW m \in [Cells -> Int], NEW from \in Nat, NEW n \in 0 .. MaxPairs,
           \A x \in from .. from + n - 1 : m[Masked(x)] = x
    PROVE  Read(Grouped(m, Masked(from), n), Masked(from), n) = [k \in 1 .. n |-> from + k - 1]
<1> DEFINE f == Masked(from)
           o == f % Group
           h == HeadPairs(f, n)
           t == TailPairs(f, n)
           H == f - o
           T == f + n - t
<1>1. /\ Group \in Nat \ {0} /\ Ring \in Nat \ {0} /\ n \in Nat /\ n + Group <= Ring
      /\ Ring % Group = 0
  BY RingAssumption, GeometryAssumption DEF RingAssumption, GeometryAssumption
<1>2. f \in Cells /\ f \in Int /\ f < Ring /\ f >= 0
  <2>1. f \in Cells /\ f \in Int
    <3>1. from \in Int
      OBVIOUS
    <3> QED
      BY <3>1, MaskType
  <2> QED
    BY <1>1, <2>1 DEF Cells
<1> HIDE DEF f
<1>3. /\ o \in 0 .. Group - 1 /\ HeadAt(f) = H /\ H >= 0 /\ H + Group <= Ring
      /\ h = IF o = 0 THEN 0 ELSE IF Group - o > n THEN n ELSE Group - o
      /\ \E u \in Int : f = o + u * Group
  BY <1>1, <1>2, HeadIs
<1> HIDE DEF o, h
<1>4. h \in 0 .. n
  BY <1>1, <1>3
<1>5. t \in 0 .. Group - 1 /\ \E v \in Int : n - h = t + v * Group
  <2>1. n - h \in Int
    BY <1>1, <1>4
  <2>2. t = (n - h) % Group
    BY DEF TailPairs, h
  <2> HIDE DEF t
  <2> DEFINE z == n - h
  <2>3. z % Group \in 0 .. Group - 1 /\ \E v \in Int : z = (z % Group) + v * Group
    <3> HIDE DEF z
    <3>1. z \in Int
      BY <2>1 DEF z
    <3> QED
      BY <1>1, <3>1, ModTurns, Zenon
  <2> QED
    BY <2>2, <2>3, Zenon
<1> HIDE DEF t
<1>6. H \in Int /\ T \in Int
  BY <1>1, <1>2, <1>3, <1>5
(* The tail group ends before the head group begins again.                 *)
<1>7. t # 0 /\ h # 0 => /\ o # 0 /\ h = Group - o /\ T >= f + h
                       /\ T + Group <= H + Ring
  <2> SUFFICES ASSUME t # 0, h # 0
               PROVE  o # 0 /\ h = Group - o /\ T >= f + h /\ T + Group <= H + Ring
    OBVIOUS
  <2>1. PICK v \in Int : n - h = t + v * Group
    BY <1>5
  <2>2. v >= 0
    <3>1. v <= -1 => v * Group <= -Group
      BY <1>1
    <3> QED
      BY <1>1, <1>4, <1>5, <2>1, <3>1
  <2>3. v * Group >= 0
    BY <1>1, <2>2
  <2>4. n - h > 0
    BY <1>1, <1>4, <1>5, <2>1, <2>3
  <2>5. o # 0 /\ h = Group - o
    BY <1>1, <1>3, <1>4, <2>4
  <2>6. PICK b \in Int : Ring = (Ring % Group) + b * Group
    <3>1. Ring \in Int
      BY <1>1
    <3> QED
      BY <1>1, <3>1, ModTurns, Zenon
  <2>7. Ring = b * Group
    BY <1>1, <2>6
  <2>8. v * Group + Group + (t - o) = n
    BY <1>1, <1>3, <1>5, <2>1, <2>5
  <2>9. v * Group + Group < b * Group
    BY <1>1, <1>3, <1>5, <2>7, <2>8
  <2>10. v + 1 < b
    <3>1. v + 1 >= b => (v + 1) * Group >= b * Group
      BY <1>1
    <3>2. (v + 1) * Group = v * Group + Group
      BY <1>1
    <3> QED
      BY <1>1, <2>9, <3>1, <3>2
  <2>11. v * Group + Group + Group <= Ring
    <3>1. (v + 2) * Group <= b * Group
      BY <1>1, <2>10
    <3>2. (v + 2) * Group = v * Group + Group + Group
      BY <1>1
    <3> QED
      BY <2>7, <3>1, <3>2
  <2>12. PICK g \in Int : g = v * Group
    BY <1>1
  <2>13. T = f + h + g
    BY <1>1, <1>2, <1>4, <1>5, <2>1, <2>12
  <2>14. g >= 0 /\ g + Group + Group <= Ring
    BY <2>3, <2>11, <2>12
  <2>15. T >= f + h /\ T + Group <= H + Ring
    BY <1>1, <1>2, <1>3, <2>5, <2>13, <2>14
  <2> QED
    BY <2>5, <2>15
<1>8. ASSUME NEW k \in 1 .. n PROVE m[Masked(f + k - 1)] = from + k - 1
  <2>1. from + k - 1 \in from .. from + n - 1 /\ k - 1 \in Int /\ from \in Int
    BY <1>1
  <2>2. Masked(Masked(from) + (k - 1)) = Masked(from + (k - 1))
    BY ONLY <2>1, MaskTwice
  <2>3. Masked(f + (k - 1)) = Masked(from + (k - 1))
    BY <2>2 DEF f
  <2>4. f + (k - 1) = f + k - 1 /\ from + (k - 1) = from + k - 1
    BY <1>2, <2>1
  <2> QED
    BY <2>1, <2>3, <2>4
(* A padded or moved cell i of the tail group is T + j turned around.      *)
<1>9. ASSUME t # 0, NEW i \in Cells, i \in Masked(T) + t .. Masked(T) + Group - 1
      PROVE  \E y \in T + t .. T + Group - 1 : Masked(y) = i
  <2>1. Masked(T) \in Int
    BY <1>6, MaskType
  <2> DEFINE j == i - Masked(T)
  <2>2. j \in t .. Group - 1 /\ j \in Int /\ Masked(T) + j = i
    BY <1>1, <1>5, <1>9, <2>1
  <2> HIDE DEF j
  <2>3. Masked(T + j) = Masked(i)
    BY <1>6, <2>2, MaskTwice
  <2>4. Masked(T + j) = i
    BY <1>9, <2>3, MaskSmall, Zenon
  <2>5. T + j \in T + t .. T + Group - 1
    <3> HIDE DEF T
    <3> QED
      BY <1>1, <1>5, <1>6, <2>2
  <2> QED
    BY <2>4, <2>5
<1> DEFINE head == IF h = 0 THEN {} ELSE H + h .. H + Group - 1
           tail == IF t = 0 THEN {} ELSE Masked(T) + t .. Masked(T) + Group - 1
<1>10. ASSUME NEW i \in Cells, i \notin head, i \notin tail
       PROVE  Grouped(m, f, n)[i] = IF i \in H .. H + h - 1 THEN m[f + i - H] ELSE m[i]
  <2>1. Grouped(m, f, n) = [c \in Cells |-> IF c \in head \cup tail THEN Padding
                                            ELSE IF c \in H .. H + h - 1 THEN m[f + c - H]
                                            ELSE m[c]]
    <3>1. HeadAt(f) = H
      BY <1>3
    <3> QED
      BY <3>1, Zenon DEF Grouped, h, t
  <2> HIDE DEF head, tail, H
  <2> QED
    BY <1>10, <2>1
<1>11. ASSUME NEW k \in 1 .. n, k <= h
       PROVE  Grouped(m, f, n)[H + k - 1] = from + k - 1
  <2> DEFINE i == H + k - 1
  <2>1. /\ h # 0 /\ o # 0 /\ h <= Group - o
        /\ i \in H .. H + h - 1 /\ i \in Cells /\ i \in Int
        /\ i >= H /\ i < f + h /\ i < H + h
    BY <1>1, <1>2, <1>3, <1>4, <1>11 DEF Cells
  <2> HIDE DEF i
  <2>2. i \notin head
    BY <1>1, <1>4, <1>6, <2>1
  <2>3. i \notin tail
    <3> SUFFICES ASSUME t # 0, i \in Masked(T) + t .. Masked(T) + Group - 1 PROVE FALSE
      OBVIOUS
    <3>1. PICK y \in T + t .. T + Group - 1 : Masked(y) = i
      BY <1>9, <2>1
    <3>2. y \in Int /\ i < y /\ y < i + Ring
      BY <1>1, <1>2, <1>4, <1>5, <1>6, <1>7, <2>1
    <3>3. Masked(i) = i
      BY <2>1, MaskSmall
    <3> QED
      BY <2>1, <3>1, <3>2, <3>3, MaskApart
  <2>4. Grouped(m, f, n)[i] = m[f + i - H]
    BY <1>10, <2>1, <2>2, <2>3
  <2>5. f + i - H = f + k - 1 /\ f + k - 1 \in Cells
    BY <1>1, <1>2, <1>3, <1>4, <1>11, <2>1 DEF i, Cells
  <2>6. m[f + k - 1] = from + k - 1
    BY <1>8, <2>5, MaskSmall
  <2> QED
    BY <2>4, <2>5, <2>6 DEF i
<1>12. ASSUME NEW k \in 1 .. n, k > h
       PROVE  Grouped(m, f, n)[Masked(f + k - 1)] = from + k - 1
  <2> DEFINE e == f + k - 1
             i == Masked(e)
  <2>1. e \in Int /\ e >= f + h /\ e <= f + n - 1
    BY <1>1, <1>2, <1>4, <1>12
  <2> HIDE DEF e
  <2>2. i \in Cells /\ i \in Int
    BY <2>1, MaskType
  <2>3. h # 0 => i \notin H .. H + Group - 1
    <3> SUFFICES ASSUME h # 0, i \in H .. H + Group - 1 PROVE FALSE
      OBVIOUS
    <3>1. o # 0 /\ h = Group - o
      BY <1>1, <1>3, <1>4, <1>12
    <3>2. i < e /\ e < i + Ring
      BY <1>1, <1>2, <1>3, <2>1, <2>2, <3>1
    <3>3. Masked(i) = i
      BY <2>2, MaskSmall
    <3> HIDE DEF i
    <3>4. Masked(e) = Masked(i)
      BY <3>3 DEF i
    <3> QED
      BY <2>1, <2>2, <3>2, <3>4, MaskApart
  <2>4. i \notin tail
    <3> SUFFICES ASSUME t # 0, i \in Masked(T) + t .. Masked(T) + Group - 1 PROVE FALSE
      OBVIOUS
    <3>1. PICK y \in T + t .. T + Group - 1 : Masked(y) = i
      BY <1>9, <2>2
    <3>2. y \in Int /\ e < y /\ y < e + Ring
      BY <1>1, <1>2, <1>4, <1>5, <1>6, <2>1
    <3> QED
      BY <2>1, <3>1, <3>2, MaskApart
  <2>5. i \notin head /\ i \notin H .. H + h - 1
    BY <1>1, <1>3, <1>4, <1>6, <2>2, <2>3
  <2>6. Grouped(m, f, n)[i] = m[i]
    BY <1>10, <2>2, <2>4, <2>5
  <2>7. m[i] = from + k - 1
    BY <1>8 DEF e
  <2> QED
    BY <2>6, <2>7 DEF e
<1>13. \A k \in 1 .. n : (IF k <= h THEN Grouped(m, f, n)[H + k - 1]
                          ELSE Grouped(m, f, n)[Masked(f + k - 1)]) = from + k - 1
  BY <1>1, <1>4, <1>11, <1>12
<1>14. Read(Grouped(m, f, n), f, n) =
          [k \in 1 .. n |-> IF k <= h THEN Grouped(m, f, n)[H + k - 1]
                            ELSE Grouped(m, f, n)[Masked(f + k - 1)]]
  <2>1. HeadAt(f) = H
    BY <1>3
  <2> HIDE DEF H
  <2> QED
    BY <2>1, Zenon DEF Read, h
<1>15. Read(Grouped(m, f, n), f, n) = [k \in 1 .. n |-> from + k - 1]
  <2> HIDE DEF H
  <2> QED
    BY <1>13, <1>14, Zenon
<1> QED
  BY <1>15 DEF f

LEMMA ActiveType ==
    ASSUME IInv, Running
    PROVE  /\ Active \in Nat /\ Len(cuts) = Active + 1 /\ pos \in Nat
           /\ \A n \in 0 .. Active : Begin(n) \in Nat
           /\ Begin(Active) <= pos
BY DEF IInv, TypeOK, Running, Active, Begin

(* The unit the writer is in, by whose turn it is.                         *)
LEMMA ActiveIs ==
    ASSUME IInv, Running, status = "OK"
    PROVE  Active = (IF Switching THEN Turn + 1 ELSE Turn) /\ Turn \in Nat
<1>1. Len(cuts) = Cuts /\ Turn \in Nat
  BY Counts DEF IInv, CutsInv
<1> QED
  BY <1>1 DEF Active, Cuts, Switching

LEMMA HolderActive ==
    ASSUME IInv, Running, NEW lane \in Lanes, Holding(lane)
    PROVE  /\ Turn \in Nat /\ Turn = Sequence(lane) /\ Mine(lane) = Spot(Turn)
           /\ After(Mine(lane)) = Spot(Turn + 1)
           /\ Active = IF pc[lane] = "locate" THEN Turn + 1 ELSE Turn
           /\ ~Holding(1 - lane) /\ (Switching <=> pc[lane] = "locate")
<1>1. /\ Turn = 2 * unit[lane] + lane /\ Turn \in Nat
      /\ Mine(lane) = Spot(Turn) /\ Spot(Turn + 1) = After(Mine(lane))
      /\ ~Holding(1 - lane) /\ lane \in {0, 1}
  BY HolderTurn DEF Lanes
<1>2. Switching <=> pc[lane] = "locate"
  BY <1>1 DEF Switching, Holding
<1>3. status = "OK"
  BY DEF Running
<1> QED
  BY <1>1, <1>2, <1>3, ActiveIs DEF Sequence

(* A unit being sent was left one or two units ago.                        *)
LEMMA SenderTurn ==
    ASSUME IInv, NEW lane \in Lanes, pc[lane] \in Sending
    PROVE  /\ Sequence(lane) \in Nat /\ Mine(lane) = Spot(Sequence(lane)) /\ Mine(lane) \in Banks
           /\ Turn = Sequence(lane) + 1 \/ Turn = Sequence(lane) + 2
           /\ Holding(1 - lane) => Turn = Sequence(lane) + 1
           /\ ~Holding(lane) /\ (Switching => pc[1 - lane] = "locate")
<1>1. /\ lane \in {0, 1} /\ unit[lane] \in Nat /\ Done(lane) = unit[lane] + 1
      /\ Mine(lane) = Spot(2 * unit[lane] + lane) /\ Mine(lane) \in Banks
      /\ Done(0) \in Nat /\ Done(1) \in Nat
  <2>1. TypeOK
    BY DEF IInv
  <2> QED
    BY <2>1, Counts, MineSpot DEF Lanes, Done
<1>2. /\ Done(0) = Done(1) \/ Done(0) = Done(1) + 1
      /\ Holding(0) => Done(0) = Done(1)
      /\ Holding(1) => Done(0) = Done(1) + 1
  BY DEF IInv, Turns
<1>3. ~Holding(lane) /\ (Switching => pc[1 - lane] = "locate")
  BY <1>1 DEF Holding, Sending, Switching
<1>4. CASE lane = 0
  BY <1>1, <1>2, <1>3, <1>4 DEF Turn, Sequence
<1>5. CASE lane = 1
  BY <1>1, <1>2, <1>3, <1>5 DEF Turn, Sequence
<1> QED
  BY <1>1, <1>4, <1>5

LEMMA SenderActive ==
    ASSUME IInv, Running, NEW lane \in Lanes, pc[lane] \in Sending, status = "OK"
    PROVE  /\ Active = Sequence(lane) + 1 \/ Active = Sequence(lane) + 2
           /\ Switching => Active = Sequence(lane) + 2
           /\ Holding(1 - lane) /\ pc[1 - lane] # "locate" => Active = Sequence(lane) + 1
<1>1. Switching => Holding(1 - lane)
  BY SenderTurn DEF Holding
<1>2. ~Holding(lane) /\ lane \in {0, 1}
  BY SenderTurn DEF Lanes
<1>3. Holding(1 - lane) /\ pc[1 - lane] # "locate" => ~Switching
  BY <1>2 DEF Switching, Holding
<1>4. Sequence(lane) \in Nat
  BY SenderTurn
<1> QED
  BY <1>1, <1>3, <1>4, ActiveIs, SenderTurn

LEMMA SpotApart == ASSUME NEW n \in Nat, NEW a \in Nat, a = n + 1 \/ a = n + 2 \/ a = n + 3
                   PROVE  Spot(a) # Spot(n) /\ Spot(a) \in Banks /\ Spot(n) \in Banks
BY SpotNext

LEMMA QuietStep ==
    ASSUME IInv, DataInv, DataTypes', Running',
           UNCHANGED <<bank, pos, pipeline, cuts, end_probe, start, line>>,
           stopped => stopped',
           ~stopped' /\ Switching => Switching',
           Switching /\ ~Switching' /\ pipeline # NoPair => pipeline.bank # Spot(Active - 1),
           \A lane \in Lanes :
              /\ pc'[lane] = "locate" => /\ pc[lane] = "locate"
                                         /\ write_index'[lane] = write_index[lane]
              /\ pc'[lane] \in {"check", "poll", "measure", "switch"}
                    => pc[lane] \in {"check", "poll", "measure", "switch"}
              /\ pc'[lane] \in {"measure", "switch"}
                    => \/ /\ pc[lane] \in {"measure", "switch"}
                          /\ write_index'[lane] = write_index[lane]
                       \/ write_index'[lane] = Masked(pos)
              /\ pc'[lane] \in Sending
                    => /\ pc'[lane] = pc[lane] /\ unit'[lane] = unit[lane]
                       /\ extent'[lane] = extent[lane]
    PROVE  DataInv'
<1>1. /\ Active \in Nat /\ pos \in Nat /\ Begin(Active) \in Nat /\ Begin(Active) <= pos
      /\ Active' = Active /\ \A n : Begin(n)' = Begin(n)
  BY ActiveType DEF DataInv, Active, Begin
<1>2. Piped'
  <2>1. Switching => Switching' \/ pipeline = NoPair \/ pipeline.bank # Spot(Active - 1)
    OBVIOUS
  <2> QED
    BY <2>1 DEF DataInv, Piped, Active, Begin
<1>3. SettledInv'
  BY DEF DataInv, SettledInv, Mine
<1>4. Filling'
  BY DEF DataInv, Filling, Active, Begin, Landed
<1>5. Polled'
  <2> SUFFICES ASSUME NEW lane \in Lanes, pc'[lane] \in {"measure", "switch"}
               PROVE  \E w \in Begin(Active) .. pos : write_index'[lane] = Masked(w)
    BY DEF Polled, Active, Begin
  <2>1. CASE write_index'[lane] = Masked(pos)
    BY <1>1, <2>1
  <2>2. CASE write_index'[lane] # Masked(pos)
    <3>1. pc[lane] \in {"measure", "switch"} /\ write_index'[lane] = write_index[lane]
      BY <2>2
    <3>2. \E w \in Begin(Active) .. pos : write_index[lane] = Masked(w)
      BY <3>1 DEF DataInv, Polled
    <3> QED
      BY <3>1, <3>2
  <2> QED
    BY <2>1, <2>2
<1>6. Prepared'
  BY DEF DataInv, Prepared, Active
<1>7. Leaving'
  BY DEF DataInv, Leaving, Active, Begin, Landed
<1>8. ASSUME NEW lane \in Lanes PROVE Located(lane)'
  BY DEF DataInv, Located, Sequence, Mine, Begin, Size, Pairs, Sending
<1>9. SentExactly'
  BY DEF DataInv, SentExactly
<1> QED
  BY <1>2, <1>3, <1>4, <1>5, <1>6, <1>7, <1>8, <1>9 DEF DataInv

(* What a core moves, one step at a time.                                  *)
LEMMA Moves ==
    ASSUME TypeOK, NEW lane \in Lanes, NEW to, Go(lane, to)
    PROVE  /\ pc'[lane] = to
           /\ \A l \in Lanes : l # lane => pc'[l] = pc[l]
BY DEF TypeOK, Go

LEMMA FailData ==
    ASSUME IInv, DataInv, NEW lane \in Lanes, NEW code \in Codes, code # "OK", Holding(lane),
           pc[lane] = "locate" /\ pipeline # NoPair => pipeline.bank # Mine(lane),
           Fail(lane, code)
    PROVE  DataInv'
<1>1. TypeOK /\ lane \in {0, 1} /\ ~Holding(1 - lane)
  BY DEF IInv, OneBaton, Lanes
<1>2. /\ Go(lane, "over")
      /\ status' = IF status = "OK" THEN code ELSE status
      /\ running' = FALSE /\ stopped' = TRUE
      /\ write_index' = [write_index EXCEPT ![lane] = 0]
      /\ extent' = [extent EXCEPT ![lane] = Nowhere]
      /\ UNCHANGED <<unit, started, bank, pos, pipeline, cuts, end_probe, start, line>>
  BY DEF Fail, Abandon, ForgetLocals, joining, edges, ghosts
<1>3. /\ pc'[lane] = "over" /\ \A l \in Lanes : l # lane => pc'[l] = pc[l]
      /\ \A l \in Lanes : l # lane => write_index'[l] = write_index[l] /\ extent'[l] = extent[l]
  BY <1>1, <1>2, Moves DEF DataInv, DataTypes
<1>4. DataTypes'
  BY <1>2 DEF DataInv, DataTypes, Nowhere
<1>5. status' # "OK"
  BY <1>2
<1>6. Running'
  <2>1. \A l \in Lanes : ~Holding(l)'
    BY <1>1, <1>3 DEF Holding, Lanes
  <2>2. Len(cuts)' >= 1 /\ cuts'[Len(cuts')] <= pos'
    BY <1>2 DEF DataInv, Running
  <2> QED
    BY <1>2, <2>1, <2>2 DEF Running
<1>7. Switching /\ pipeline # NoPair => pipeline.bank # Spot(Active - 1)
  <2> SUFFICES ASSUME Switching, pipeline # NoPair PROVE pipeline.bank # Spot(Active - 1)
    OBVIOUS
  <2>1. pc[lane] = "locate"
    BY <1>1 DEF Switching, Holding
  <2>2. Active = Turn + 1 /\ Turn \in Nat /\ Mine(lane) = Spot(Turn)
    BY <2>1, HolderActive DEF DataInv
  <2> QED
    BY <2>1, <2>2
<1> QED
  BY <1>2, <1>3, <1>4, <1>6, <1>7, QuietStep DEF Sending

LEMMA ControlData ==
    ASSUME IInv, DataInv, Join \/ StartWriter \/ EnterLoop \/ LeaveLoop \/ FinishRun
    PROVE  DataInv'
<1>1. TypeOK /\ 0 \in Lanes /\ 1 \in Lanes
  BY DEF IInv, Lanes
<1>2. /\ UNCHANGED <<unit, stopped, status, bank, pos, pipeline, cuts, end_probe, start, line,
                     write_index, extent>>
      /\ \A l \in Lanes : pc'[l] = pc[l] \/ pc'[l] \in {"joining", "wait", "idle"}
      /\ \A l \in Lanes : pc'[l] # pc[l] => pc[l] \in {"idle", "joining", "over"}
  BY <1>1, Moves DEF Join, StartWriter, EnterLoop, LeaveLoop, FinishRun, ending, edges, locals, writer,
                     ghosts, Lanes
<1>3. DataTypes'
  BY <1>2 DEF DataInv, DataTypes
<1>4. \A l \in Lanes : Holding(l)' => Holding(l)
  BY <1>2 DEF Holding
<1>5. (running' => started' /\ ~stopped') /\ (pc'[0] \in {"idle", "joining"} => ~running')
  <2>1. CASE Join
    BY <1>1, <2>1, Moves DEF Join, DataInv, Running, writer, ending, Lanes
  <2>2. CASE StartWriter
    <3>1. pc'[0] = "wait" /\ running' /\ started' /\ stopped' = stopped /\ pc[0] = "joining"
      BY <1>1, <2>2, Moves DEF StartWriter, ending
    <3>2. ~stopped
      BY <3>1 DEF IInv, Phases
    <3> QED
      BY <3>1, <3>2
  <2>3. CASE EnterLoop
    BY <1>1, <2>3, Moves DEF EnterLoop, DataInv, Running, writer, ending, joining, Lanes
  <2>4. CASE LeaveLoop
    BY <1>1, <2>4, Moves DEF LeaveLoop, DataInv, Running, writer, ending, Lanes
  <2>5. CASE FinishRun
    BY <2>5 DEF FinishRun
  <2> QED
    BY <2>1, <2>2, <2>3, <2>4, <2>5
<1>6. Running'
  BY <1>2, <1>4, <1>5 DEF DataInv, Running
<1>7. Switching => Switching'
  BY <1>2 DEF Switching, Lanes
<1> QED
  BY <1>2, <1>3, <1>6, <1>7, QuietStep DEF Sending

LEMMA WaitData ==
    ASSUME IInv, DataInv, NEW lane \in Lanes, LeaveStopped(lane) \/ TakeBank(lane)
    PROVE  DataInv'
<1>1. TypeOK /\ lane \in {0, 1}
  BY DEF IInv, Lanes
<1>2. /\ UNCHANGED <<unit, stopped, status, started, running, bank, pos, pipeline, cuts, end_probe,
                     start, line, write_index, extent>>
      /\ pc[lane] = "wait" /\ \A l \in Lanes : l # lane => pc'[l] = pc[l]
      /\ pc'[lane] = "over" \/ (pc'[lane] = "prepare" /\ ~stopped)
  BY <1>1, Moves DEF LeaveStopped, TakeBank, joining, ending, edges, locals, writer, ghosts
<1>3. DataTypes'
  BY <1>2 DEF DataInv, DataTypes
<1>4. Running'
  <2>1. \A l \in Lanes : Holding(l)' => status = "OK"
    BY <1>2 DEF DataInv, Running, Holding
  <2>2. pc'[0] \in {"idle", "joining"} => pc[0] \in {"idle", "joining"}
    BY <1>1, <1>2 DEF Lanes
  <2> QED
    BY <1>2, <2>1, <2>2 DEF DataInv, Running
<1>5. Switching => Switching'
  BY <1>1, <1>2 DEF Switching, Lanes
<1> QED
  BY <1>2, <1>3, <1>4, <1>5, QuietStep DEF Sending

(* Steps of a core that holds the run: what Running asks of them.          *)
LEMMA StaysRunning ==
    ASSUME IInv, Running, NEW lane \in Lanes, Holding(lane),
           \A l \in Lanes : l # lane => pc'[l] = pc[l],
           pc'[lane] \in Points \ {"idle", "joining"},
           UNCHANGED <<running, started, stopped, status, cuts, pos>>
    PROVE  Running'
<1>1. pc'[0] \in {"idle", "joining"} => pc[0] \in {"idle", "joining"}
  BY DEF Lanes
<1>2. \A l \in Lanes : Holding(l)' => status = "OK"
  BY DEF Running, Holding
<1> QED
  BY <1>1, <1>2 DEF Running

LEMMA CheckData ==
    ASSUME IInv, DataInv, NEW lane \in Lanes, CheckPrepared(lane) \/ Poll(lane)
    PROVE  DataInv'
<1>1. /\ TypeOK /\ Holding(lane) /\ pc[lane] \in {"check", "poll"} /\ Running /\ DataTypes
      /\ pc[lane] = "poll" => ~stopped
  BY DEF CheckPrepared, Poll, IInv, StopInv, Holding, DataInv
<1>2. CASE \E code \in {"LATE_PREPARE", "LATE_POLL"} : Fail(lane, code)
  BY <1>1, <1>2, FailData DEF Codes
<1>3. CASE ~ \E code \in {"LATE_PREPARE", "LATE_POLL"} : Fail(lane, code)
  <2>1. /\ UNCHANGED <<unit, stopped, status, started, running, bank, pos, pipeline, cuts, end_probe,
                       start, line, extent>>
        /\ \/ pc'[lane] = "poll" /\ pc[lane] = "check" /\ write_index' = write_index
           \/ pc'[lane] = "measure" /\ write_index' = [write_index EXCEPT ![lane] = Masked(pos)]
        /\ \A l \in Lanes : l # lane => pc'[l] = pc[l]
    <3>1. CASE CheckPrepared(lane)
      BY <1>1, <1>3, <3>1, Moves DEF CheckPrepared, joining, ending, edges, locals, writer, ghosts
    <3>2. CASE Poll(lane)
      BY <1>1, <1>3, <3>2, Moves DEF Poll, joining, ending, edges, writer, ghosts
    <3> QED
      BY <3>1, <3>2
  <2>2. Masked(pos) \in Int
    BY <1>1, MaskType DEF TypeOK
  <2>3. DataTypes'
    BY <1>1, <2>1, <2>2 DEF DataTypes
  <2>4. Running'
    BY <1>1, <2>1, StaysRunning DEF Points
  <2>5. Switching => Switching'
    BY <1>1, <2>1 DEF Switching, Lanes
  <2>6. \A l \in Lanes : /\ l # lane => write_index'[l] = write_index[l]
                         /\ pc'[lane] = "measure" => write_index'[lane] = Masked(pos)
    BY <1>1, <2>1 DEF DataTypes
  <2> QED
    BY <1>1, <2>1, <2>3, <2>4, <2>5, <2>6, QuietStep DEF Sending
<1> QED
  BY <1>2, <1>3

LEMMA MeasureData == ASSUME IInv, DataInv, NEW lane \in Lanes, Measure(lane) PROVE DataInv'
<1>1. TypeOK /\ Holding(lane) /\ pc[lane] = "measure" /\ Running /\ DataTypes
  BY DEF Measure, IInv, Holding, DataInv
<1>2. CASE Fail(lane, "LATE_SWITCH")
  BY <1>1, <1>2, FailData DEF Codes
<1>3. CASE ~Fail(lane, "LATE_SWITCH")
  <2>1. /\ UNCHANGED <<unit, stopped, status, started, running, bank, pos, pipeline, cuts, end_probe,
                       start, line, write_index, extent>>
        /\ pc'[lane] = "switch" /\ \A l \in Lanes : l # lane => pc'[l] = pc[l]
    BY <1>1, <1>3, Moves DEF Measure, joining, edges, writer, ghosts
  <2>2. DataTypes'
    BY <1>1, <2>1 DEF DataTypes
  <2>3. Running'
    BY <1>1, <2>1, StaysRunning DEF Points
  <2>4. Switching => Switching'
    BY <1>1, <2>1 DEF Switching, Lanes
  <2> QED
    BY <1>1, <2>1, <2>2, <2>3, <2>4, QuietStep DEF Sending
<1> QED
  BY <1>2, <1>3

LEMMA ReleaseData == ASSUME IInv, DataInv, NEW lane \in Lanes, Release(lane) PROVE DataInv'
<1>1. TypeOK /\ lane \in {0, 1} /\ pc[lane] = "release" /\ Running /\ DataTypes
  BY DEF Release, IInv, DataInv, Lanes
<1>2. /\ UNCHANGED <<stopped, status, started, running, bank, pos, pipeline, cuts, end_probe,
                     start, line>>
      /\ unit' = [unit EXCEPT ![lane] = unit[lane] + 1]
      /\ write_index' = [write_index EXCEPT ![lane] = 0]
      /\ extent' = [extent EXCEPT ![lane] = Nowhere]
      /\ pc'[lane] = "wait" /\ \A l \in Lanes : l # lane => pc'[l] = pc[l]
  BY <1>1, Moves DEF Release, ForgetLocals, joining, ending, edges, writer, ghosts
<1>3. DataTypes'
  BY <1>1, <1>2 DEF DataTypes, Nowhere
<1>4. Running'
  <2>1. pc'[0] \in {"idle", "joining"} => pc[0] \in {"idle", "joining"}
    BY <1>1, <1>2 DEF Lanes
  <2>2. \A l \in Lanes : Holding(l)' => status = "OK"
    BY <1>1, <1>2 DEF Running, Holding
  <2> QED
    BY <1>1, <1>2, <2>1, <2>2 DEF Running
<1>5. Switching => Switching'
  BY <1>1, <1>2 DEF Switching, Lanes
<1>6. \A l \in Lanes : l # lane => /\ unit'[l] = unit[l] /\ extent'[l] = extent[l]
                                   /\ write_index'[l] = write_index[l]
  BY <1>1, <1>2 DEF DataTypes, TypeOK
<1> QED
  BY <1>1, <1>2, <1>3, <1>4, <1>5, <1>6, QuietStep DEF Sending

(* The line: what was read for the unit is what its bank held.             *)
LEMMA TransmitData == ASSUME IInv, DataInv, NEW lane \in Lanes, Transmit(lane) PROVE DataInv'
<1>1. TypeOK /\ lane \in {0, 1} /\ pc[lane] = "transmit" /\ pc[lane] \in Sending /\ Running /\ DataTypes
  BY DEF Transmit, IInv, DataInv, Lanes, Sending
<1>2. /\ UNCHANGED <<unit, stopped, status, started, running, bank, pos, pipeline, cuts, end_probe,
                     start, write_index, extent>>
      /\ line' = [line EXCEPT ![lane] =
                     [sequence |-> Sequence(lane),
                      pairs |-> Read(bank[Mine(lane)], extent[lane].first, extent[lane].count)]]
      /\ pc'[lane] = "release" /\ \A l \in Lanes : l # lane => pc'[l] = pc[l]
  BY <1>1, Moves DEF Transmit, joining, ending, edges, locals, writer
<1>3. Located(lane)
  BY DEF DataInv
<1>4. /\ line'[lane] = [sequence |-> Sequence(lane), pairs |-> Pairs(Sequence(lane))]
      /\ \A l \in Lanes : l # lane => line'[l] = line[l]
      /\ line' = [l \in Lanes |-> line'[l]]
      /\ Sequence(lane) + 2 <= Len(cuts)
  BY <1>1, <1>2, <1>3 DEF DataTypes, Located
<1>5. DataTypes'
  <2>1. \A l \in Lanes : line'[l] # NoUnit => line'[l].sequence \in Nat
    <3>1. line'[lane].sequence = Sequence(lane) /\ Sequence(lane) \in Nat
      BY <1>1, <1>4, SenderTurn
    <3>2. \A l \in Lanes : line[l] # NoUnit => line[l].sequence \in Nat
      BY <1>1 DEF DataTypes
    <3> QED
      BY <1>4, <3>1, <3>2, Zenon
  <2>2. /\ bank' \in [Banks -> [Cells -> Int]]
        /\ start' \in [Banks -> Int] /\ end_probe' \in [Banks -> Int]
        /\ write_index' \in [Lanes -> Int]
        /\ extent' \in [Lanes -> [first : Int, count : Int]]
    BY <1>1, <1>2 DEF DataTypes
  <2> QED
    BY <1>4, <2>1, <2>2 DEF DataTypes
<1>6. Running'
  <2>1. pc'[0] \in {"idle", "joining"} => pc[0] \in {"idle", "joining"}
    BY <1>1, <1>2 DEF Lanes
  <2>2. \A l \in Lanes : Holding(l)' => status = "OK"
    BY <1>1, <1>2 DEF Running, Holding
  <2> QED
    BY <1>1, <1>2, <2>1, <2>2 DEF Running
<1>7. Switching' = Switching /\ Active' = Active /\ \A n : Begin(n)' = Begin(n)
  BY <1>1, <1>2 DEF Switching, Lanes, Active, Begin
<1>8. Piped' /\ Filling'
  BY <1>2, <1>7 DEF DataInv, Piped, Filling, Active, Begin, Landed
<1>9. SettledInv'
  BY <1>1, <1>2 DEF DataInv, SettledInv, Mine, Sending
<1>10. Polled' /\ Prepared'
  BY <1>1, <1>2 DEF DataInv, Polled, Prepared, Active, Begin
<1>11. Leaving'
  BY <1>1, <1>2 DEF DataInv, Leaving, Active, Begin, Landed
<1>12. ASSUME NEW l \in Lanes PROVE Located(l)'
  BY <1>1, <1>2 DEF DataInv, Located, Sequence, Mine, Begin, Size, Pairs, Sending
<1>13. SentExactly'
  <2> DEFINE n == Sequence(lane)
  <2>1. n \in Nat
    BY <1>1, SenderTurn
  <2>2. n + 1 + 1 = n + 2
    BY <2>1
  <2>3. Pairs(n) = [k \in 1 .. cuts[n + 2] - cuts[n + 1] |-> cuts[n + 1] + k - 1]
    BY <2>2, Zenon DEF Pairs, Size, Begin
  <2>4. /\ line'[lane].sequence + 2 <= Len(cuts)
        /\ line'[lane].sequence = n /\ line'[lane].pairs = Pairs(n)
    BY <1>4
  <2> HIDE DEF n
  <2>5. ASSUME NEW l \in Lanes, line'[l] # NoUnit
        PROVE  LET s == line'[l].sequence
               IN  /\ s + 2 <= Len(cuts)
                   /\ line'[l].pairs = [k \in 1 .. cuts[s + 2] - cuts[s + 1] |-> cuts[s + 1] + k - 1]
    <3>1. CASE l = lane
      BY <2>3, <2>4, <3>1, Zenon
    <3>2. CASE l # lane
      <4>1. line'[l] = line[l] /\ line[l] # NoUnit
        BY <1>4, <2>5, <3>2
      <4> QED
        BY <4>1, Zenon DEF DataInv, SentExactly
    <3> QED
      BY <3>1, <3>2
  <2>6. cuts' = cuts
    BY <1>2
  <2> QED
    BY <2>5, <2>6, Zenon DEF SentExactly
<1> QED
  BY <1>5, <1>6, <1>8, <1>9, <1>10, <1>11, <1>12, <1>13 DEF DataInv

LEMMA GroupedType ==
    ASSUME NEW m \in [Cells -> Int], NEW f \in Cells, NEW n \in Nat
    PROVE  Grouped(m, f, n) \in [Cells -> Int]
<1> DEFINE o == f % Group
           h == HeadPairs(f, n)
<1>1. /\ o \in 0 .. Group - 1 /\ HeadAt(f) = f - o /\ f - o >= 0 /\ f - o + Group <= Ring
      /\ h = IF o = 0 THEN 0 ELSE IF Group - o > n THEN n ELSE Group - o
  BY HeadIs
<1>2. Group \in Nat /\ Ring \in Nat /\ f \in Int
  BY RingAssumption DEF RingAssumption, Cells
<1> HIDE DEF o, h
<1>3. ASSUME NEW i \in f - o .. f - o + h - 1 PROVE f + i - (f - o) \in Cells
  BY <1>1, <1>2 DEF Cells
<1>4. \A i \in f - o .. f - o + h - 1 : m[f + i - (f - o)] \in Int
  BY <1>3, Zenon
<1>5. \A i \in Cells : m[i] \in Int
  OBVIOUS
<1>6. Padding \in Int
  BY DEF Padding
<1>7. HeadAt(f) = f - o
  BY <1>1
<1> DEFINE head == f - o .. f - o + h - 1
           val(i) == m[f + i - (f - o)]
           t == TailPairs(f, n)
           T == Masked(f + n - t)
           padding == (IF h = 0 THEN {} ELSE f - o + h .. f - o + Group - 1)
                      \cup (IF t = 0 THEN {} ELSE T + t .. T + Group - 1)
<1>8. Grouped(m, f, n) = [i \in Cells |-> IF i \in padding THEN Padding
                                          ELSE IF i \in head THEN val(i) ELSE m[i]]
  BY <1>7, Zenon DEF Grouped, h
<1>9. \A i \in head : val(i) \in Int
  BY <1>4
<1> HIDE DEF head, val, padding
<1> QED
  BY <1>5, <1>6, <1>8, <1>9, Zenon

(* Preparing the descriptor moves pairs in a bank nobody else looks at.    *)
LEMMA SendData == ASSUME IInv, DataInv, NEW lane \in Lanes, PrepareDescriptor(lane) PROVE DataInv'
<1>1. /\ TypeOK /\ lane \in {0, 1} /\ pc[lane] = "group" /\ pc[lane] \in Sending
      /\ Running /\ DataTypes /\ Located(lane)
  BY DEF PrepareDescriptor, IInv, DataInv, Lanes, Sending
<1> DEFINE n == Sequence(lane)
           b == Mine(lane)
<1>2. /\ UNCHANGED <<unit, stopped, status, started, running, pos, pipeline, cuts, end_probe,
                     start, write_index, extent, line>>
      /\ bank' = [bank EXCEPT ![b] = Grouped(bank[b], extent[lane].first, extent[lane].count)]
      /\ pc'[lane] = "transmit" /\ \A l \in Lanes : l # lane => pc'[l] = pc[l]
  BY <1>1, Moves DEF PrepareDescriptor, joining, ending, edges, locals, writer, ghosts
<1>3. /\ n \in Nat /\ b = Spot(n) /\ b \in Banks
      /\ status = "OK" => /\ Active = n + 1 \/ Active = n + 2
                          /\ Switching => Active = n + 2
                          /\ Holding(1 - lane) /\ pc[1 - lane] # "locate" => Active = n + 1
  BY <1>1, SenderTurn, SenderActive
<1>4. /\ extent[lane] = [first |-> Masked(Begin(n)), count |-> Size(n)]
      /\ Size(n) \in 0 .. MaxPairs /\ n + 2 <= Len(cuts)
      /\ \A x \in Begin(n) .. Begin(n + 1) - 1 : bank[b][Masked(x)] = x
  BY <1>1 DEF Located
<1>5. /\ extent[lane].first = Masked(Begin(n)) /\ extent[lane].count = Size(n)
  BY <1>4
<1> HIDE DEF n, b
<1>6. bank[b] \in [Cells -> Int] /\ bank \in [Banks -> [Cells -> Int]]
  BY <1>1, <1>3 DEF DataTypes
<1>7. /\ bank'[b] = Grouped(bank[b], Masked(Begin(n)), Size(n))
      /\ \A c \in Banks : c # b => bank'[c] = bank[c]
  BY <1>2, <1>3, <1>5, <1>6, Update, Zenon
<1>8. Read(bank'[b], Masked(Begin(n)), Size(n)) = Pairs(n)
  <2>1. Begin(n) \in Nat /\ Begin(n + 1) \in Nat
    <3>1. n \in 0 .. Active /\ n + 1 \in 0 .. Active
      BY <1>1, <1>3, <1>4, ActiveType
    <3> QED
      BY <1>1, <3>1, ActiveType
  <2>2. Begin(n) + Size(n) - 1 = Begin(n + 1) - 1
    BY <2>1 DEF Size
  <2>3. \A x \in Begin(n) .. Begin(n) + Size(n) - 1 : bank[b][Masked(x)] = x
    BY <1>4, <2>2
  <2>4. Read(Grouped(bank[b], Masked(Begin(n)), Size(n)), Masked(Begin(n)), Size(n))
           = [k \in 1 .. Size(n) |-> Begin(n) + k - 1]
    BY <1>4, <1>6, <2>1, <2>3, GroupReads
  <2> QED
    BY <1>7, <2>4 DEF Pairs
<1>9. bank' \in [Banks -> [Cells -> Int]]
  <2>1. Masked(Begin(n)) \in Cells /\ Size(n) \in Nat
    <3>1. n \in 0 .. Active
      BY <1>1, <1>3, <1>4, ActiveType
    <3>2. Begin(n) \in Int
      BY <1>1, <3>1, ActiveType
    <3> QED
      BY <1>4, <3>2, MaskType
  <2>2. Grouped(bank[b], Masked(Begin(n)), Size(n)) \in [Cells -> Int]
    BY <1>6, <2>1, GroupedType
  <2>3. bank' = [bank EXCEPT ![b] = Grouped(bank[b], Masked(Begin(n)), Size(n))]
    BY <1>2, <1>5
  <2> QED
    BY <1>3, <1>6, <2>2, <2>3, Update, Zenon
<1>10. DataTypes'
  BY <1>1, <1>2, <1>9 DEF DataTypes
<1>11. Running'
  <2>1. pc'[0] \in {"idle", "joining"} => pc[0] \in {"idle", "joining"}
    BY <1>1, <1>2 DEF Lanes
  <2>2. \A l \in Lanes : Holding(l)' => status = "OK"
    BY <1>1, <1>2 DEF Running, Holding
  <2> QED
    BY <1>1, <1>2, <2>1, <2>2 DEF Running
<1>12. /\ Switching' = Switching /\ Active' = Active /\ \A k : Begin(k)' = Begin(k)
       /\ \A l \in Lanes : Holding(l)' = Holding(l) /\ Mine(l)' = Mine(l)
  BY <1>1, <1>2 DEF Switching, Lanes, Active, Begin, Holding, Mine
<1>13. Piped'
  BY <1>2, <1>12 DEF DataInv, Piped
<1>14. SettledInv'
  BY <1>1, <1>2 DEF DataInv, SettledInv, Mine, Sending
<1>15. Filling'
  <2> SUFFICES ASSUME ~stopped PROVE bank'[Spot(Active)] = bank[Spot(Active)]
    BY <1>2, <1>12 DEF DataInv, Filling, Landed
  <2>1. Active = n + 1 \/ Active = n + 2
    BY <1>1, <1>3 DEF Running
  <2> QED
    BY <1>1, <1>3, <1>7, <2>1, ActiveType, SpotApart
<1>16. Polled'
  BY <1>1, <1>2, <1>12 DEF DataInv, Polled
<1>17. Prepared'
  <2> SUFFICES ASSUME NEW l \in Lanes, pc[l] \in {"check", "poll", "measure", "switch"}
               PROVE  bank'[Spot(Active + 1)] = bank[Spot(Active + 1)]
    BY <1>1, <1>2, <1>12 DEF DataInv, Prepared
  <2>1. Holding(l) /\ l = 1 - lane
    BY <1>1 DEF Holding, Lanes
  <2>2. Active + 1 = n + 2
    BY <1>1, <1>3, <2>1 DEF Running
  <2>3. Active + 1 \in Nat
    BY <1>1, ActiveType
  <2> QED
    BY <1>3, <1>7, <2>2, <2>3, SpotApart
<1>18. Leaving'
  <2> SUFFICES ASSUME NEW l \in Lanes, pc[l] = "locate"
               PROVE  bank'[Spot(Active - 1)] = bank[Spot(Active - 1)]
    BY <1>1, <1>2, <1>12 DEF DataInv, Leaving, Landed
  <2>1. Active - 1 = n + 1
    BY <1>1, <1>3 DEF Running, Holding, Switching, Lanes
  <2> QED
    BY <1>3, <1>7, <2>1, SpotApart
<1>19. ASSUME NEW l \in Lanes PROVE Located(l)'
  <2>1. CASE l = lane
    <3>1. Sequence(l)' = n /\ Mine(l)' = b /\ \A k : Pairs(k)' = Pairs(k)
      BY <1>2, <2>1 DEF Sequence, Mine, n, b, Pairs, Size, Begin
    <3>2. n + 2 <= Len(cuts') /\ extent'[l].first = Masked(Begin(n)) /\ extent'[l].count = Size(n)
      BY <1>2, <1>4, <1>5, <2>1
    <3>3. pc'[l] = "transmit"
      BY <1>2, <2>1
    <3> QED
      BY <1>8, <2>1, <3>1, <3>2, <3>3 DEF Located
  <2>2. CASE l # lane
    <3>1. Located(l) /\ pc'[l] = pc[l]
      BY <1>2, <2>2 DEF DataInv
    <3>2. Mine(l) # b /\ Mine(l) \in Banks
      BY <1>1, <2>2, MineSpot DEF b, TypeOK, Lanes
    <3>3. bank'[Mine(l)] = bank[Mine(l)]
      BY <1>7, <3>2
    <3>4. Sequence(l)' = Sequence(l) /\ Mine(l)' = Mine(l)
      BY <1>2 DEF Sequence, Mine
    <3>5. \A k : Pairs(k)' = Pairs(k) /\ Size(k)' = Size(k) /\ Begin(k)' = Begin(k)
      BY <1>2 DEF Pairs, Size, Begin
    <3> QED
      BY <1>2, <3>1, <3>3, <3>4, <3>5 DEF Located
  <2> QED
    BY <2>1, <2>2
<1>20. SentExactly'
  BY <1>2 DEF DataInv, SentExactly
<1> QED
  BY <1>10, <1>11, <1>13, <1>14, <1>15, <1>16, <1>17, <1>18, <1>19, <1>20 DEF DataInv

(* Sentinels laid ahead of the next unit are where its end will be sought. *)
LEMMA FilledBlank ==
    ASSUME NEW m \in [Cells -> Int], NEW at \in Int, NEW count \in Int
    PROVE  /\ Filled(m, at, count) \in [Cells -> Int]
           /\ count <= Ring => \A k \in 0 .. count - 1 : Filled(m, at, count)[Masked(at + k)] = Sentinel
<1>1. Filled(m, at, count) \in [Cells -> Int]
  <2>1. Sentinel \in Int
    BY DEF Sentinel
  <2> HIDE DEF Sentinel
  <2>2. \A i \in Cells : m[i] \in Int
    OBVIOUS
  <2> QED
    BY <2>1, <2>2, Zenon DEF Filled
<1>2. ASSUME count <= Ring, NEW k \in 0 .. count - 1
      PROVE  Filled(m, at, count)[Masked(at + k)] = Sentinel
  <2> DEFINE x == at + k
             c == -at
  <2>1. x \in Int /\ c \in Int /\ x + c = k /\ k \in Cells
    BY <1>2, RingAssumption DEF RingAssumption, Cells
  <2> HIDE DEF x, c
  <2>2. Masked(x) \in Cells /\ Masked(Masked(x) + c) = k
    BY <2>1, MaskTwice, MaskType, MaskSmall
  <2>3. Masked(x) + c = Masked(x) - at
    BY <2>1, MaskType DEF c
  <2>4. Masked(Masked(x) - at) < count
    BY <2>2, <2>3
  <2> HIDE DEF Sentinel
  <2>5. Filled(m, at, count)[Masked(x)] = Sentinel
    BY <2>2, <2>4, Zenon DEF Filled
  <2> QED
    BY <2>5 DEF x
<1> QED
  BY <1>1, <1>2

LEMMA PrepareData ==
    ASSUME IInv, DataInv, NEW lane \in Lanes, NEW byte \in BOOLEAN, Prepare(lane, byte)
    PROVE  DataInv'
<1> DEFINE b == Mine(lane)
           next == After(b)
           probe == Masked(start[b] + Threshold)
           endProbe == Masked(probe + Threshold)
           filled == Filled(Filled(bank[next], probe, StartGuard), endProbe, EndGuard)
<1>1. /\ TypeOK /\ lane \in {0, 1} /\ pc[lane] = "prepare" /\ Holding(lane) /\ Running /\ DataTypes
      /\ status = "OK"
  BY DEF Prepare, IInv, DataInv, Lanes, Holding, Running
<1>2. /\ UNCHANGED <<unit, stopped, status, started, running, pos, pipeline, cuts,
                     start, write_index, extent, line>>
      /\ bank' = [bank EXCEPT ![next] = filled]
      /\ end_probe' = [end_probe EXCEPT ![next] = endProbe]
      /\ pc'[lane] = "check" /\ \A l \in Lanes : l # lane => pc'[l] = pc[l]
  <2>1. bank_select = Mine(lane) /\ ~busy[After(Mine(lane))]
    BY <1>1, PrepareOwns
  <2> QED
    BY <1>1, <2>1, Moves DEF Prepare, joining, handoff, locals, writer, ghosts
<1>3. /\ Active \in Nat /\ Active = Turn /\ b = Spot(Active) /\ next = Spot(Active + 1)
      /\ ~Holding(1 - lane) /\ ~Switching /\ b \in Banks /\ next \in Banks /\ b # next
  <2>1. /\ Turn \in Nat /\ b = Spot(Turn) /\ next = Spot(Turn + 1) /\ Active = Turn
        /\ ~Holding(1 - lane) /\ ~Switching
    BY <1>1, HolderActive
  <2> HIDE DEF b, next
  <2> QED
    BY <2>1, SpotNext
<1>4. start[b] \in Int /\ probe \in Int /\ endProbe \in Int
  <2>1. start[b] \in Int /\ Threshold \in Int
    BY <1>1, <1>3, RingAssumption DEF DataTypes, RingAssumption
  <2>2. start[b] + Threshold \in Int
    BY <2>1
  <2>3. probe \in Int
    BY <2>2, MaskType
  <2>4. probe + Threshold \in Int
    BY <2>1, <2>3
  <2> QED
    BY <2>1, <2>3, <2>4, MaskType
<1>5. /\ filled \in [Cells -> Int]
      /\ \A k \in 0 .. EndGuard - 1 : filled[Masked(endProbe + k)] = Sentinel
  <2>1. bank[next] \in [Cells -> Int]
    BY <1>1, <1>3 DEF DataTypes
  <2>2. EndGuard \in Int /\ EndGuard <= Ring /\ StartGuard \in Int
    BY RingAssumption, GeometryAssumption DEF RingAssumption, GeometryAssumption
  <2>3. Filled(bank[next], probe, StartGuard) \in [Cells -> Int]
    BY <1>4, <2>1, <2>2, FilledBlank
  <2> QED
    BY <1>4, <2>2, <2>3, FilledBlank
<1> HIDE DEF b, next, probe, endProbe, filled
<1>6. /\ bank'[next] = filled /\ bank' \in [Banks -> [Cells -> Int]]
      /\ \A c \in Banks : c # next => bank'[c] = bank[c]
      /\ end_probe'[next] = endProbe /\ end_probe' \in [Banks -> Int]
      /\ \A c \in Banks : c # next => end_probe'[c] = end_probe[c]
  <2>1. bank \in [Banks -> [Cells -> Int]] /\ end_probe \in [Banks -> Int]
    BY <1>1 DEF DataTypes
  <2>2. /\ bank'[next] = filled /\ bank' \in [Banks -> [Cells -> Int]]
        /\ \A c \in Banks : c # next => bank'[c] = bank[c]
    BY <1>2, <1>3, <1>5, <2>1, Update, Zenon
  <2>3. /\ end_probe'[next] = endProbe /\ end_probe' \in [Banks -> Int]
        /\ \A c \in Banks : c # next => end_probe'[c] = end_probe[c]
    BY <1>2, <1>3, <1>4, <2>1, Update, Zenon
  <2> QED
    BY <2>2, <2>3
<1>7. DataTypes'
  BY <1>1, <1>2, <1>6 DEF DataTypes
<1>8. Running'
  BY <1>1, <1>2, StaysRunning DEF Points
<1>9. /\ Switching' = Switching /\ Active' = Active /\ \A k : Begin(k)' = Begin(k)
      /\ \A l \in Lanes : pc[l] = "locate" \/ pc'[l] \in {"measure", "switch", "locate"} => FALSE
      /\ \A l \in Lanes : pc'[l] \in Sending => l = 1 - lane /\ pc[l] = pc'[l]
  BY <1>1, <1>2, <1>3 DEF Switching, Lanes, Active, Begin, Holding, Sending
<1>10. Piped'
  BY <1>2, <1>9 DEF DataInv, Piped
<1>11. SettledInv'
  BY <1>2, <1>9 DEF DataInv, SettledInv, Mine
<1>12. Filling'
  <2>1. bank'[Spot(Active)] = bank[Spot(Active)] /\ end_probe'[Spot(Active)] = end_probe[Spot(Active)]
    BY <1>3, <1>6
  <2> QED
    BY <1>2, <1>9, <2>1 DEF DataInv, Filling, Landed
<1>13. Polled' /\ Leaving'
  BY <1>9 DEF Polled, Leaving
<1>14. Prepared'
  BY <1>3, <1>5, <1>6, <1>9 DEF Prepared
<1>15. ASSUME NEW l \in Lanes PROVE Located(l)'
  <2> SUFFICES ASSUME pc'[l] \in Sending PROVE Located(l)'
    BY DEF Located, Sending
  <2>1. Located(l) /\ pc'[l] = pc[l] /\ l = 1 - lane
    BY <1>9 DEF DataInv
  <2>2. Mine(l) # next /\ Mine(l) \in Banks
    <3>1. /\ Sequence(l) \in Nat /\ Mine(l) = Spot(Sequence(l)) /\ Mine(l) \in Banks
          /\ Active = Sequence(l) + 1
      BY <1>1, <1>3, <2>1, SenderTurn, SenderActive
    <3>2. Active + 1 = Sequence(l) + 2
      BY <3>1
    <3> QED
      BY <1>3, <3>1, <3>2, SpotApart
  <2>3. bank'[Mine(l)] = bank[Mine(l)]
    BY <1>6, <2>2
  <2>4. Sequence(l)' = Sequence(l) /\ Mine(l)' = Mine(l)
    BY <1>2 DEF Sequence, Mine
  <2>5. \A k : Pairs(k)' = Pairs(k) /\ Size(k)' = Size(k) /\ Begin(k)' = Begin(k)
    BY <1>2 DEF Pairs, Size, Begin
  <2> QED
    BY <1>2, <2>1, <2>3, <2>4, <2>5 DEF Located
<1>16. SentExactly'
  BY <1>2 DEF DataInv, SentExactly
<1> QED
  BY <1>7, <1>8, <1>10, <1>11, <1>12, <1>13, <1>14, <1>15, <1>16 DEF DataInv

(* The writer is moved on: the unit it leaves is the one to be located,    *)
(* the next one is empty.                                                  *)
LEMMA SwitchData == ASSUME IInv, DataInv, NEW lane \in Lanes, Switch(lane) PROVE DataInv'
<1>0. PICK a : a = Active
  OBVIOUS
<1>1. /\ TypeOK /\ lane \in {0, 1} /\ pc[lane] = "switch" /\ Holding(lane) /\ Running /\ DataTypes
      /\ status = "OK" /\ ~stopped /\ cuts \in Seq(Nat)
  BY DEF Switch, IInv, StopInv, DataInv, Lanes, Holding, Running
<1>2. /\ UNCHANGED <<unit, status, started, pos, pipeline, bank, end_probe,
                     start, write_index, extent, line>>
      /\ cuts' = Append(cuts, pos)
      /\ running' = FALSE \/ (running' = running /\ stopped' = stopped)
      /\ stopped' = stopped \/ stopped' = TRUE
      /\ pc'[lane] = "locate" /\ \A l \in Lanes : l # lane => pc'[l] = pc[l]
  BY <1>1, Moves DEF Switch, MoveWriter, EndWriting, joining, locals
<1>3. /\ a \in Nat /\ Len(cuts) = a + 1 /\ pos \in Nat /\ ~Switching /\ ~Holding(1 - lane)
      /\ Begin(a) <= pos /\ Begin(a) \in Nat
  BY <1>0, <1>1, ActiveType, HolderActive
<1>4. Len(cuts') = a + 2 /\ cuts'[a + 2] = pos /\ \A k \in 1 .. a + 1 : cuts'[k] = cuts[k]
  <2>1. pos \in Nat
    BY <1>3
  <2> QED
    BY <1>1, <1>2, <1>3, <2>1
<1>5. /\ Active' = a + 1 /\ Begin(a + 1)' = pos /\ Switching' /\ Active' - 1 = a
      /\ \A k \in 0 .. a : Begin(k)' = Begin(k)
  <2>1. a + 1 + 1 = a + 2 /\ \A k \in 0 .. a : k + 1 \in 1 .. a + 1
    BY <1>3
  <2>2. Active' = a + 1
    BY <1>3, <1>4 DEF Active
  <2>3. Switching'
    BY <1>1, <1>2 DEF Switching
  <2> QED
    BY <1>3, <1>4, <2>1, <2>2, <2>3 DEF Begin
<1>6. /\ Spot(a) \in Banks /\ Spot(a + 1) \in Banks /\ Spot(a) # Spot(a + 1)
  BY <1>3, SpotNext
<1>7. DataTypes'
  BY <1>1, <1>2 DEF DataTypes
<1>8. Running'
  <2>1. \A l \in Lanes : Holding(l)' => status' = "OK"
    BY <1>1, <1>2
  <2>2. pc'[0] \in {"idle", "joining"} => pc[0] \in {"idle", "joining"}
    BY <1>1, <1>2 DEF Lanes
  <2>3. Len(cuts') >= 1 /\ cuts'[Len(cuts')] <= pos
    BY <1>3, <1>4
  <2>4. running' => started' /\ ~stopped'
    BY <1>1, <1>2 DEF Running
  <2>5. (pc'[0] \in {"idle", "joining"} => ~running') /\ (status' # "OK" => stopped')
    BY <1>1, <1>2, <2>2 DEF Running
  <2> QED
    BY <1>2, <2>1, <2>3, <2>4, <2>5 DEF Running
<1>9. pipeline # NoPair => /\ pipeline \in [bank : Banks, pair : Nat] /\ pipeline.pair = pos - 1
                           /\ pipeline.bank = Spot(a) /\ Begin(a) < pos
  BY <1>0, <1>1, <1>3 DEF DataInv, Piped
<1>10. Piped'
  BY <1>2, <1>3, <1>5, <1>9 DEF Piped
<1>11. SettledInv'
  <2>1. \A l \in Lanes : pc'[l] \in Sending => pc[l] \in Sending
    BY <1>2 DEF Sending
  <2> QED
    BY <1>2, <2>1 DEF DataInv, SettledInv, Mine
<1>12. ASSUME NEW l \in Lanes
       PROVE  /\ pc'[l] \notin {"check", "poll", "measure", "switch"}
              /\ pc'[l] = "locate" => l = lane
  BY <1>1, <1>2, <1>3 DEF Holding, Lanes
<1>13. Polled' /\ Prepared'
  BY <1>12 DEF Polled, Prepared
<1>14. Kept(bank[Spot(a + 1)], end_probe[Spot(a + 1)], EndGuard, pos, pos)
  <2>1. \A k \in 0 .. EndGuard - 1 :
           bank[Spot(a + 1)][Masked(end_probe[Spot(a + 1)] + k)] = Sentinel
    BY <1>0, <1>1 DEF DataInv, Prepared
  <2>2. \A x \in pos .. pos - 1 : FALSE
    BY <1>3
  <2> QED
    BY <2>1, <2>2, Zenon DEF Kept, Holds, Marked
<1>15. Filling'
  <2>1. Landed(a + 1, pos)' = pos /\ Guard(a + 1) = EndGuard /\ Guard(a + 1)' = Guard(a + 1)
    BY <1>2, <1>3, <1>6, <1>9 DEF Landed, Guard
  <2> QED
    BY <1>2, <1>5, <1>14, <2>1 DEF Filling
<1>16. Leaving'
  <2>1. /\ Kept(bank[Spot(a)], end_probe[Spot(a)], Guard(a), Begin(a), Landed(a, pos))
        /\ start[Spot(a)] = Masked(Begin(a))
    BY <1>0, <1>1, <1>3 DEF DataInv, Filling
  <2>2. \E w \in Begin(a) .. pos : write_index[lane] = Masked(w)
    BY <1>0, <1>1 DEF DataInv, Polled
  <2>3. /\ Active' >= 1 /\ Active' - 1 = a /\ Begin(a)' = Begin(a) /\ Begin(Active)' = pos
        /\ Landed(a, pos)' = Landed(a, pos)
    BY <1>2, <1>3, <1>5 DEF Landed
  <2> QED
    BY <1>2, <1>12, <2>1, <2>2, <2>3 DEF Leaving, Landed
<1>17. ASSUME NEW l \in Lanes PROVE Located(l)'
  <2> SUFFICES ASSUME pc'[l] \in Sending PROVE Located(l)'
    BY DEF Located, Sending
  <2>1. Located(l) /\ pc'[l] = pc[l]
    BY <1>2 DEF DataInv, Sending
  <2>2. Sequence(l)' = Sequence(l) /\ Mine(l)' = Mine(l)
    BY <1>2 DEF Sequence, Mine
  <2> PICK n : n = Sequence(l)
    OBVIOUS
  <2>3. n \in Nat /\ n + 2 <= Len(cuts)
    BY <2>1, SenderTurn DEF Located
  <2>4. Begin(n)' = Begin(n) /\ Begin(n + 1)' = Begin(n + 1) /\ n + 2 <= Len(cuts')
    BY <1>3, <1>4, <1>5, <2>3
  <2>5. Size(n)' = Size(n) /\ Pairs(n)' = Pairs(n)
    BY <2>4 DEF Size, Pairs
  <2>6. Located(l)' = (LET k == n
    IN  /\ pc'[l] \in Sending => k + 2 <= Len(cuts')
        /\ pc'[l] = "group" =>
              /\ extent'[l] = [first |-> Masked(Begin(k)'), count |-> Size(k)']
              /\ Size(k)' \in 0 .. MaxPairs
              /\ \A x \in Begin(k)' .. Begin(k + 1)' - 1 : bank'[Mine(l)'][Masked(x)] = x
        /\ pc'[l] = "transmit" =>
              Read(bank'[Mine(l)'], extent'[l].first, extent'[l].count) = Pairs(k)')
    BY <2>2 DEF Located
  <2> QED
    BY <1>2, <2>1, <2>2, <2>3, <2>4, <2>5, <2>6 DEF Located
<1>18. SentExactly'
  <2> SUFFICES ASSUME NEW l \in Lanes, line'[l] # NoUnit
               PROVE  LET s == line'[l].sequence
                      IN  /\ s + 2 <= Len(cuts')
                          /\ line'[l].pairs = [k \in 1 .. cuts'[s + 2] - cuts'[s + 1]
                                                  |-> cuts'[s + 1] + k - 1]
    BY DEF SentExactly
  <2> DEFINE s == line[l].sequence
  <2>1. /\ line'[l] = line[l] /\ s \in Nat /\ s + 2 <= Len(cuts)
        /\ line[l].pairs = [k \in 1 .. cuts[s + 2] - cuts[s + 1] |-> cuts[s + 1] + k - 1]
    BY <1>1, <1>2 DEF DataInv, DataTypes, SentExactly
  <2> HIDE DEF s
  <2>2. s + 2 <= Len(cuts') /\ cuts'[s + 2] = cuts[s + 2] /\ cuts'[s + 1] = cuts[s + 1]
    BY <1>3, <1>4, <2>1
  <2>3. line'[l].sequence = s
    BY <2>1 DEF s
  <2> QED
    BY <2>1, <2>2, <2>3, Zenon
<1> QED
  BY <1>7, <1>8, <1>10, <1>11, <1>13, <1>15, <1>16, <1>17, <1>18 DEF DataInv

(* What locating does: it fails, or it has found both ends of the unit.    *)
LEMMA LocateDoes ==
    ASSUME TypeOK, NEW lane \in Lanes, Locate(lane)
    PROVE  LET b == Mine(lane)
               end == FindEnd(bank[b], end_probe[b], write_index[lane], Guard(Sequence(lane)))
               count == Masked(end - start[b])
           IN  \/ \E code \in {"END", "START", "LENGTH"} : Fail(lane, code)
               \/ /\ end # NotFound /\ ~(count > MaxPairs)
                  /\ start' = IF last[lane] THEN start ELSE [start EXCEPT ![After(b)] = end]
                  /\ extent' = [extent EXCEPT ![lane] = [first |-> start[b], count |-> count]]
                  /\ pc'[lane] = "group" /\ \A l \in Lanes : l # lane => pc'[l] = pc[l]
                  /\ UNCHANGED <<unit, stopped, status, started, running, bank, pos, pipeline, cuts,
                                 end_probe, write_index, line>>
<1> DEFINE b == Mine(lane)
           end == FindEnd(bank[b], end_probe[b], write_index[lane], Guard(Sequence(lane)))
           probe == IF Sequence(lane) = 0 THEN 0 ELSE start_probe[b]
           skip == FindFirstWritten(bank[b], probe)
           begin == Masked(probe + skip)
           count == Masked(end - begin)
           verdict == CASE end = NotFound -> "END"
                        [] end # NotFound /\ (skip >= StartGuard \/ begin # start[b]) -> "START"
                        [] OTHER -> IF count < Threshold \/ count > MaxPairs THEN "LENGTH" ELSE "OK"
           next == After(b)
<1>1. /\ IF verdict # "OK"
         THEN Fail(lane, verdict)
         ELSE /\ IF last[lane] THEN UNCHANGED <<start, valid>>
                 ELSE /\ start' = [start EXCEPT ![next] = end]
                      /\ valid' = [valid EXCEPT ![next] = TRUE]
              /\ extent' = [extent EXCEPT ![lane] = [first |-> begin, count |-> count]]
              /\ Go(lane, "group")
              /\ UNCHANGED <<unit, joining, stopped, stop_requested, status, fail_lane, busy,
                             start_probe, end_probe, epoch, write_index, switched, last, writer,
                             bank, ghosts>>
  BY Zenon DEF Locate, Guard
<1> HIDE DEF end, skip, begin, count, next
<1>2. CASE verdict # "OK"
  <2>1. verdict \in {"END", "START", "LENGTH"}
    BY <1>2
  <2> QED
    BY <1>1, <1>2, <2>1, Zenon
<1>3. CASE verdict = "OK"
  <2>1. end # NotFound /\ begin = start[b] /\ ~(count > MaxPairs)
    BY <1>3
  <2>2. count = Masked(end - start[b])
    BY <2>1 DEF count
  <2>3. /\ start' = IF last[lane] THEN start ELSE [start EXCEPT ![next] = end]
        /\ extent' = [extent EXCEPT ![lane] = [first |-> begin, count |-> count]]
        /\ Go(lane, "group")
        /\ UNCHANGED <<unit, joining, stopped, status, end_probe, write_index, writer, bank, ghosts>>
    BY <1>1, <1>3
  <2>4. pc'[lane] = "group" /\ \A l \in Lanes : l # lane => pc'[l] = pc[l]
    BY <2>3, Moves
  <2>5. UNCHANGED <<unit, stopped, status, started, running, bank, pos, pipeline, cuts,
                    end_probe, write_index, line>>
    BY <2>3 DEF joining, writer, ghosts
  <2> QED
    BY <2>1, <2>2, <2>3, <2>4, <2>5 DEF end, next
<1> QED
  BY <1>2, <1>3

LEMMA LocateData == ASSUME IInv, DataInv, NEW lane \in Lanes, Locate(lane) PROVE DataInv'
<1>1. /\ TypeOK /\ lane \in {0, 1} /\ pc[lane] = "locate" /\ Holding(lane) /\ Running /\ DataTypes
      /\ pipeline # NoPair => pipeline.bank # Mine(lane)
      /\ stopped <=> last[lane]
  BY DEF Locate, Settled, IInv, StopInv, DataInv, Lanes, Holding
<1>2. PICK t : t = Turn
  OBVIOUS
<1>3. /\ t \in Nat /\ t + 1 \in Nat /\ t + 1 - 1 = t
      /\ Sequence(lane) = t /\ Mine(lane) = Spot(t) /\ After(Mine(lane)) = Spot(t + 1)
      /\ Active = t + 1 /\ Len(cuts) = t + 2 /\ ~Holding(1 - lane) /\ Switching
      /\ Spot(t) \in Banks /\ Spot(t + 1) \in Banks /\ Spot(t) # Spot(t + 1)
  <2>1. /\ t \in Nat /\ Sequence(lane) = t /\ Mine(lane) = Spot(t) /\ After(Mine(lane)) = Spot(t + 1)
        /\ Active = t + 1 /\ ~Holding(1 - lane) /\ Switching
    BY <1>1, <1>2, HolderActive
  <2>2. Len(cuts) = Active + 1
    BY <1>1, ActiveType
  <2> QED
    BY <2>1, <2>2, SpotNext
<1>4. PICK from \in Nat, to \in Nat : from = Begin(t) /\ to = Begin(t + 1) /\ to <= pos
  <2>1. t \in 0 .. Active /\ t + 1 \in 0 .. Active
    BY <1>3
  <2> QED
    BY <1>1, <1>3, <2>1, ActiveType
<1> DEFINE m == bank[Spot(t)]
           probe == end_probe[Spot(t)]
           end == FindEnd(m, probe, write_index[lane], Guard(t))
           count == Masked(end - start[Spot(t)])
<1>5. CASE \E code \in {"END", "START", "LENGTH"} : Fail(lane, code)
  BY <1>1, <1>5, FailData DEF Codes
<1>6. CASE ~\E code \in {"END", "START", "LENGTH"} : Fail(lane, code)
  <2>1. /\ end # NotFound /\ ~(count > MaxPairs)
        /\ start' = IF last[lane] THEN start ELSE [start EXCEPT ![Spot(t + 1)] = end]
        /\ extent' = [extent EXCEPT ![lane] = [first |-> start[Spot(t)], count |-> count]]
        /\ pc'[lane] = "group" /\ \A l \in Lanes : l # lane => pc'[l] = pc[l]
        /\ UNCHANGED <<unit, stopped, status, started, running, bank, pos, pipeline, cuts,
                       end_probe, write_index, line>>
    BY <1>1, <1>3, <1>6, LocateDoes, Zenon
  <2>2. /\ Holds(m, from, to) /\ Marked(m, probe, Guard(t), from, to)
        /\ start[Spot(t)] = Masked(from)
        /\ \E w \in from .. to : write_index[lane] = Masked(w)
    <3>1. Landed(t, to) = to
      BY <1>1, <1>3 DEF Landed
    <3> QED
      BY <1>1, <1>3, <1>4, <3>1 DEF DataInv, Leaving, Kept
  <2>3. PICK w \in from .. to : write_index[lane] = Masked(w)
    BY <2>2
  <2>4. Guard(t) \in Int /\ Guard(t) <= Ring
    BY RingAssumption, GeometryAssumption DEF Guard, RingAssumption, GeometryAssumption
  <2>5. m \in [Cells -> Int] /\ probe \in Int
    BY <1>1, <1>3 DEF DataTypes
  <2> HIDE DEF m, probe
  <2>6. end = Masked(to) /\ to < from + Ring
    <3>1. end = FindEnd(m, probe, Masked(w), Guard(t))
      BY <2>3
    <3> HIDE DEF end
    <3>2. FindEnd(m, probe, Masked(w), Guard(t)) # NotFound
      BY <2>1, <3>1
    <3>3. /\ FindEnd(m, probe, Masked(w), Guard(t)) = Masked(to) /\ to < from + Ring
      BY <2>2, <2>4, <2>5, <3>2, FindsEnd
    <3> QED
      BY <3>1, <3>3
  <2> HIDE DEF end
  <2>7. count = to - from /\ from <= to
    <3>1. from <= to /\ from \in Int /\ to \in Int
      BY <2>3
    <3>2. Masked(Masked(to) - Masked(from)) = to - from
      BY <2>6, <3>1, MaskCount
    <3> QED
      BY <2>2, <2>6, <3>1, <3>2
  <2> HIDE DEF count
  <2>8. Masked(to) \in Int /\ Masked(from) \in Int
    <3>1. to \in Int /\ from \in Int
      OBVIOUS
    <3> QED
      BY <3>1, MaskType
  <2>9. extent'[lane] = [first |-> Masked(from), count |-> to - from]
        /\ extent' \in [Lanes -> [first : Int, count : Int]]
        /\ \A l \in Lanes : l # lane => extent'[l] = extent[l]
    <3>1. extent' = [extent EXCEPT ![lane] = [first |-> Masked(from), count |-> to - from]]
      BY <2>1, <2>2, <2>7
    <3>2. [first |-> Masked(from), count |-> to - from] \in [first : Int, count : Int]
      BY <2>8
    <3>3. extent \in [Lanes -> [first : Int, count : Int]]
      BY <1>1 DEF DataTypes
    <3> QED
      BY <3>1, <3>2, <3>3, Update, Zenon
  <2>10. /\ start' \in [Banks -> Int]
         /\ ~stopped => start'[Spot(t + 1)] = Masked(to)
    <3>1. start \in [Banks -> Int]
      BY <1>1 DEF DataTypes
    <3>2. CASE last[lane]
      BY <1>1, <2>1, <3>1, <3>2
    <3>3. CASE ~last[lane]
      <4>1. start' = [start EXCEPT ![Spot(t + 1)] = Masked(to)]
        BY <2>1, <2>6, <3>3
      <4> QED
        BY <1>3, <2>8, <3>1, <4>1, Update, Zenon
    <3> QED
      BY <3>2, <3>3
  <2>11. DataTypes'
    BY <1>1, <2>1, <2>9, <2>10 DEF DataTypes
  <2>12. Running'
    BY <1>1, <2>1, StaysRunning DEF Points
  <2>13. /\ ~Switching' /\ Active' = t + 1 /\ \A k : Begin(k)' = Begin(k)
         /\ \A l \in Lanes : pc'[l] \notin {"check", "poll", "measure", "switch", "locate"}
    BY <1>1, <1>3, <2>1 DEF Switching, Lanes, Active, Begin, Holding
  <2>14. Piped'
    BY <1>1, <1>3, <2>1, <2>13 DEF DataInv, Piped
  <2>15. SettledInv'
    <3>1. \A l \in Lanes : l # lane /\ pc'[l] \in Sending => pc[l] \in Sending
      BY <2>1
    <3> QED
      BY <1>1, <2>1, <3>1 DEF DataInv, SettledInv, Mine
  <2>16. Filling'
    BY <1>3, <1>4, <2>1, <2>10, <2>13 DEF DataInv, Filling, Landed
  <2>17. Polled' /\ Prepared' /\ Leaving'
    BY <2>13 DEF Polled, Prepared, Leaving
  <2>18. ASSUME NEW l \in Lanes PROVE Located(l)'
    <3>1. Sequence(l)' = Sequence(l) /\ Mine(l)' = Mine(l)
      BY <2>1 DEF Sequence, Mine
    <3>2. \A k : Pairs(k)' = Pairs(k) /\ Size(k)' = Size(k) /\ Begin(k)' = Begin(k)
      BY <2>1 DEF Pairs, Size, Begin
    <3>3. CASE l = lane
      <4>1. Size(t) = to - from
        BY <1>4 DEF Size
      <4>2. to - from \in 0 .. MaxPairs
        <5>1. MaxPairs \in Nat
          BY RingAssumption DEF RingAssumption
        <5> QED
          BY <2>1, <2>7, <5>1
      <4>3. ASSUME NEW x \in from .. to - 1 PROVE m[Masked(x)] = x
        <5>1. to <= x + Ring
          BY <2>6, RingAssumption DEF RingAssumption
        <5> QED
          BY <2>2, <5>1 DEF Holds
      <4> QED
        BY <1>3, <1>4, <2>1, <2>9, <3>1, <3>2, <3>3, <4>1, <4>2, <4>3 DEF Located, m
    <3>4. CASE l # lane
      <4>1. Located(l)
        BY DEF DataInv
      <4> QED
        BY <2>1, <2>9, <3>1, <3>2, <3>4, <4>1 DEF Located
    <3> QED
      BY <3>3, <3>4
  <2>19. SentExactly'
    BY <2>1 DEF DataInv, SentExactly
  <2> QED
    BY <2>11, <2>12, <2>14, <2>15, <2>16, <2>17, <2>18, <2>19 DEF DataInv
<1> QED
  BY <1>5, <1>6

LEMMA LandsKept ==
    ASSUME NEW m \in [Cells -> Int], NEW from \in Nat, NEW x \in Nat, from <= x,
           NEW probe \in Int, NEW guard \in Int, Kept(m, probe, guard, from, x)
    PROVE  Kept([m EXCEPT ![Masked(x)] = x], probe, guard, from, x + 1)
BY Lands, LandsMarked DEF Kept

(* The pair in the pipeline completes the unit it was taken for.           *)
LEMMA Stores ==
    ASSUME IInv, DataInv, bank' = Stored
    PROVE  /\ bank' \in [Banks -> [Cells -> Int]]
           /\ ~stopped => Kept(bank'[Spot(Active)], end_probe[Spot(Active)], Guard(Active),
                               Begin(Active), pos)
           /\ Switching =>
                 Kept(bank'[Spot(Active - 1)], end_probe[Spot(Active - 1)], Guard(Active - 1),
                      Begin(Active - 1), Begin(Active))
           /\ \A lane \in Lanes :
                 /\ pc[lane] \in Sending => bank'[Mine(lane)] = bank[Mine(lane)]
                 /\ pc[lane] \in {"check", "poll", "measure", "switch"}
                       => bank'[Spot(Active + 1)] = bank[Spot(Active + 1)]
<1>1. /\ TypeOK /\ Running /\ DataTypes /\ Piped /\ Filling /\ Leaving /\ SettledInv
      /\ bank \in [Banks -> [Cells -> Int]] /\ end_probe \in [Banks -> Int]
  BY DEF IInv, DataInv, DataTypes
<1>2. PICK a \in Nat : a = Active
  BY <1>1, ActiveType
<1>3. /\ pos \in Nat /\ Begin(a) \in Nat /\ Begin(a) <= pos
      /\ \A n \in 0 .. a : Begin(n) \in Nat
      /\ Spot(a) \in Banks /\ Spot(a + 1) \in Banks /\ Spot(a) # Spot(a + 1)
      /\ Switching => a >= 1 /\ a - 1 \in Nat /\ Spot(a - 1) \in Banks /\ Spot(a - 1) # Spot(a)
  <2>1. /\ pos \in Nat /\ Begin(a) \in Nat /\ Begin(a) <= pos /\ \A n \in 0 .. a : Begin(n) \in Nat
    BY <1>1, <1>2, ActiveType
  <2>2. Switching => a >= 1 /\ a - 1 \in Nat
    BY <1>1, <1>2 DEF Switching, Leaving, Lanes
  <2>3. a - 1 \in Nat => Spot(a - 1) \in Banks /\ Spot(a - 1) # Spot(a)
    BY SpotApart
  <2> QED
    BY <2>1, <2>2, <2>3, SpotNext
<1>4. Guard(a) \in Int /\ Guard(a - 1) \in Int
  BY RingAssumption DEF RingAssumption, Guard
<1>5. ~stopped => Kept(bank[Spot(a)], end_probe[Spot(a)], Guard(a), Begin(a), Landed(a, pos))
  BY <1>1, <1>2 DEF Filling
<1>6. Switching => Kept(bank[Spot(a - 1)], end_probe[Spot(a - 1)], Guard(a - 1), Begin(a - 1),
                        Landed(a - 1, Begin(a)))
  BY <1>1, <1>2 DEF Switching, Leaving, Lanes
<1>7. \A lane \in Lanes : pc[lane] \in {"check", "poll", "measure", "switch"} => ~Switching
  BY <1>1, HolderActive DEF Holding
<1>8. CASE pipeline = NoPair
  <2>1. bank' = bank /\ \A n, to : Landed(n, to) = to
    BY <1>8 DEF Stored, Landed
  <2> QED
    BY <1>1, <1>2, <1>5, <1>6, <2>1
<1>9. CASE pipeline # NoPair
  <2>1. /\ pipeline.bank \in Banks /\ pipeline.pair = pos - 1 /\ pos - 1 \in Nat
        /\ \/ pipeline.bank = Spot(a) /\ Begin(a) < pos
           \/ /\ Switching /\ pipeline.bank = Spot(a - 1)
              /\ Begin(a) = pos /\ Begin(a - 1) < pos
    BY <1>1, <1>2, <1>9 DEF Piped
  <2> DEFINE p == pipeline.bank
  <2>2. bank' = [bank EXCEPT ![p] = [bank[p] EXCEPT ![Masked(pos - 1)] = pos - 1]]
    BY <1>9, <2>1 DEF Stored
  <2> HIDE DEF p
  <2>3. p \in Banks /\ bank[p] \in [Cells -> Int] /\ Masked(pos - 1) \in Cells
    <3>1. pos - 1 \in Int
      BY <2>1
    <3> QED
      BY <1>1, <2>1, <3>1, MaskType DEF p
  <2>4. [bank[p] EXCEPT ![Masked(pos - 1)] = pos - 1] \in [Cells -> Int]
    BY <2>1, <2>3
  <2>5. /\ bank' \in [Banks -> [Cells -> Int]]
        /\ bank'[p] = [bank[p] EXCEPT ![Masked(pos - 1)] = pos - 1]
        /\ \A c \in Banks : c # p => bank'[c] = bank[c]
    <3>1. PICK stored : stored = [bank[p] EXCEPT ![Masked(pos - 1)] = pos - 1]
      OBVIOUS
    <3>2. stored \in [Cells -> Int] /\ bank' = [bank EXCEPT ![p] = stored]
      BY <2>2, <2>4, <3>1
    <3>3. /\ bank' \in [Banks -> [Cells -> Int]] /\ bank'[p] = stored
          /\ \A c \in Banks : c # p => bank'[c] = bank[c]
      BY <1>1, <2>3, <3>2
    <3> QED
      BY <3>1, <3>3
  <2>6. ASSUME NEW lane \in Lanes, pc[lane] \in Sending PROVE bank'[Mine(lane)] = bank[Mine(lane)]
    <3>1. Mine(lane) \in Banks /\ Mine(lane) # p
      BY <1>1, <1>9, <2>6, SenderTurn DEF SettledInv, p
    <3> QED
      BY <2>5, <3>1
  <2>7. CASE p = Spot(a) /\ Begin(a) < pos
    <3>1. Landed(a, pos) = pos - 1
      BY <1>9, <2>7 DEF Landed, p
    <3>2. ~stopped => Kept(bank'[Spot(a)], end_probe[Spot(a)], Guard(a), Begin(a), pos)
      <4> SUFFICES ASSUME ~stopped
                   PROVE  Kept(bank'[Spot(a)], end_probe[Spot(a)], Guard(a), Begin(a), pos)
        OBVIOUS
      <4>1. PICK x \in Nat : x = pos - 1 /\ x + 1 = pos /\ Begin(a) <= x
        BY <1>3, <2>1, <2>7
      <4>2. Kept(bank[p], end_probe[p], Guard(a), Begin(a), x)
        BY <1>5, <2>7, <3>1, <4>1
      <4>3. end_probe[p] \in Int
        BY <1>1, <2>3
      <4>4. Kept([bank[p] EXCEPT ![Masked(x)] = x], end_probe[p], Guard(a), Begin(a), x + 1)
        BY <1>3, <1>4, <2>3, <4>1, <4>2, <4>3, LandsKept
      <4> QED
        BY <2>5, <2>7, <4>1, <4>4
    <3>3. Switching => Landed(a - 1, Begin(a)) = Begin(a) /\ bank'[Spot(a - 1)] = bank[Spot(a - 1)]
      BY <1>3, <2>5, <2>7 DEF Landed, p
    <3>4. bank'[Spot(a + 1)] = bank[Spot(a + 1)]
      BY <1>3, <2>5, <2>7
    <3> QED
      BY <1>2, <1>6, <2>5, <2>6, <3>2, <3>3, <3>4
  <2>8. CASE Switching /\ p = Spot(a - 1) /\ Begin(a) = pos /\ Begin(a - 1) < pos
    <3>1. Landed(a - 1, Begin(a)) = pos - 1 /\ Landed(a, pos) = pos
      BY <1>3, <1>9, <2>8 DEF Landed, p
    <3>2. Kept(bank'[Spot(a - 1)], end_probe[Spot(a - 1)], Guard(a - 1), Begin(a - 1), pos)
      <4>1. PICK x \in Nat : x = pos - 1 /\ x + 1 = pos /\ Begin(a - 1) <= x
        <5>1. a - 1 \in 0 .. a
          BY <1>3, <2>8
        <5>2. Begin(a - 1) \in Nat
          BY <1>3, <5>1
        <5> QED
          BY <1>3, <2>1, <2>8, <5>2
      <4>2. Kept(bank[p], end_probe[p], Guard(a - 1), Begin(a - 1), x)
        BY <1>6, <2>8, <3>1, <4>1
      <4>3. end_probe[p] \in Int /\ Begin(a - 1) \in Nat
        <5>1. a - 1 \in 0 .. a
          BY <1>3, <2>8
        <5> QED
          BY <1>1, <1>3, <2>3, <5>1
      <4>4. Kept([bank[p] EXCEPT ![Masked(x)] = x], end_probe[p], Guard(a - 1), Begin(a - 1), x + 1)
        BY <1>4, <2>3, <4>1, <4>2, <4>3, LandsKept
      <4> QED
        BY <2>5, <2>8, <4>1, <4>4
    <3>3. bank'[Spot(a)] = bank[Spot(a)]
      BY <1>3, <2>5, <2>8
    <3> QED
      BY <1>2, <1>5, <1>7, <2>5, <2>6, <2>8, <3>1, <3>2, <3>3
  <2> QED
    BY <2>1, <2>7, <2>8 DEF p
<1> QED
  BY <1>8, <1>9

LEMMA StoreData == ASSUME IInv, DataInv, WritePair \/ LandPair PROVE DataInv'
<1>1. /\ TypeOK /\ Running /\ DataTypes /\ Piped /\ cuts \in Seq(Nat)
      /\ DataInv
  BY DEF IInv, DataInv
<1>2. PICK a \in Nat : a = Active
  BY <1>1, ActiveType
<1>3. /\ pos \in Nat /\ Begin(a) \in Nat /\ Begin(a) <= pos /\ Spot(a) \in Banks
  BY <1>1, <1>2, ActiveType, SpotNext
<1>4. /\ UNCHANGED <<pc, unit, stopped, status, started, running, cuts, end_probe, start,
                     write_index, extent, line>>
      /\ bank' = Stored
      /\ \/ /\ running /\ pos' = pos + 1 /\ pipeline' = [bank |-> bank_select, pair |-> pos]
         \/ pos' = pos /\ pipeline' = NoPair
  BY DEF WritePair, LandPair, control, joining, ending, edges, locals, ghosts
<1>5. running => ~stopped /\ bank_select = Spot(a) /\ status = "OK"
  <2> SUFFICES ASSUME running PROVE ~stopped /\ bank_select = Spot(a) /\ status = "OK"
    OBVIOUS
  <2>1. ~stopped /\ started /\ status = "OK"
    BY <1>1 DEF Running
  <2>2. a = IF Switching THEN Turn + 1 ELSE Turn
    BY <1>1, <1>2, <2>1, ActiveIs
  <2> QED
    BY <2>1, <2>2 DEF IInv, WriterInv
<1>6. pos' \in Nat /\ pos <= pos' /\ pos' \in {pos, pos + 1}
  BY <1>3, <1>4
<1>7. /\ Active' = a /\ \A k : Begin(k)' = Begin(k)
      /\ Switching' = Switching /\ \A l \in Lanes : Mine(l)' = Mine(l) /\ Sequence(l)' = Sequence(l)
  BY <1>2, <1>4 DEF Active, Begin, Switching, Mine, Sequence
<1>8. pipeline' # NoPair => /\ pipeline' = [bank |-> Spot(a), pair |-> pos] /\ pos' = pos + 1
                            /\ running
  BY <1>4, <1>5
<1>9. [bank |-> Spot(a), pair |-> pos] # NoPair
  <2>1. [bank |-> Spot(a), pair |-> pos] \in [bank : 0 .. 3, pair : Nat]
    BY <1>3 DEF Banks
  <2> QED
    BY <2>1, RingAssumption DEF RingAssumption
<1>10. /\ bank' \in [Banks -> [Cells -> Int]]
       /\ ~stopped => Kept(bank'[Spot(a)], end_probe[Spot(a)], Guard(a), Begin(a), pos)
       /\ Switching => Kept(bank'[Spot(a - 1)], end_probe[Spot(a - 1)], Guard(a - 1),
                            Begin(a - 1), Begin(a))
       /\ \A lane \in Lanes :
             /\ pc[lane] \in Sending => bank'[Mine(lane)] = bank[Mine(lane)]
             /\ pc[lane] \in {"check", "poll", "measure", "switch"}
                   => bank'[Spot(a + 1)] = bank[Spot(a + 1)]
  BY <1>2, <1>4, Stores
<1>11. DataTypes'
  BY <1>1, <1>4, <1>10 DEF DataTypes
<1>12. Running'
  <2>1. cuts[Len(cuts)] <= pos'
    BY <1>1, <1>3, <1>6 DEF Running
  <2> QED
    BY <1>1, <1>4, <2>1 DEF Running, Holding
<1>13. Piped'
  <2> SUFFICES ASSUME pipeline' # NoPair
               PROVE  /\ pipeline' \in [bank : Banks, pair : Nat] /\ pipeline'.pair = pos' - 1
                      /\ pipeline'.bank = Spot(a) /\ Begin(a) < pos'
    BY <1>7 DEF Piped
  <2> QED
    BY <1>3, <1>8
<1>14. SettledInv'
  <2> SUFFICES ASSUME NEW l \in Lanes, pc[l] \in Sending, pipeline' # NoPair PROVE Mine(l) # Spot(a)
    BY <1>4, <1>7, <1>8 DEF SettledInv
  <2>1. /\ Sequence(l) \in Nat /\ Mine(l) = Spot(Sequence(l))
        /\ a = Sequence(l) + 1 \/ a = Sequence(l) + 2
    BY <1>1, <1>2, <1>5, <1>8, SenderTurn, SenderActive
  <2> QED
    BY <2>1, SpotApart
<1>15. Filling'
  <2> SUFFICES ASSUME ~stopped
               PROVE  Kept(bank'[Spot(a)], end_probe[Spot(a)], Guard(a), Begin(a), Landed(a, pos)')
                      /\ (~Switching => start[Spot(a)] = Masked(Begin(a)))
    BY <1>4, <1>7 DEF Filling, Landed, Guard
  <2>1. Landed(a, pos)' = pos
    <3>1. CASE pipeline' = NoPair
      <4>1. pos' = pos
        BY <1>4, <1>5, <1>9, <3>1
      <4> QED
        BY <3>1, <4>1 DEF Landed
    <3>2. CASE pipeline' # NoPair
      BY <1>3, <1>8, <3>2 DEF Landed
    <3> QED
      BY <3>1, <3>2
  <2>2. ~Switching => start[Spot(a)] = Masked(Begin(a))
    BY <1>2 DEF DataInv, Filling
  <2> QED
    BY <1>10, <2>1, <2>2
<1>16. Polled'
  <2> SUFFICES ASSUME NEW l \in Lanes, pc[l] \in {"measure", "switch"}
               PROVE  \E w \in Begin(a) .. pos' : write_index[l] = Masked(w)
    BY <1>4, <1>7 DEF Polled
  <2>1. \E w \in Begin(a) .. pos : write_index[l] = Masked(w)
    BY <1>2 DEF DataInv, Polled
  <2> QED
    BY <1>3, <1>6, <2>1
<1>17. Prepared'
  <2>1. Prepared
    BY DEF DataInv
  <2> QED
    BY <1>2, <1>4, <1>7, <1>10, <2>1 DEF Prepared
<1>18. Leaving'
  <2> SUFFICES ASSUME NEW l \in Lanes, pc[l] = "locate"
               PROVE  /\ a >= 1
                      /\ Kept(bank'[Spot(a - 1)], end_probe[Spot(a - 1)], Guard(a - 1),
                              Begin(a - 1), Landed(a - 1, Begin(a))')
                      /\ start[Spot(a - 1)] = Masked(Begin(a - 1))
                      /\ \E w \in Begin(a - 1) .. Begin(a) : write_index[l] = Masked(w)
    BY <1>4, <1>7 DEF Leaving, Landed, Guard
  <2>1. /\ a >= 1 /\ start[Spot(a - 1)] = Masked(Begin(a - 1))
        /\ \E w \in Begin(a - 1) .. Begin(a) : write_index[l] = Masked(w)
    BY <1>2 DEF DataInv, Leaving
  <2>2. Spot(a - 1) # Spot(a)
    BY <2>1, SpotApart
  <2>3. Landed(a - 1, Begin(a))' = Begin(a)
    BY <1>7, <1>8, <2>2 DEF Landed
  <2>4. Switching
    BY DEF Switching, Lanes
  <2> QED
    BY <1>10, <2>1, <2>3, <2>4
<1>19. ASSUME NEW l \in Lanes PROVE Located(l)'
  <2> SUFFICES ASSUME pc[l] \in Sending PROVE Located(l)'
    BY <1>4 DEF Located, Sending
  <2>1. Located(l) /\ bank'[Mine(l)] = bank[Mine(l)]
    BY <1>10 DEF DataInv
  <2>2. \A k : Pairs(k)' = Pairs(k) /\ Size(k)' = Size(k) /\ Begin(k)' = Begin(k)
    BY <1>4 DEF Pairs, Size, Begin
  <2> QED
    BY <1>4, <1>7, <2>1, <2>2 DEF Located
<1>20. SentExactly'
  BY <1>4 DEF DataInv, SentExactly
<1> QED
  BY <1>11, <1>12, <1>13, <1>14, <1>15, <1>16, <1>17, <1>18, <1>19, <1>20 DEF DataInv

LEMMA Blank ==
    ASSUME NEW m \in [Cells -> Int], \A c \in Cells : m[c] = Sentinel,
           NEW probe \in Int, NEW guard \in Int, NEW to \in Int
    PROVE  Kept(m, probe, guard, to, to)
<1>1. Holds(m, to, to)
  BY DEF Holds
<1>2. \A k \in 0 .. guard - 1 : m[Masked(probe + k)] = Sentinel
  <2> SUFFICES ASSUME NEW k \in 0 .. guard - 1 PROVE Masked(probe + k) \in Cells
    OBVIOUS
  <2>1. probe + k \in Int
    OBVIOUS
  <2> QED
    BY <2>1, MaskType
<1> QED
  BY <1>1, <1>2, Zenon DEF Kept, Marked

LEMMA MaskZero == Masked(0) = 0
<1>1. 0 \in Cells
  BY RingAssumption DEF RingAssumption, Cells
<1> QED
  BY <1>1, MaskSmall

(* A run starts with blank banks.                                          *)
FreshRun ==
    /\ cuts = <<0>> /\ pos = 0 /\ pipeline = NoPair
    /\ bank = [b \in Banks |-> [i \in Cells |-> Sentinel]]
    /\ start = [b \in Banks |-> 0] /\ end_probe \in [Banks -> Int]
    /\ line = [lane \in Lanes |-> NoUnit]
    /\ write_index \in [Lanes -> Int] /\ extent \in [Lanes -> [first : Int, count : Int]]
    /\ ~running /\ status = "OK" /\ \A lane \in Lanes : pc[lane] \in {"idle", "joining"}

LEMMA Fresh == FreshRun => DataInv
<1> SUFFICES ASSUME FreshRun PROVE DataInv
  OBVIOUS
<1> USE DEF FreshRun
<1>1. Active = 0 /\ Begin(Active) = 0 /\ Spot(Active) = 0 /\ 0 \in Banks /\ ~Switching
  BY SpotZero DEF Active, Begin, Switching, Lanes, Banks
<1>2. bank[0] \in [Cells -> Int] /\ (\A c \in Cells : bank[0][c] = Sentinel)
  BY <1>1 DEF Sentinel
<1>3. DataTypes
  <2>1. bank \in [Banks -> [Cells -> Int]] /\ start \in [Banks -> Int]
    BY DEF Sentinel
  <2>2. line = [lane \in Lanes |-> line[lane]] /\ \A lane \in Lanes : line[lane] = NoUnit
    OBVIOUS
  <2> QED
    BY <2>1, <2>2 DEF DataTypes
<1>4. Running
  BY DEF Running, Holding
<1>5. Filling
  <2>1. end_probe[0] \in Int /\ Guard(0) \in Int /\ 0 \in Int
    BY <1>1, RingAssumption DEF RingAssumption, Guard
  <2>2. Kept(bank[0], end_probe[0], Guard(0), 0, 0)
    BY <1>2, <2>1, Blank
  <2>3. Landed(0, 0) = 0 /\ start[0] = Masked(0)
    BY <1>1, MaskZero DEF Landed
  <2> QED
    BY <1>1, <2>2, <2>3 DEF Filling
<1>6. Piped /\ SettledInv /\ Polled /\ Prepared /\ Leaving
  BY DEF Piped, SettledInv, Polled, Prepared, Leaving
<1>7. \A lane \in Lanes : Located(lane)
  BY DEF Located, Sending
<1>8. SentExactly
  BY DEF SentExactly
<1> QED
  BY <1>3, <1>4, <1>5, <1>6, <1>7, <1>8 DEF DataInv

LEMMA InitData == Init => DataInv
<1> SUFFICES ASSUME Init PROVE DataInv
  OBVIOUS
<1>1. /\ write_index \in [Lanes -> Int] /\ extent \in [Lanes -> [first : Int, count : Int]]
      /\ end_probe \in [Banks -> Int]
  BY DEF Init, Nowhere
<1>2. /\ cuts = <<0>> /\ pos = 0 /\ pipeline = NoPair
      /\ bank = [b \in Banks |-> [i \in Cells |-> Sentinel]] /\ start = [b \in Banks |-> 0]
      /\ line = [lane \in Lanes |-> NoUnit]
      /\ ~running /\ status = "OK" /\ \A lane \in Lanes : pc[lane] \in {"idle", "joining"}
  BY DEF Init
<1> QED
  BY <1>1, <1>2, Fresh, Zenon DEF FreshRun

LEMMA StartData == ASSUME IInv, DataInv, StartRun PROVE DataInv'
<1>1. TypeOK /\ DataTypes /\ Running /\ pc[0] = "idle" /\ pc[1] = "idle" /\ ~running
  BY DEF IInv, Phases, DataInv, Running, StartRun
<1>2. /\ write_index' \in [Lanes -> Int] /\ extent' \in [Lanes -> [first : Int, count : Int]]
      /\ end_probe' \in [Banks -> Int]
  BY <1>1, RingAssumption DEF StartRun, locals, DataTypes, RingAssumption
<1>3. \A lane \in Lanes : pc'[lane] \in {"idle", "joining"}
  BY <1>1 DEF StartRun, Go, TypeOK, Lanes
<1>4. /\ cuts' = <<0>> /\ pos' = 0 /\ pipeline' = NoPair
      /\ bank' = [b \in Banks |-> [i \in Cells |-> Sentinel]] /\ start' = [b \in Banks |-> 0]
      /\ line' = [lane \in Lanes |-> NoUnit]
      /\ ~running' /\ status' = "OK"
  BY <1>1 DEF StartRun
<1>5. FreshRun'
  BY <1>2, <1>3, <1>4, Zenon DEF FreshRun
<1>6. FreshRun' => DataInv'
  BY Fresh, PTL
<1> QED
  BY <1>5, <1>6

LEMMA NextData == IInv /\ IInv' /\ DataInv /\ [Next]_vars => DataInv'
<1> SUFFICES ASSUME IInv, IInv', DataInv, [Next]_vars PROVE DataInv'
  OBVIOUS
<1>1. CASE StartRun
  BY <1>1, StartData
<1>2. CASE StartWriter \/ FinishRun \/ Join \/ EnterLoop \/ LeaveLoop
  BY <1>2, ControlData
<1>3. ASSUME NEW lane \in Lanes, Lane(lane) PROVE DataInv'
  BY <1>3, WaitData, PrepareData, CheckData, MeasureData, SwitchData, LocateData, SendData,
     TransmitData, ReleaseData DEF Lane
<1>4. CASE Writer
  BY <1>4, StoreData DEF Writer
<1>5. CASE UNCHANGED vars
  <2>1. UNCHANGED <<pc, unit, stopped, status, started, running, bank, pos, pipeline, cuts,
                    end_probe, start, line, write_index, extent>>
    BY <1>5 DEF vars, control, joining, ending, edges, locals, writer, ghosts
  <2>2. DataTypes' /\ Running' /\ (Switching => Switching')
    BY <2>1 DEF DataInv, DataTypes, Running, Holding, Switching
  <2> QED
    BY <2>1, <2>2, QuietStep
<1> QED
  BY <1>1, <1>2, <1>3, <1>4, <1>5 DEF Next, Core0, Core1, Lanes

(* The pairs of every unit the writer is in or has left are where the      *)
(* guards, the published starts and the descriptors say.                   *)
THEOREM DataInvariance == Spec => []DataInv
BY InitInv, NextInv, InitData, NextData, PTL DEF Spec

(* capture.c:204-211 and 340-370: whatever the timing, what a lane sends   *)
(* is the unit that was collected, no pair missing, doubled or stale.      *)
THEOREM UnitsExact == Spec => []SentExactly
BY DataInvariance, PTL DEF DataInv
=============================================================================
