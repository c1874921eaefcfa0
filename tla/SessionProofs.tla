---------------------------- MODULE SessionProofs ----------------------------
(***************************************************************************)
(* Runs are kept apart, closed streams are left safe and a good verdict is *)
(* sound, for any number of processes, runs, units and lost exchanges, and *)
(* whenever a process dies.                                                *)
(*                                                                         *)
(* Every process numbers its requests from 1, so that a reply tells which  *)
(* request it answers only among the requests of one process.  What holds  *)
(* the runs apart is therefore that the first reply a process takes is its *)
(* own: from then on the line carries nothing of another process, in the   *)
(* order of its numbers.  Without it the claims are false: a process whose *)
(* identification was answered by the reply to an earlier one stays one    *)
(* process behind as long as it asks what that one had asked.              *)
(***************************************************************************)
EXTENDS Session, SequenceTheorems, WellFoundedInduction, TLAPS

\* A process is identified by the reply to its own request: the one it sent
\* last, so that nothing is left on the line behind it.
Identified == pc = "info" /\ pc' = "idle" => espIn' = <<>> /\ espOut' = <<>>

Preparing == {"release", "outputs", "driving", "arm", "drain"}
Before == {"off", "info", "idle"} \cup Preparing
Active == {"running", "stop", "stopping", "lower", "lowering", "end", "abort", "abort_stopping",
           "abort_lower", "abort_lowering", "finish", "stats", "close"}

Units == [run : Nat, at : Nat]
Items == Units \cup [crc : Seq(Units)]
Reports == [run : Nat, ok : BOOLEAN, units : Nat]
Requests == [op : Op, seq : Nat, run : Nat]
Answerings == [op : Op, seq : Nat, ok : BOOLEAN, stats : Reports]
Controls == [armed : BOOLEAN, open : BOOLEAN, started : BOOLEAN, fault : BOOLEAN, ended : BOOLEAN]

HostFormed ==
    /\ pc \in Before \cup Active /\ runs \in Nat /\ seq \in Nat /\ runSeq \in Nat /\ stopSeq \in Nat
    /\ failure \in BOOLEAN /\ lowered \in BOOLEAN /\ released \in BOOLEAN
PortFormed ==
    /\ espIn \in Seq(Requests) /\ espOut \in Seq(Answerings)
    /\ acquiring = <<>> \/ \E r \in Requests : acquiring = <<r>>
DeviceFormed == outputs \in BOOLEAN /\ stats \in Reports /\ fpga \in Controls
StreamFormed ==
    /\ stream \in Seq(Units) /\ received \in Seq(Units)
    /\ pipe \in Seq(Items) /\ usb \in Seq(Items)

\* The line carries this process's requests alone: answered, in execution and
\* waiting, in the order of their numbers.
InOrder ==
    /\ \A i, j \in DOMAIN espOut : i < j => espOut[i].seq < espOut[j].seq
    /\ \A i, j \in DOMAIN espIn : i < j => espIn[i].seq < espIn[j].seq
    /\ \A i \in DOMAIN espOut : espOut[i].seq <= seq
    /\ \A j \in DOMAIN espIn : espIn[j].seq <= seq
    /\ \A i \in DOMAIN espOut, j \in DOMAIN espIn : espOut[i].seq < espIn[j].seq
    /\ acquiring # <<>> =>
          /\ acquiring[1].seq <= seq
          /\ \A i \in DOMAIN espOut : espOut[i].seq < acquiring[1].seq
          /\ \A j \in DOMAIN espIn : acquiring[1].seq < espIn[j].seq
Line == pc \notin {"off", "info"} => InOrder

\* The request that is waited for was sent last: when nothing waits any more
\* at the ESP it has been executed, and all before it.
LastSent(op) == IF espIn = <<>> THEN acquiring = <<>> ELSE espIn[Len(espIn)].op = op
Counted == \A i \in DOMAIN espOut : espOut[i].op = "stats" /\ espOut[i].seq = seq => espOut[i].stats = stats
Awaited ==
    /\ pc = "info" => LastSent("info")
    /\ pc = "driving" => LastSent("high")
    /\ pc \in {"lowering", "abort_lowering"} => LastSent("low") /\ (espIn = <<>> => ~outputs)
    /\ pc = "stats" => LastSent("stats") /\ Counted

\* Between the end of what went before and the RUN nothing of the ESP or of
\* the FPGA is left.
Clean ==
    /\ pc \in Before => reader = "off" /\ received = <<>>
    /\ pc \in {"arm", "drain"} => espIn = <<>> /\ espOut = <<>> /\ acquiring = <<>>
    /\ pc = "drain" => stream = <<>> /\ pipe = <<>> /\ (fpga.armed \/ fpga.fault)

\* All there is of a run while it lasts is its own, and its RUN is one.
OwnRequests ==
    \A j \in DOMAIN espIn : espIn[j].run = runs /\ (espIn[j].op = "run" => espIn[j].seq = runSeq)
OwnAcquisition ==
    /\ acquiring # <<>> => acquiring[1].run = runs /\ acquiring[1].seq = runSeq
    /\ \A i \in DOMAIN espOut : espOut[i].op = "run" /\ espOut[i].ok => stats.run = runs
OwnUnits(items) == \A i \in DOMAIN items : IsEnd(items[i]) \/ items[i].run = runs
OwnItems ==
    /\ OwnUnits(pipe) /\ OwnUnits(usb)
    /\ \A i \in DOMAIN received : received[i].run = runs
OfRun ==
    /\ acquiring # <<>> => acquiring[1].op = "run" /\ stats.run = acquiring[1].run
    /\ pc \in Active => OwnRequests /\ OwnAcquisition /\ OwnItems

\* The acquisition of a run that has not failed is over once RUN is answered.
NoneOf(ops) == \A j \in DOMAIN espIn : espIn[j].op \notin ops
Over ==
    pc \in Active \ {"running"} /\ ~failure => stats.run = runs /\ acquiring = <<>> /\ NoneOf({"run"})

\* What was lowered and released stays so: nothing that would drive the lines
\* again or arm the receiver is on its way.
Safe ==
    /\ lowered => acquiring = <<>> /\ ~outputs /\ NoneOf({"run", "high"})
    /\ pc \in Preparing => ~lowered
    /\ released => pc = "idle" /\ ~fpga.armed /\ ~fpga.open

Judged ==
    verdict = "ok" =>
        /\ pc = "close" /\ reader = "ended" /\ espIn = <<>> /\ acquiring = <<>>
        /\ stats.run = runs /\ stats.ok
        /\ stats.units = IF received = <<>> THEN 0 ELSE received[Len(received)].at

SessionInv == /\ HostFormed /\ PortFormed /\ DeviceFormed /\ StreamFormed
              /\ Line /\ Awaited /\ Clean /\ OfRun /\ Over /\ Safe /\ Judged
-----------------------------------------------------------------------------
\* Sequences.
LEMMA Appended ==
    ASSUME NEW S, NEW s \in Seq(S), NEW e \in S
    PROVE  /\ Append(s, e) \in Seq(S) /\ Len(Append(s, e)) = Len(s) + 1
           /\ Append(s, e) # <<>>
           /\ \A i \in DOMAIN Append(s, e) :
                 \/ i = Len(s) + 1 /\ Append(s, e)[i] = e
                 \/ i \in DOMAIN s /\ Append(s, e)[i] = s[i]
           /\ Append(s, e)[Len(s) + 1] = e
BY AppendProperties

LEMMA Empty == ASSUME NEW S PROVE <<>> \in Seq(S)
OBVIOUS

LEMMA Cut ==
    ASSUME NEW S, NEW s \in Seq(S), NEW n \in 0 .. Len(s)
    PROVE  LET t == SubSeq(s, n + 1, Len(s)) IN
           /\ t \in Seq(S) /\ Len(t) = Len(s) - n
           /\ \A i \in DOMAIN t : n + i \in DOMAIN s /\ t[i] = s[n + i]
OBVIOUS

LEMMA Behind ==
    ASSUME NEW S, NEW s \in Seq(S), s # <<>>
    PROVE  /\ Head(s) = s[1] /\ Head(s) \in S /\ 1 \in DOMAIN s /\ Tail(s) \in Seq(S)
           /\ Len(Tail(s)) = Len(s) - 1
           /\ \A i \in DOMAIN Tail(s) : i + 1 \in DOMAIN s /\ Tail(s)[i] = s[i + 1]
BY HeadTailProperties

\* A set of numbers has a least one.
LEMMA Least ==
    ASSUME NEW T \in SUBSET Nat, T # {}
    PROVE  \E i \in T : \A j \in T : i <= j
<1> DEFINE Less == {p \in Nat \X Nat : p[1] < p[2]}
<1>1. IsWellFoundedOn(Less, Nat)
  BY NatLessThanWellFounded DEF OpToRel
<1>2. PICK i \in T : \A j \in T : ~(<<j, i>> \in Less)
  BY <1>1, WFMin
<1>3. \A j \in T : <<j, i>> \in Nat \X Nat
  OBVIOUS
<1>4. \A j \in T : ~(j < i)
  BY <1>2, <1>3
<1>5. QED
  BY <1>4
-----------------------------------------------------------------------------
\* The steps of the line.
Sent(op) == /\ espIn' = Append(espIn, [op |-> op, seq |-> seq + 1, run |-> runs])
            /\ seq' = seq + 1 /\ UNCHANGED <<espOut, acquiring>>
Taken == /\ \E n \in 0 .. Len(espOut) : espOut' = SubSeq(espOut, n + 1, Len(espOut))
         /\ UNCHANGED <<seq, espIn, acquiring>>
Still == UNCHANGED <<seq, espIn, espOut, acquiring>>

\* The host takes the first reply to its request, and skips what is before it.
LEMMA First ==
    ASSUME PortFormed, NEW op, NEW s, NEW reply, Answered(op, s, reply)
    PROVE  \E i \in DOMAIN espOut :
              /\ espOut[i] = reply /\ reply.op = op /\ reply.seq = s
              /\ espOut' = SubSeq(espOut, i + 1, Len(espOut))
<1>0. DOMAIN espOut \in SUBSET Nat
  BY DEF PortFormed
<1>1. Answers(op, s) \in SUBSET Nat /\ Answers(op, s) # {}
  BY <1>0 DEF Answers, Answered
<1>2. \E i \in Answers(op, s) : \A j \in Answers(op, s) : i <= j
  BY <1>1, Least
<1> DEFINE i == CHOOSE i \in Answers(op, s) : \A j \in Answers(op, s) : i <= j
<1>3. i \in Answers(op, s)
  BY <1>2
<1>4. reply = espOut[i] /\ espOut' = SubSeq(espOut, i + 1, Len(espOut))
  BY DEF Answered
<1>5. i \in DOMAIN espOut /\ espOut[i].op = op /\ espOut[i].seq = s
  BY <1>3 DEF Answers
<1>6. QED
  BY <1>4, <1>5

LEMMA Takes ==
    ASSUME PortFormed, UNCHANGED <<seq, acquiring>>, NEW op, NEW s,
           (\E reply \in Replies : Answered(op, s, reply)) \/ TimedOut(op, s)
    PROVE  Taken
<1>1. ASSUME NEW reply \in Replies, Answered(op, s, reply) PROVE Taken
  <2>1. PICK i \in DOMAIN espOut : espOut' = SubSeq(espOut, i + 1, Len(espOut))
    BY <1>1, First
  <2>2. i \in 0 .. Len(espOut)
    BY DEF PortFormed
  <2>3. espIn' = espIn
    BY <1>1 DEF Answered
  <2>4. QED
    BY <2>1, <2>2, <2>3 DEF Taken
<1>2. ASSUME TimedOut(op, s) PROVE Taken
  <2>1. Len(espOut) \in 0 .. Len(espOut)
    BY DEF PortFormed
  <2>2. SubSeq(espOut, Len(espOut) + 1, Len(espOut)) = <<>>
    BY Cut, <2>1 DEF PortFormed
  <2>3. QED
    BY <1>2, <2>1, <2>2 DEF Taken, TimedOut
<1>3. QED
  BY <1>1, <1>2

LEMMA Typed ==
    ASSUME PortFormed
    PROVE  /\ \A j \in DOMAIN espIn : /\ espIn[j] \in Requests
                                      /\ espIn[j].op \in Op /\ espIn[j].seq \in Nat /\ espIn[j].run \in Nat
           /\ \A i \in DOMAIN espOut :
                 /\ espOut[i] \in Answerings
                 /\ espOut[i].op \in Op /\ espOut[i].seq \in Nat /\ espOut[i].ok \in BOOLEAN
<1>1. \A j \in DOMAIN espIn : espIn[j] \in Requests
  BY DEF PortFormed
<1>2. \A i \in DOMAIN espOut : espOut[i] \in Answerings
  BY DEF PortFormed
<1>3. QED
  BY <1>1, <1>2 DEF Requests, Answerings

LEMMA TakenPort ==
    ASSUME PortFormed, Taken
    PROVE  /\ PortFormed'
           /\ \A i \in DOMAIN espOut' : \E k \in DOMAIN espOut : espOut'[i] = espOut[k]
<1>1. PICK n \in 0 .. Len(espOut) : espOut' = SubSeq(espOut, n + 1, Len(espOut))
  BY DEF Taken
<1>2. /\ espOut' \in Seq(Answerings)
      /\ \A i \in DOMAIN espOut' : n + i \in DOMAIN espOut /\ espOut'[i] = espOut[n + i]
  BY <1>1, Cut DEF PortFormed
<1>3. QED
  BY <1>2 DEF PortFormed, Taken

LEMMA TakenOrder ==
    ASSUME PortFormed, InOrder, Taken
    PROVE  InOrder'
<1>1. PICK n \in 0 .. Len(espOut) : espOut' = SubSeq(espOut, n + 1, Len(espOut))
  BY DEF Taken
<1>2. \A i \in DOMAIN espOut' : n + i \in DOMAIN espOut /\ espOut'[i] = espOut[n + i] /\ i \in Nat
  BY <1>1, Cut DEF PortFormed
<1>3. \A i, j \in DOMAIN espOut' : i < j => espOut'[i].seq < espOut'[j].seq
  BY <1>2 DEF InOrder
<1>4. QED
  BY <1>2, <1>3 DEF InOrder, Taken

LEMMA SentPort ==
    ASSUME HostFormed, PortFormed, NEW op \in Op, Sent(op)
    PROVE  /\ PortFormed'
           /\ espIn' # <<>> /\ espIn'[Len(espIn')].op = op
           /\ \A j \in DOMAIN espIn' :
                 \/ j \in DOMAIN espIn /\ espIn'[j] = espIn[j]
                 \/ espIn'[j].op = op /\ espIn'[j].run = runs /\ espIn'[j].seq = seq'
<1> DEFINE r == [op |-> op, seq |-> seq + 1, run |-> runs]
<1>1. r \in Requests
  BY DEF HostFormed, Requests
<1>2. espIn \in Seq(Requests) /\ espIn' = Append(espIn, r) /\ seq' = seq + 1
  BY DEF PortFormed, Sent
<1> HIDE DEF r
<1>3. /\ espIn' \in Seq(Requests) /\ Len(espIn') = Len(espIn) + 1 /\ espIn' # <<>>
      /\ \A j \in DOMAIN espIn' : \/ j = Len(espIn) + 1 /\ espIn'[j] = r
                                  \/ j \in DOMAIN espIn /\ espIn'[j] = espIn[j]
      /\ espIn'[Len(espIn) + 1] = r
  BY <1>1, <1>2, Appended
<1>4. r.op = op /\ r.seq = seq' /\ r.run = runs
  BY <1>2 DEF r
<1>5. PortFormed'
  BY <1>3 DEF PortFormed, Sent
<1>6. espIn'[Len(espIn')].op = op
  BY <1>3, <1>4
<1>7. QED
  BY <1>3, <1>4, <1>5, <1>6

LEMMA SentOrder ==
    ASSUME HostFormed, PortFormed, InOrder, NEW op \in Op, Sent(op)
    PROVE  InOrder'
<1> DEFINE r == [op |-> op, seq |-> seq + 1, run |-> runs]
<1>1. r \in Requests
  BY DEF HostFormed, Requests
<1>2. espIn \in Seq(Requests) /\ espIn' = Append(espIn, r) /\ seq' = seq + 1 /\ seq \in Nat
  BY DEF PortFormed, Sent, HostFormed
<1>3. r.seq = seq + 1
  OBVIOUS
<1> HIDE DEF r
<1>4. /\ Len(espIn') = Len(espIn) + 1 /\ Len(espIn) \in Nat /\ DOMAIN espIn = 1 .. Len(espIn)
      /\ \A j \in DOMAIN espIn' : \/ j = Len(espIn) + 1 /\ espIn'[j] = r
                                  \/ j \in DOMAIN espIn /\ espIn'[j] = espIn[j]
  BY <1>1, <1>2, Appended
<1>5. \A j \in DOMAIN espIn : espIn[j].seq \in Nat
  BY Typed
<1>6. \A i \in DOMAIN espOut : espOut[i].seq \in Nat
  BY Typed
<1>7. acquiring # <<>> => acquiring[1].seq \in Nat
  BY DEF PortFormed, Requests
<1>8. UNCHANGED <<espOut, acquiring>>
  BY DEF Sent
<1>9. \A i, j \in DOMAIN espIn' : i < j => espIn'[i].seq < espIn'[j].seq
  <2> SUFFICES ASSUME NEW i \in DOMAIN espIn', NEW j \in DOMAIN espIn', i < j
               PROVE  espIn'[i].seq < espIn'[j].seq
    OBVIOUS
  <2>1. i \in DOMAIN espIn /\ espIn'[i] = espIn[i]
    BY <1>4
  <2>2. CASE j = Len(espIn) + 1 /\ espIn'[j] = r
    <3>1. espIn[i].seq <= seq
      BY <2>1 DEF InOrder
    <3>2. QED
      BY <2>1, <2>2, <3>1, <1>2, <1>3, <1>5
  <2>3. CASE j \in DOMAIN espIn /\ espIn'[j] = espIn[j]
    BY <2>1, <2>3 DEF InOrder
  <2>4. QED
    BY <1>4, <2>2, <2>3
<1>10. /\ \A i \in DOMAIN espOut : espOut[i].seq <= seq'
       /\ \A i \in DOMAIN espOut : espOut[i].seq < r.seq
  BY <1>2, <1>3, <1>6 DEF InOrder
<1>11. \A j \in DOMAIN espIn' : espIn'[j].seq <= seq'
  BY <1>2, <1>3, <1>4, <1>5 DEF InOrder
<1>12. \A i \in DOMAIN espOut, j \in DOMAIN espIn' : espOut[i].seq < espIn'[j].seq
  BY <1>4, <1>10 DEF InOrder
<1>13. acquiring # <<>> => acquiring[1].seq <= seq' /\ acquiring[1].seq < r.seq
  BY <1>2, <1>3, <1>7 DEF InOrder
<1>14. acquiring # <<>> => \A j \in DOMAIN espIn' : acquiring[1].seq < espIn'[j].seq
  BY <1>4, <1>13 DEF InOrder
<1>15. QED
  BY <1>8, <1>9, <1>10, <1>11, <1>12, <1>13, <1>14 DEF InOrder

\* The ESP takes the next request, and either begins the acquisition or
\* answers at once; an acquisition ends with its answer.
LEMMA Replied ==
    ASSUME PortFormed, DeviceFormed, NEW r \in Requests, NEW ok \in BOOLEAN, Reply(r, ok)
    PROVE  /\ espOut' \in Seq(Answerings) /\ Len(espOut') = Len(espOut) + 1
           /\ LET a == espOut'[Len(espOut) + 1] IN
              a.op = r.op /\ a.seq = r.seq /\ a.ok = ok /\ (r.op = "stats" => a.stats = stats)
           /\ \A i \in DOMAIN espOut' : i = Len(espOut) + 1 \/ (i \in DOMAIN espOut /\ espOut'[i] = espOut[i])
<1> DEFINE a == [op |-> r.op, seq |-> r.seq, ok |-> ok, stats |-> IF r.op = "stats" THEN stats ELSE NoReport]
<1>1. NoReport \in Reports
  BY DEF NoReport, Reports
<1>2. a \in Answerings
  BY <1>1 DEF DeviceFormed, Requests, Answerings
<1>3. a.op = r.op /\ a.seq = r.seq /\ a.ok = ok /\ (r.op = "stats" => a.stats = stats)
  OBVIOUS
<1>4. espOut \in Seq(Answerings) /\ espOut' = Append(espOut, a)
  BY DEF PortFormed, Reply
<1> HIDE DEF a
<1>5. /\ espOut' \in Seq(Answerings) /\ Len(espOut') = Len(espOut) + 1
      /\ espOut'[Len(espOut) + 1] = a
      /\ \A i \in DOMAIN espOut' : i = Len(espOut) + 1 \/ (i \in DOMAIN espOut /\ espOut'[i] = espOut[i])
  BY <1>2, <1>4, Appended
<1>6. QED
  BY <1>3, <1>5

LEMMA Next1 ==
    ASSUME PortFormed, Execute
    PROVE  /\ espIn # <<>> /\ acquiring = <<>> /\ UNCHANGED seq
           /\ 1 \in DOMAIN espIn /\ Head(espIn) = espIn[1] /\ espIn[1] \in Requests
           /\ espIn' \in Seq(Requests) /\ Len(espIn') = Len(espIn) - 1
           /\ \A j \in DOMAIN espIn' : j + 1 \in DOMAIN espIn /\ espIn'[j] = espIn[j + 1]
<1>1. espIn # <<>> /\ acquiring = <<>> /\ UNCHANGED seq /\ espIn' = Tail(espIn)
  BY DEF Execute, host, asked
<1>2. QED
  BY <1>1, Behind DEF PortFormed

LEMMA Begins ==
    ASSUME PortFormed, Execute, espIn[1].op = "run", outputs
    PROVE  /\ acquiring' = <<espIn[1]>> /\ UNCHANGED <<outputs, espOut>>
           /\ stats' = [run |-> espIn[1].run, ok |-> TRUE, units |-> 0]
BY Next1 DEF Execute

LEMMA Replies1 ==
    ASSUME PortFormed, DeviceFormed, Execute, ~(espIn[1].op = "run" /\ outputs)
    PROVE  /\ UNCHANGED <<acquiring, stats>>
           /\ outputs' = (espIn[1].op = "high" \/ (outputs /\ espIn[1].op # "low"))
           /\ Reply(espIn[1], espIn[1].op # "run")
BY Next1 DEF Execute

LEMMA ExecutePort ==
    ASSUME PortFormed, DeviceFormed, Execute
    PROVE  PortFormed'
<1>1. espIn' \in Seq(Requests) /\ espIn[1] \in Requests
  BY Next1
<1>2. CASE espIn[1].op = "run" /\ outputs
  BY <1>1, <1>2, Begins DEF PortFormed
<1>3. CASE ~(espIn[1].op = "run" /\ outputs)
  <2>1. espOut' \in Seq(Answerings)
    BY <1>1, <1>3, Replies1, Replied
  <2>2. QED
    BY <1>1, <1>3, <2>1, Replies1 DEF PortFormed
<1>4. QED
  BY <1>2, <1>3

LEMMA ExecuteOrder ==
    ASSUME PortFormed, DeviceFormed, InOrder, Execute
    PROVE  InOrder'
<1> DEFINE r == espIn[1]
<1>1. /\ \A j \in DOMAIN espIn' : j + 1 \in DOMAIN espIn /\ espIn'[j] = espIn[j + 1] /\ j \in Nat /\ 1 < j + 1
      /\ r \in Requests /\ 1 \in DOMAIN espIn /\ acquiring = <<>> /\ seq' = seq
  BY Next1
<1>2. \A j \in DOMAIN espIn' : r.seq < espIn'[j].seq
  BY <1>1 DEF InOrder
<1>3. \A i, j \in DOMAIN espIn' : i < j => espIn'[i].seq < espIn'[j].seq
  BY <1>1 DEF InOrder
<1>4. /\ \A j \in DOMAIN espIn' : espIn'[j].seq <= seq
      /\ \A i \in DOMAIN espOut, j \in DOMAIN espIn' : espOut[i].seq < espIn'[j].seq
      /\ r.seq <= seq /\ \A i \in DOMAIN espOut : espOut[i].seq < r.seq
  BY <1>1 DEF InOrder
<1>5. CASE r.op = "run" /\ outputs
  <2>1. acquiring' = <<r>> /\ UNCHANGED espOut
    BY <1>5, Begins
  <2>2. acquiring'[1] = r
    BY <2>1
  <2>3. QED
    BY <1>1, <1>2, <1>3, <1>4, <2>1, <2>2 DEF InOrder
<1>6. CASE ~(r.op = "run" /\ outputs)
  <2>1. /\ Len(espOut) \in Nat /\ DOMAIN espOut = 1 .. Len(espOut)
        /\ DOMAIN espOut' = 1 .. Len(espOut) + 1
        /\ espOut'[Len(espOut) + 1].seq = r.seq
        /\ \A i \in DOMAIN espOut' : i = Len(espOut) + 1 \/ (i \in DOMAIN espOut /\ espOut'[i] = espOut[i])
    <3>1. /\ espOut' \in Seq(Answerings) /\ Len(espOut') = Len(espOut) + 1
          /\ espOut'[Len(espOut) + 1].seq = r.seq
          /\ \A i \in DOMAIN espOut' : i = Len(espOut) + 1 \/ (i \in DOMAIN espOut /\ espOut'[i] = espOut[i])
      BY <1>1, <1>6, Replies1, Replied
    <3>2. QED
      BY <3>1 DEF PortFormed
  <2>2. \A i, j \in DOMAIN espOut' : i < j => espOut'[i].seq < espOut'[j].seq
    <3> SUFFICES ASSUME NEW i \in DOMAIN espOut', NEW j \in DOMAIN espOut', i < j
                 PROVE  espOut'[i].seq < espOut'[j].seq
      OBVIOUS
    <3>1. i \in DOMAIN espOut /\ espOut'[i] = espOut[i]
      BY <2>1
    <3>2. QED
      BY <1>4, <2>1, <3>1 DEF InOrder
  <2>3. \A i \in DOMAIN espOut' : espOut'[i].seq <= seq
    BY <1>4, <2>1 DEF InOrder
  <2>4. \A i \in DOMAIN espOut', j \in DOMAIN espIn' : espOut'[i].seq < espIn'[j].seq
    BY <1>2, <1>4, <2>1
  <2>5. acquiring' = <<>>
    BY <1>1, <1>6, Replies1
  <2>6. QED
    BY <1>1, <1>3, <1>4, <2>2, <2>3, <2>4, <2>5 DEF InOrder
<1>7. QED
  BY <1>5, <1>6

LEMMA EndPort ==
    ASSUME PortFormed, DeviceFormed, EndRun
    PROVE  /\ PortFormed' /\ acquiring' = <<>> /\ UNCHANGED <<espIn, seq>>
           /\ acquiring # <<>> /\ acquiring[1] \in Requests
           /\ Len(espOut') = Len(espOut) + 1
           /\ espOut'[Len(espOut) + 1].op = acquiring[1].op
           /\ espOut'[Len(espOut) + 1].seq = acquiring[1].seq
           /\ \A i \in DOMAIN espOut' : i = Len(espOut) + 1 \/ (i \in DOMAIN espOut /\ espOut'[i] = espOut[i])
<1>1. acquiring # <<>> /\ acquiring' = <<>> /\ UNCHANGED <<espIn, seq>>
  BY DEF EndRun, host, asked
<1>2. acquiring[1] \in Requests
  BY <1>1 DEF PortFormed
<1>3. PICK ok \in BOOLEAN : Reply(acquiring[1], ok)
  BY DEF EndRun
<1>4. QED
  BY <1>1, <1>2, <1>3, Replied DEF PortFormed

LEMMA EndOrder ==
    ASSUME PortFormed, DeviceFormed, InOrder, EndRun
    PROVE  InOrder'
<1> DEFINE r == acquiring[1]
<1>1. /\ acquiring' = <<>> /\ UNCHANGED <<espIn, seq>>
      /\ Len(espOut) \in Nat /\ DOMAIN espOut = 1 .. Len(espOut)
      /\ DOMAIN espOut' = 1 .. Len(espOut) + 1
      /\ espOut'[Len(espOut) + 1].seq = r.seq
      /\ \A i \in DOMAIN espOut' : i = Len(espOut) + 1 \/ (i \in DOMAIN espOut /\ espOut'[i] = espOut[i])
  BY EndPort DEF PortFormed
<1>2. /\ r.seq <= seq /\ \A i \in DOMAIN espOut : espOut[i].seq < r.seq
      /\ \A j \in DOMAIN espIn : r.seq < espIn[j].seq
  BY EndPort DEF InOrder
<1>3. \A i, j \in DOMAIN espOut' : i < j => espOut'[i].seq < espOut'[j].seq
  <2> SUFFICES ASSUME NEW i \in DOMAIN espOut', NEW j \in DOMAIN espOut', i < j
               PROVE  espOut'[i].seq < espOut'[j].seq
    OBVIOUS
  <2>1. i \in DOMAIN espOut /\ espOut'[i] = espOut[i]
    BY <1>1
  <2>2. QED
    BY <1>1, <1>2, <2>1 DEF InOrder
<1>4. \A i \in DOMAIN espOut' : espOut'[i].seq <= seq
  BY <1>1, <1>2 DEF InOrder
<1>5. \A i \in DOMAIN espOut', j \in DOMAIN espIn' : espOut'[i].seq < espIn'[j].seq
  BY <1>1, <1>2 DEF InOrder
<1>6. QED
  BY <1>1, <1>3, <1>4, <1>5 DEF InOrder
-----------------------------------------------------------------------------
\* What the steps of the line leave alone.
LEMMA RequestsKept ==
    ASSUME HostFormed, PortFormed, NEW ops, NoneOf(ops),
           (\E op \in Op \ ops : Sent(op)) \/ Taken \/ Still
    PROVE  NoneOf(ops)'
<1>1. ASSUME NEW op \in Op \ ops, Sent(op) PROVE NoneOf(ops)'
  BY <1>1, SentPort DEF NoneOf
<1>2. CASE Taken \/ Still
  BY <1>2 DEF Taken, Still, NoneOf
<1>3. QED
  BY <1>1, <1>2

LEMMA OwnRequestsKept ==
    ASSUME HostFormed, PortFormed, OwnRequests, UNCHANGED <<runs, runSeq>>,
           (\E op \in Op \ {"run"} : Sent(op)) \/ Taken \/ Still
    PROVE  OwnRequests'
<1>1. ASSUME NEW op \in Op \ {"run"}, Sent(op) PROVE OwnRequests'
  BY <1>1, SentPort DEF OwnRequests
<1>2. CASE Taken \/ Still
  BY <1>2 DEF Taken, Still, OwnRequests
<1>3. QED
  BY <1>1, <1>2

LEMMA OwnAcquisitionKept ==
    ASSUME PortFormed, OwnAcquisition, UNCHANGED <<runs, runSeq, stats>>,
           (\E op \in Op : Sent(op)) \/ Taken \/ Still
    PROVE  OwnAcquisition'
<1>1. CASE (\E op \in Op : Sent(op)) \/ Still
  BY <1>1 DEF Sent, Still, OwnAcquisition
<1>2. CASE Taken
  <2>1. \A i \in DOMAIN espOut' : \E k \in DOMAIN espOut : espOut'[i] = espOut[k]
    BY <1>2, TakenPort
  <2>2. UNCHANGED acquiring
    BY <1>2 DEF Taken
  <2>3. QED
    BY <2>1, <2>2 DEF OwnAcquisition
<1>3. QED
  BY <1>1, <1>2

LEMMA PortKept ==
    ASSUME HostFormed, PortFormed, (\E op \in Op : Sent(op)) \/ Taken \/ Still
    PROVE  PortFormed' /\ (InOrder => InOrder') /\ seq' \in Nat /\ UNCHANGED acquiring
<1>1. ASSUME NEW op \in Op, Sent(op) PROVE PortFormed' /\ (InOrder => InOrder')
  BY <1>1, SentPort, SentOrder
<1>2. ASSUME Taken PROVE PortFormed' /\ (InOrder => InOrder')
  BY <1>2, TakenPort, TakenOrder
<1>3. ASSUME Still PROVE PortFormed' /\ (InOrder => InOrder')
  BY <1>3 DEF Still, PortFormed, InOrder
<1>4. UNCHANGED acquiring
  BY DEF Sent, Taken, Still
<1>5. seq' = seq \/ seq' = seq + 1
  BY DEF Sent, Taken, Still
<1>6. seq' \in Nat
  BY <1>5 DEF HostFormed
<1>7. QED
  BY <1>1, <1>2, <1>3, <1>4, <1>6

\* The host at work on a run that goes on.
AtWork ==
    /\ pc \in Active /\ pc' \in Active
    /\ (\E op \in {"stop", "low", "stats"} : Sent(op)) \/ Taken \/ Still
    /\ UNCHANGED <<runs, runSeq, stats, outputs, received, stream, pipe, usb, released>>
    /\ stopSeq' \in Nat /\ failure' \in BOOLEAN /\ lowered' \in BOOLEAN /\ fpga' \in Controls

LEMMA Working ==
    ASSUME SessionInv, AtWork
    PROVE  /\ HostFormed' /\ PortFormed' /\ DeviceFormed' /\ StreamFormed'
           /\ Line' /\ Clean' /\ OfRun'
           /\ UNCHANGED acquiring
           /\ \A ops \in SUBSET {"run", "high", "info"} : NoneOf(ops) => NoneOf(ops)'
           /\ pc # "running" /\ (~failure' => ~failure) => Over'
           /\ (lowered' => lowered) => Safe'
           /\ pc # "close" /\ UNCHANGED verdict => Judged'
<1>1. HostFormed /\ PortFormed /\ DeviceFormed /\ StreamFormed /\ Line /\ OfRun /\ Over /\ Safe /\ Judged
  BY DEF SessionInv
<1>2. /\ pc \in Active /\ pc' \in Active
      /\ (\E op \in {"stop", "low", "stats"} : Sent(op)) \/ Taken \/ Still
      /\ UNCHANGED <<runs, runSeq, stats, outputs, received, stream, pipe, usb, released>>
      /\ stopSeq' \in Nat /\ failure' \in BOOLEAN /\ lowered' \in BOOLEAN /\ fpga' \in Controls
  BY DEF AtWork
<1>3. {"stop", "low", "stats"} \subseteq Op \ {"run", "high", "info"}
  BY DEF Op
<1>4. InOrder /\ OwnRequests /\ OwnAcquisition /\ OwnItems
  BY <1>1, <1>2 DEF Line, OfRun, Active
<1>5. PortFormed' /\ InOrder' /\ seq' \in Nat /\ acquiring' = acquiring
  BY <1>1, <1>2, <1>3, <1>4, PortKept
<1>6. OwnRequests'
  BY <1>1, <1>2, <1>3, <1>4, OwnRequestsKept
<1>7. OwnAcquisition'
  BY <1>1, <1>2, <1>3, <1>4, OwnAcquisitionKept
<1>8. OwnItems'
  BY <1>2, <1>4 DEF OwnItems, OwnUnits
<1>9. ASSUME NEW ops \in SUBSET {"run", "high", "info"}, NoneOf(ops) PROVE NoneOf(ops)'
  BY <1>1, <1>2, <1>3, <1>9, RequestsKept
<1>10. HostFormed'
  BY <1>1, <1>2, <1>5 DEF HostFormed
<1>11. DeviceFormed' /\ StreamFormed'
  BY <1>1, <1>2 DEF DeviceFormed, StreamFormed
<1>12. Line' /\ Clean'
  BY <1>2, <1>5 DEF Line, Clean, Active, Before, Preparing
<1>13. OfRun'
  BY <1>1, <1>2, <1>5, <1>6, <1>7, <1>8 DEF OfRun
<1>14. ASSUME pc # "running", ~failure' => ~failure PROVE Over'
  BY <1>1, <1>2, <1>5, <1>9, <1>14 DEF Over
<1>15. ASSUME lowered' => lowered PROVE Safe'
  <2>1. lowered' => acquiring' = <<>> /\ ~outputs' /\ NoneOf({"run", "high"})'
    BY <1>1, <1>2, <1>5, <1>9, <1>15 DEF Safe
  <2>2. pc' \notin Preparing /\ ~released'
    BY <1>1, <1>2 DEF Safe, Active, Preparing
  <2>3. QED
    BY <2>1, <2>2 DEF Safe
<1>16. ASSUME pc # "close", UNCHANGED verdict PROVE Judged'
  BY <1>1, <1>16 DEF Judged
<1>17. QED
  BY <1>5, <1>9, <1>10, <1>11, <1>12, <1>13, <1>14, <1>15, <1>16

\* With the reply to the request sent last, the line is empty and the ESP at rest.
LEMMA LastReply ==
    ASSUME HostFormed, PortFormed, InOrder, NEW op, LastSent(op), NEW reply, Answered(op, seq, reply)
    PROVE  /\ espIn = <<>> /\ acquiring = <<>> /\ espOut' = <<>> /\ espIn' = <<>>
           /\ \E i \in DOMAIN espOut : espOut[i] = reply /\ reply.op = op /\ reply.seq = seq
<1>1. PICK i \in DOMAIN espOut : /\ espOut[i] = reply /\ reply.op = op /\ reply.seq = seq
                                 /\ espOut' = SubSeq(espOut, i + 1, Len(espOut))
  BY First
<1>2. espIn = <<>>
  <2> SUFFICES ASSUME espIn # <<>> PROVE FALSE
    OBVIOUS
  <2>1. 1 \in DOMAIN espIn
    BY Behind DEF PortFormed
  <2>2. seq < espIn[1].seq /\ espIn[1].seq <= seq
    BY <1>1, <2>1 DEF InOrder
  <2>3. espIn[1].seq \in Nat /\ seq \in Nat
    BY <2>1, Typed DEF HostFormed
  <2>4. QED
    BY <2>2, <2>3
<1>3. acquiring = <<>>
  BY <1>2 DEF LastSent
<1>4. i \in 0 .. Len(espOut) /\ Len(espOut) \in Nat /\ DOMAIN espOut = 1 .. Len(espOut)
  BY DEF PortFormed
<1>5. i = Len(espOut)
  <2> SUFFICES ASSUME i # Len(espOut) PROVE FALSE
    OBVIOUS
  <2>1. Len(espOut) \in DOMAIN espOut /\ i < Len(espOut)
    BY <1>4
  <2>2. seq < espOut[Len(espOut)].seq /\ espOut[Len(espOut)].seq <= seq
    BY <1>1, <2>1 DEF InOrder
  <2>3. espOut[Len(espOut)].seq \in Nat /\ seq \in Nat
    BY <2>1, Typed DEF HostFormed
  <2>4. QED
    BY <2>2, <2>3
<1>6. espOut' \in Seq(Answerings) /\ Len(espOut') = 0
  BY <1>1, <1>4, <1>5, Cut DEF PortFormed
<1>7. espOut' = <<>>
  BY <1>6
<1>8. espIn' = <<>>
  BY <1>2 DEF Answered
<1>9. QED
  BY <1>1, <1>2, <1>3, <1>7, <1>8
-----------------------------------------------------------------------------
\* The steps of the host while a run lasts.
LEMMA WhenRunReplied == ASSUME SessionInv, RunReplied PROVE SessionInv'
<1>1. PICK reply \in Replies : Answered("run", runSeq, reply) /\ failure' = ~reply.ok
  BY DEF RunReplied
<1>2. /\ pc = "running" /\ pc' = "stop" /\ UNCHANGED <<seq, acquiring, lowered, verdict, runs, stats>>
      /\ UNCHANGED <<runs, runSeq, stats, outputs, received, stream, pipe, usb, released, stopSeq, fpga>>
  BY DEF RunReplied, Go, asked, reading, esp, board
<1>3. HostFormed /\ PortFormed /\ DeviceFormed /\ Line /\ OfRun /\ Over /\ Safe
  BY DEF SessionInv
<1>4. Taken
  BY <1>1, <1>2, <1>3, Takes
<1>5. PICK i \in DOMAIN espOut : espOut[i] = reply /\ reply.op = "run" /\ reply.seq = runSeq
  BY <1>1, <1>3, First
<1>6. reply.ok \in BOOLEAN
  BY <1>3, <1>5, Typed
<1>7. AtWork
  <2>1. failure' \in BOOLEAN
    BY <1>1, <1>6
  <2>2. QED
    BY <1>2, <1>3, <1>4, <2>1 DEF AtWork, Active, HostFormed, DeviceFormed
<1>8. InOrder /\ OwnRequests /\ OwnAcquisition
  BY <1>2, <1>3 DEF Line, OfRun, Active
<1>9. acquiring = <<>>
  <2> SUFFICES ASSUME acquiring # <<>> PROVE FALSE
    OBVIOUS
  <2>1. acquiring[1].seq = runSeq /\ espOut[i].seq < acquiring[1].seq
    BY <1>8 DEF OwnAcquisition, InOrder
  <2>2. QED
    BY <1>3, <1>5, <2>1 DEF HostFormed
<1>10. NoneOf({"run"})
  <2> SUFFICES ASSUME NEW j \in DOMAIN espIn, espIn[j].op = "run" PROVE FALSE
    BY DEF NoneOf
  <2>1. espIn[j].seq = runSeq /\ espOut[i].seq < espIn[j].seq
    BY <1>8 DEF OwnRequests, InOrder
  <2>2. QED
    BY <1>3, <1>5, <2>1 DEF HostFormed
<1>11. Over'
  <2>1. ~failure' => stats.run = runs
    BY <1>1, <1>5, <1>8 DEF OwnAcquisition
  <2>2. NoneOf({"run"})' /\ acquiring' = <<>>
    BY <1>7, <1>9, <1>10, Working
  <2>3. QED
    BY <1>2, <2>1, <2>2 DEF Over
<1>12. Awaited'
  BY <1>2 DEF Awaited
<1>13. QED
  BY <1>2, <1>7, <1>11, <1>12, Working DEF SessionInv

LEMMA WhenStopWanted == ASSUME SessionInv, StopWanted PROVE SessionInv'
<1>1. HostFormed /\ DeviceFormed
  BY DEF SessionInv
<1>2. /\ pc = "running" /\ pc' = "running" /\ Sent("stop") /\ stopSeq' = seq'
      /\ UNCHANGED <<runs, runSeq, failure, lowered, verdict, stats, outputs, received, stream, pipe, usb,
                     released, fpga>>
  BY DEF StopWanted, Send, Request, Sent, result, reading, esp, board
<1>3. stopSeq' \in Nat
  BY <1>1, <1>2 DEF Sent, HostFormed
<1>4. AtWork
  BY <1>1, <1>2, <1>3 DEF AtWork, Active, HostFormed, DeviceFormed
<1>5. Over' /\ Awaited'
  BY <1>2 DEF Over, Awaited
<1>6. QED
  BY <1>2, <1>4, <1>5, Working DEF SessionInv

LEMMA WhenFailed == ASSUME SessionInv, Watch \/ GiveUp \/ NoEnd PROVE SessionInv'
<1>1. HostFormed /\ PortFormed /\ DeviceFormed
  BY DEF SessionInv
<1>2. /\ pc \in {"running", "end"} /\ pc' = "abort" /\ failure' = TRUE
      /\ UNCHANGED <<seq, acquiring, runs, runSeq, stopSeq, lowered, verdict, stats, outputs, received,
                     stream, pipe, usb, released, fpga>>
  BY DEF Watch, GiveUp, NoEnd, Fail, Go, asked, reading, esp, board
<1>3. Taken \/ Still
  <2>1. CASE Watch \/ NoEnd
    BY <1>2, <2>1 DEF Watch, NoEnd, port, Still
  <2>2. CASE GiveUp
    BY <1>1, <1>2, <2>2, Takes DEF GiveUp
  <2>3. QED
    BY <2>1, <2>2
<1>4. AtWork
  BY <1>1, <1>2, <1>3 DEF AtWork, Active, HostFormed, DeviceFormed
<1>5. Over' /\ Awaited'
  BY <1>2 DEF Over, Awaited
<1>6. QED
  BY <1>2, <1>4, <1>5, Working DEF SessionInv

LEMMA ControlsKept == fpga \in Controls => Disarmed(fpga) \in Controls /\ Released(fpga) \in Controls
BY DEF Controls, Disarmed, Released

LEMMA WhenStopReceiver == ASSUME SessionInv, StopReceiver PROVE SessionInv'
<1>1. HostFormed /\ DeviceFormed
  BY DEF SessionInv
<1>2. /\ pc = "stop" /\ pc' \in {"lower", "stopping", "abort"}
      /\ failure' = failure \/ failure' = TRUE
      /\ fpga' = fpga \/ fpga' = Disarmed(fpga)
      /\ UNCHANGED <<seq, espIn, espOut, acquiring, runs, runSeq, stopSeq, lowered, verdict, stats, outputs,
                     received, stream, pipe, usb, released>>
  BY DEF StopReceiver, Command, Go, asked, reading, esp, port
<1>3. fpga' \in Controls
  BY <1>1, <1>2, ControlsKept DEF DeviceFormed
<1>4. AtWork
  BY <1>1, <1>2, <1>3 DEF AtWork, Active, HostFormed, Still
<1>5. Awaited'
  BY <1>2 DEF Awaited
<1>6. QED
  BY <1>1, <1>2, <1>4, <1>5, Working DEF SessionInv, HostFormed

LEMMA WhenStopped == ASSUME SessionInv, Stopped PROVE SessionInv'
<1>1. HostFormed /\ PortFormed /\ DeviceFormed
  BY DEF SessionInv
<1>2. /\ pc \in {"stopping", "abort_stopping"} /\ pc' \in {"lower", "abort_lower"}
      /\ UNCHANGED <<seq, acquiring, runs, runSeq, stopSeq, failure, lowered, verdict, stats, outputs,
                     received, stream, pipe, usb, released, fpga>>
  BY DEF Stopped, Go, asked, reading, esp, board, result
<1>3. Taken
  BY <1>1, <1>2, Takes DEF Stopped, Got
<1>4. AtWork
  BY <1>1, <1>2, <1>3 DEF AtWork, Active, HostFormed, DeviceFormed
<1>5. Awaited'
  BY <1>2 DEF Awaited
<1>6. QED
  BY <1>2, <1>4, <1>5, Working DEF SessionInv

LEMMA SentLast ==
    ASSUME HostFormed, PortFormed, NEW op \in Op, Sent(op)
    PROVE  LastSent(op)' /\ espIn' # <<>>
BY SentPort DEF LastSent

LEMMA WhenLower == ASSUME SessionInv, Lower PROVE SessionInv'
<1>1. HostFormed /\ PortFormed /\ DeviceFormed
  BY DEF SessionInv
<1>2. /\ pc \in {"lower", "abort_lower"} /\ pc' \in {"lowering", "abort_lowering"} /\ Sent("low")
      /\ UNCHANGED <<runs, runSeq, stopSeq, failure, lowered, verdict, stats, outputs,
                     received, stream, pipe, usb, released, fpga>>
  BY DEF Lower, Send, Sent, Request, Go, reading, esp, board, result
<1>3. AtWork
  BY <1>1, <1>2 DEF AtWork, Active, HostFormed, DeviceFormed
<1>4. LastSent("low")' /\ espIn' # <<>>
  BY <1>1, <1>2, SentLast DEF Op
<1>5. Awaited'
  BY <1>2, <1>4 DEF Awaited
<1>6. QED
  BY <1>2, <1>3, <1>5, Working DEF SessionInv

LEMMA WhenLowered == ASSUME SessionInv, Lowered PROVE SessionInv'
<1>1. HostFormed /\ PortFormed /\ DeviceFormed /\ Line /\ Awaited
  BY DEF SessionInv
<1>2. /\ pc \in {"lowering", "abort_lowering"} /\ pc' \in {"end", "abort", "finish"}
      /\ UNCHANGED <<seq, acquiring, runs, runSeq, stopSeq, verdict, stats, outputs,
                     received, stream, pipe, usb, released, fpga>>
      /\ \/ Got("low", seq) /\ lowered' = TRUE /\ failure' = failure
         \/ TimedOut("low", seq) /\ failure' = TRUE /\ lowered' = lowered
  BY DEF Lowered, Go, asked, reading, esp, board
<1>3. Taken
  BY <1>1, <1>2, Takes DEF Got
<1>4. AtWork
  BY <1>1, <1>2, <1>3 DEF AtWork, Active, HostFormed, DeviceFormed
<1>5. Awaited'
  BY <1>2 DEF Awaited
<1>6. Over'
  BY <1>2, <1>4, Working
<1>7. Safe'
  <2>1. CASE Got("low", seq)
    <3>1. PICK reply \in Replies : Answered("low", seq, reply)
      BY <2>1 DEF Got
    <3>2. InOrder /\ LastSent("low") /\ (espIn = <<>> => ~outputs)
      BY <1>1, <1>2 DEF Line, Awaited
    <3>3. acquiring = <<>> /\ espIn = <<>> /\ espIn' = <<>>
      BY <1>1, <3>1, <3>2, LastReply
    <3>4. acquiring' = <<>> /\ ~outputs' /\ NoneOf({"run", "high"})'
      BY <1>2, <3>2, <3>3 DEF NoneOf
    <3>5. pc' \notin Preparing /\ ~released'
      BY <1>2 DEF Preparing, Safe, SessionInv
    <3>6. QED
      BY <3>4, <3>5 DEF Safe
  <2>2. CASE lowered' = lowered
    BY <1>4, <2>2, Working
  <2>3. QED
    BY <1>2, <2>1, <2>2
<1>8. QED
  BY <1>2, <1>4, <1>5, <1>6, <1>7, Working DEF SessionInv

LEMMA WhenStreamEnded == ASSUME SessionInv, StreamEnded PROVE SessionInv'
<1>1. HostFormed /\ DeviceFormed
  BY DEF SessionInv
<1>2. /\ pc = "end" /\ pc' = "finish"
      /\ UNCHANGED <<seq, espIn, espOut, acquiring, runs, runSeq, stopSeq, failure, lowered, verdict, stats,
                     outputs, received, stream, pipe, usb, released, fpga>>
  BY DEF StreamEnded, Go, asked, reading, esp, board, result, port
<1>3. AtWork
  BY <1>1, <1>2 DEF AtWork, Active, HostFormed, DeviceFormed, Still
<1>4. Awaited'
  BY <1>2 DEF Awaited
<1>5. QED
  BY <1>2, <1>3, <1>4, Working DEF SessionInv

LEMMA WhenAbortStop == ASSUME SessionInv, AbortStop PROVE SessionInv'
<1>1. HostFormed /\ DeviceFormed
  BY DEF SessionInv
<1>2. /\ pc = "abort" /\ pc' = "abort_stopping" /\ Sent("stop") /\ stopSeq' = seq'
      /\ fpga' = fpga \/ fpga' = Disarmed(fpga)
      /\ UNCHANGED <<runs, runSeq, failure, lowered, verdict, stats,
                     outputs, received, stream, pipe, usb, released>>
  BY DEF AbortStop, Command, Send, Sent, Request, Go, reading, esp, result
<1>3. fpga' \in Controls
  BY <1>1, <1>2, ControlsKept DEF DeviceFormed
<1>4. stopSeq' \in Nat
  BY <1>1, <1>2 DEF Sent, HostFormed
<1>5. AtWork
  BY <1>1, <1>2, <1>3, <1>4 DEF AtWork, Active, HostFormed
<1>6. Awaited'
  BY <1>2 DEF Awaited
<1>7. QED
  BY <1>2, <1>5, <1>6, Working DEF SessionInv

LEMMA WhenFinish == ASSUME SessionInv, Finish PROVE SessionInv'
<1>1. HostFormed /\ PortFormed /\ DeviceFormed /\ Line
  BY DEF SessionInv
<1>2. /\ pc = "finish" /\ pc' = "stats" /\ Sent("stats")
      /\ failure' \in {failure \/ reader = "error", TRUE}
      /\ UNCHANGED <<runs, runSeq, stopSeq, lowered, verdict, stats, outputs, received, stream, pipe, usb,
                     released, fpga>>
  BY DEF Finish, Send, Sent, Request, Go, esp, board
<1>3. failure' \in BOOLEAN /\ (~failure' => ~failure)
  BY <1>1, <1>2 DEF HostFormed
<1>4. AtWork
  BY <1>1, <1>2, <1>3 DEF AtWork, Active, HostFormed, DeviceFormed
<1>5. LastSent("stats")'
  BY <1>1, <1>2, SentLast DEF Op
<1>6. Counted'
  <2>1. espOut' = espOut /\ seq' = seq + 1
    BY <1>2 DEF Sent
  <2>2. InOrder
    BY <1>1, <1>2 DEF Line
  <2>3. \A i \in DOMAIN espOut : espOut[i].seq <= seq /\ espOut[i].seq \in Nat /\ seq \in Nat
    BY <1>1, <2>2, Typed DEF InOrder, HostFormed
  <2>4. \A i \in DOMAIN espOut : espOut[i].seq # seq + 1
    BY <2>3
  <2>5. QED
    BY <2>1, <2>4 DEF Counted
<1>7. Awaited'
  BY <1>2, <1>5, <1>6 DEF Awaited
<1>8. QED
  BY <1>2, <1>3, <1>4, <1>7, Working DEF SessionInv

LEMMA LastOf ==
    ASSUME NEW s \in Seq(Units), s # <<>>
    PROVE  s[Len(s)].at \in Nat /\ Len(s) \in Nat
<1>1. Len(s) \in DOMAIN s
  OBVIOUS
<1>2. s[Len(s)] \in Units
  BY <1>1
<1>3. QED
  BY <1>2 DEF Units

\* A good verdict: the counts agree exactly when nothing is missing at the end.
LEMMA WhenJudge == ASSUME SessionInv, Judge PROVE SessionInv'
<1>1. HostFormed /\ PortFormed /\ DeviceFormed /\ StreamFormed /\ Line /\ Awaited /\ Over
  BY DEF SessionInv
<1>2. /\ pc = "stats" /\ pc' = "close"
      /\ UNCHANGED <<seq, acquiring, runs, runSeq, stopSeq, failure, lowered, stats, outputs, reader,
                     received, stream, pipe, usb, released, fpga>>
  BY DEF Judge, Go, asked, reading, esp, board
<1>3. Taken
  BY <1>1, <1>2, Takes DEF Judge
<1>4. AtWork
  BY <1>1, <1>2, <1>3 DEF AtWork, Active, HostFormed, DeviceFormed
<1>5. Awaited'
  BY <1>2 DEF Awaited
<1>6. Judged'
  <2> SUFFICES ASSUME verdict' = "ok" PROVE Judged'
    BY DEF Judged
  <2>1. PICK reply \in Replies : Answered("stats", seq, reply) /\ Passed(reply.stats)
    BY DEF Judge
  <2>2. InOrder /\ LastSent("stats") /\ Counted
    BY <1>1, <1>2 DEF Line, Awaited
  <2>3. /\ acquiring = <<>> /\ espIn' = <<>>
        /\ \E i \in DOMAIN espOut : espOut[i] = reply /\ reply.op = "stats" /\ reply.seq = seq
    BY <1>1, <2>1, <2>2, LastReply
  <2>4. reply.stats = stats
    BY <2>2, <2>3 DEF Counted
  <2>5. stats.ok /\ reader = "ended" /\ received = stream /\ ~failure
    BY <2>1, <2>4 DEF Passed
  <2>6. Len(stream) + GapsIn(stream) = stats.units
    BY <2>1, <2>4 DEF Passed, Agrees
  <2>7. stats.run = runs
    BY <1>1, <1>2, <2>5 DEF Over, Active
  <2>8. CASE stream = <<>>
    <3>1. Len(stream) + GapsIn(stream) = 0
      BY <2>8 DEF GapsIn
    <3>2. QED
      BY <1>2, <2>3, <2>5, <2>6, <2>7, <2>8, <3>1 DEF Judged
  <2>9. CASE stream # <<>>
    <3>1. GapsIn(stream) = stream[Len(stream)].at - Len(stream)
      BY <2>9 DEF GapsIn
    <3>2. stream[Len(stream)].at \in Nat /\ Len(stream) \in Nat
      BY <1>1, <2>9, LastOf DEF StreamFormed
    <3>3. stats.units = stream[Len(stream)].at
      BY <2>6, <3>1, <3>2
    <3>4. QED
      BY <1>2, <2>3, <2>5, <2>7, <2>9, <3>3 DEF Judged
  <2>10. QED
    BY <2>8, <2>9
<1>7. QED
  BY <1>2, <1>4, <1>5, <1>6, Working DEF SessionInv

\* run_capture is over, or its process has died, and a new one may begin.
LEMMA Left ==
    ASSUME SessionInv, LeaveRun, Still, pc' \in {"idle", "off"}, pc' = "idle" => pc # "off" /\ pc # "info",
           UNCHANGED <<runs, outputs, stats, stream, pipe, usb>>, fpga' \in Controls,
           lowered' \in BOOLEAN, lowered' => lowered, released' \in BOOLEAN,
           released' => pc' = "idle" /\ ~fpga'.armed /\ ~fpga'.open
    PROVE  SessionInv'
<1>1. HostFormed /\ PortFormed /\ DeviceFormed /\ StreamFormed /\ Line /\ OfRun /\ Safe
  BY DEF SessionInv
<1>2. /\ seq' = seq /\ espIn' = espIn /\ espOut' = espOut /\ acquiring' = acquiring
      /\ failure' = FALSE /\ verdict' = "none" /\ runSeq' = 0 /\ stopSeq' = 0
      /\ reader' = "off" /\ received' = <<>>
  BY DEF Still, LeaveRun
<1>3. HostFormed'
  BY <1>1, <1>2 DEF HostFormed, Before
<1>4. PortFormed' /\ DeviceFormed'
  BY <1>1, <1>2 DEF PortFormed, DeviceFormed
<1>5. StreamFormed'
  BY <1>1, <1>2 DEF StreamFormed
<1>6. Line'
  BY <1>1, <1>2 DEF Line, InOrder
<1>7. Awaited' /\ Clean' /\ Over' /\ Judged'
  BY <1>2 DEF Awaited, Clean, Over, Judged, Active
<1>8. OfRun'
  BY <1>1, <1>2 DEF OfRun, Active
<1>9. Safe'
  BY <1>1, <1>2 DEF Safe, NoneOf, Preparing
<1>10. QED
  BY <1>3, <1>4, <1>5, <1>6, <1>7, <1>8, <1>9 DEF SessionInv

LEMMA WhenCloseStream == ASSUME SessionInv, CloseStream PROVE SessionInv'
<1>1. HostFormed /\ DeviceFormed /\ StreamFormed
  BY DEF SessionInv
<1>2. PICK o \in Outcome : Command(o, Released(fpga)) /\ released' = (o = "answered")
  BY DEF CloseStream
<1>3. /\ pc = "close" /\ pc' = "idle" /\ LeaveRun /\ Still
      /\ UNCHANGED <<runs, outputs, stats, stream, pipe, usb, lowered>>
      /\ fpga' = fpga \/ fpga' = Released(fpga)
  BY <1>2 DEF CloseStream, Command, Go, Still, port, esp, board
<1>4. fpga' \in Controls
  BY <1>1, <1>3, ControlsKept DEF DeviceFormed
<1>5. released' \in BOOLEAN
  BY <1>2
<1>6. released' => ~fpga'.armed /\ ~fpga'.open
  <2> SUFFICES ASSUME released' PROVE ~fpga'.armed /\ ~fpga'.open
    OBVIOUS
  <2>1. fpga' = Released(fpga)
    BY <1>2 DEF Command, Executed
  <2>2. QED
    BY <1>1, <2>1 DEF Released, DeviceFormed, Controls
<1>7. lowered' \in BOOLEAN
  BY <1>1, <1>3 DEF HostFormed
<1>8. QED
  BY <1>3, <1>4, <1>5, <1>6, <1>7, Left

LEMMA WhenDie == ASSUME SessionInv, ProcessDies PROVE SessionInv'
<1>1. HostFormed /\ PortFormed /\ DeviceFormed /\ StreamFormed /\ OfRun
  BY DEF SessionInv
<1>2. /\ pc' = "off" /\ seq' = 0 /\ espIn' = espIn /\ espOut' = espOut /\ acquiring' = acquiring
      /\ failure' = FALSE /\ verdict' = "none" /\ runSeq' = 0 /\ stopSeq' = 0
      /\ reader' = "off" /\ received' = <<>> /\ lowered' = FALSE /\ released' = FALSE
      /\ UNCHANGED <<runs, outputs, stats, fpga, stream, pipe, usb>>
  BY DEF ProcessDies, LeaveRun, Go, port, esp, board
<1>3. HostFormed'
  BY <1>1, <1>2 DEF HostFormed, Before
<1>4. PortFormed' /\ DeviceFormed'
  BY <1>1, <1>2 DEF PortFormed, DeviceFormed
<1>5. StreamFormed'
  BY <1>1, <1>2 DEF StreamFormed
<1>6. Line' /\ Awaited' /\ Clean' /\ Over' /\ Judged'
  BY <1>2 DEF Line, Awaited, Clean, Over, Judged, Active
<1>7. OfRun' /\ Safe'
  BY <1>1, <1>2 DEF OfRun, Safe, Active, Preparing
<1>8. QED
  BY <1>3, <1>4, <1>5, <1>6, <1>7 DEF SessionInv
-----------------------------------------------------------------------------
\* The steps of the host that come before a run.
Apart == /\ pc \in Before /\ pc' \in Before
         /\ UNCHANGED <<acquiring, stats, outputs, reader, received, failure, verdict, runSeq, stopSeq>>

LEMMA Preparation ==
    ASSUME SessionInv, Apart
    PROVE  /\ OfRun' /\ Over' /\ Judged'
           /\ pc' \notin {"arm", "drain"} => Clean'
           /\ reader' = "off" /\ received' = <<>>
<1>1. /\ pc \in Before /\ pc' \in Before
      /\ acquiring' = acquiring /\ stats' = stats /\ verdict' = verdict
      /\ reader' = reader /\ received' = received
  BY DEF Apart
<1>2. reader = "off" /\ received = <<>>
  BY <1>1 DEF SessionInv, Clean
<1>3. pc' \notin Active /\ pc # "close"
  BY <1>1 DEF Before, Preparing, Active
<1>4. OfRun'
  BY <1>1, <1>3 DEF OfRun, SessionInv
<1>5. Over'
  BY <1>3 DEF Over
<1>6. Judged'
  BY <1>1, <1>3 DEF Judged, SessionInv
<1>7. QED
  BY <1>1, <1>2, <1>4, <1>5, <1>6 DEF Clean

LEMMA WhenOpen == ASSUME SessionInv, Open PROVE SessionInv'
<1>1. HostFormed /\ PortFormed /\ DeviceFormed /\ StreamFormed /\ Safe
  BY DEF SessionInv
<1> DEFINE r == [op |-> "info", seq |-> 1, run |-> runs]
<1>2. /\ pc = "off" /\ pc' = "info" /\ seq' = 1 /\ espIn' = Append(espIn, r)
      /\ \E n \in 0 .. Len(espOut) : espOut' = SubSeq(espOut, n + 1, Len(espOut))
      /\ UNCHANGED <<runs, runSeq, stopSeq, failure, lowered, released, verdict, reader, received,
                     acquiring, outputs, stats, fpga, stream, pipe, usb>>
  BY DEF Open, Request, Go, result, reading, esp, board
<1>3. r \in Requests /\ r.op = "info"
  BY <1>1 DEF HostFormed, Requests, Op
<1>4. espIn \in Seq(Requests) /\ espOut \in Seq(Answerings)
  BY <1>1 DEF PortFormed
<1> HIDE DEF r
<1>5. /\ espIn' \in Seq(Requests) /\ espIn' # <<>> /\ Len(espIn') = Len(espIn) + 1
      /\ \A j \in DOMAIN espIn' : \/ j = Len(espIn) + 1 /\ espIn'[j] = r
                                  \/ j \in DOMAIN espIn /\ espIn'[j] = espIn[j]
      /\ espIn'[Len(espIn) + 1] = r
  BY <1>2, <1>3, <1>4, Appended
<1>6. espOut' \in Seq(Answerings)
  BY <1>2, <1>4, Cut
<1>7. HostFormed' /\ DeviceFormed' /\ StreamFormed'
  BY <1>1, <1>2 DEF HostFormed, DeviceFormed, StreamFormed, Before
<1>8. PortFormed'
  BY <1>1, <1>2, <1>5, <1>6 DEF PortFormed
<1>9. Line'
  BY <1>2 DEF Line
<1>10. Awaited'
  BY <1>2, <1>3, <1>5 DEF Awaited, LastSent
<1>11. OfRun' /\ Over' /\ Judged' /\ Clean'
  BY <1>2, Preparation DEF Apart, Before
<1>12. Safe'
  BY <1>1, <1>2, <1>3, <1>5 DEF Safe, NoneOf, Preparing
<1>13. QED
  BY <1>7, <1>8, <1>9, <1>10, <1>11, <1>12 DEF SessionInv

LEMMA WhenIdentify == ASSUME SessionInv, Identify, Identified PROVE SessionInv'
<1>1. HostFormed /\ PortFormed /\ DeviceFormed /\ StreamFormed /\ Awaited /\ Safe
  BY DEF SessionInv
<1>2. /\ pc = "info" /\ pc' \in {"idle", "off"}
      /\ UNCHANGED <<runs, seq, runSeq, stopSeq, failure, lowered, released, verdict, reader, received,
                     acquiring, outputs, stats, fpga, stream, pipe, usb>>
  BY DEF Identify, Go, asked, result, reading, esp, board
<1>3. Taken
  BY <1>1, <1>2, Takes DEF Identify, Got
<1>4. PortFormed'
  BY <1>1, <1>3, TakenPort
<1>5. HostFormed' /\ DeviceFormed' /\ StreamFormed'
  BY <1>1, <1>2 DEF HostFormed, DeviceFormed, StreamFormed, Before
<1>6. Line'
  <2> SUFFICES ASSUME pc' = "idle" PROVE InOrder'
    BY <1>2 DEF Line
  <2>1. espIn' = <<>> /\ espOut' = <<>> /\ espIn = <<>>
    BY <1>2, <1>3 DEF Identified, Taken
  <2>2. acquiring' = <<>>
    BY <1>1, <1>2, <2>1 DEF Awaited, LastSent
  <2>3. QED
    BY <2>1, <2>2 DEF InOrder
<1>7. Awaited'
  BY <1>2 DEF Awaited
<1>8. OfRun' /\ Over' /\ Judged' /\ Clean'
  BY <1>2, Preparation DEF Apart, Before
<1>9. Safe'
  BY <1>1, <1>2, <1>3 DEF Safe, NoneOf, Preparing, Taken
<1>10. QED
  BY <1>4, <1>5, <1>6, <1>7, <1>8, <1>9 DEF SessionInv

\* A step that concerns the FPGA alone.
LEMMA FpgaAsked ==
    ASSUME SessionInv, pc \in Before \ {"off", "info"}, pc' \in Before \ {"info", "driving"}, Still,
           UNCHANGED <<acquiring, stats, outputs, reader, received, failure, verdict, runSeq, stopSeq>>,
           runs' \in Nat, lowered' \in BOOLEAN, released' \in BOOLEAN,
           fpga' \in Controls, stream' \in Seq(Units), pipe' \in Seq(Items), usb' \in Seq(Items),
           Safe', Clean'
    PROVE  SessionInv'
<1>1. HostFormed /\ PortFormed /\ DeviceFormed /\ StreamFormed /\ Line
  BY DEF SessionInv
<1>2. seq' = seq /\ espIn' = espIn /\ espOut' = espOut
  BY DEF Still
<1>3. OfRun' /\ Over' /\ Judged'
  BY Preparation DEF Apart
<1>4. PortFormed' /\ DeviceFormed'
  BY <1>1, <1>2 DEF PortFormed, DeviceFormed
<1>5. Line'
  BY <1>1, <1>2 DEF Line, InOrder
<1>6. Awaited'
  BY DEF Awaited, Before, Preparing
<1>7. StreamFormed'
  BY <1>1 DEF StreamFormed
<1>8. HostFormed'
  BY <1>1, <1>2 DEF HostFormed
<1>9. QED
  BY <1>3, <1>4, <1>5, <1>6, <1>7, <1>8 DEF SessionInv

LEMMA WhenBegin == ASSUME SessionInv, Begin PROVE SessionInv'
<1>1. HostFormed /\ DeviceFormed /\ StreamFormed /\ Safe
  BY DEF SessionInv
<1>2. /\ pc = "idle" /\ pc' \in {"release", "outputs", "off"} /\ runs' = runs + 1
      /\ lowered' = FALSE /\ released' = FALSE /\ Still
      /\ UNCHANGED <<acquiring, stats, outputs, reader, received, failure, verdict, runSeq, stopSeq,
                     fpga, stream, pipe, usb>>
  BY DEF Begin, FoundOpen, Go, Still, asked, reading, port, esp, board
<1>3. pc \in Before \ {"off", "info"} /\ pc' \in Before \ {"info", "driving"}
  BY <1>2 DEF Before, Preparing
<1>4. Clean'
  BY <1>2, <1>3, Preparation DEF Apart
<1>5. Safe'
  BY <1>2 DEF Safe
<1>6. runs' \in Nat
  BY <1>1, <1>2 DEF HostFormed
<1>7. /\ lowered' \in BOOLEAN /\ released' \in BOOLEAN /\ fpga' \in Controls
      /\ stream' \in Seq(Units) /\ pipe' \in Seq(Items) /\ usb' \in Seq(Items)
  BY <1>1, <1>2 DEF DeviceFormed, StreamFormed
<1>8. QED
  BY <1>2, <1>3, <1>4, <1>5, <1>6, <1>7, FpgaAsked

LEMMA WhenReleaseLeftOver == ASSUME SessionInv, ReleaseLeftOver PROVE SessionInv'
<1>1. HostFormed /\ DeviceFormed /\ StreamFormed /\ Safe
  BY DEF SessionInv
<1>2. /\ pc = "release" /\ pc' \in {"outputs", "off"} /\ Still
      /\ fpga' = fpga \/ fpga' = Released(fpga)
      /\ UNCHANGED <<runs, acquiring, stats, outputs, reader, received, failure, verdict, runSeq, stopSeq,
                     lowered, released, stream, pipe, usb>>
  BY DEF ReleaseLeftOver, Command, Go, Still, asked, result, reading, port, esp
<1>3. pc \in Before \ {"off", "info"} /\ pc' \in Before \ {"info", "driving"}
  BY <1>2 DEF Before, Preparing
<1>4. Clean'
  BY <1>2, <1>3, Preparation DEF Apart
<1>5. Safe'
  BY <1>1, <1>2 DEF Safe, Preparing
<1>6. fpga' \in Controls
  BY <1>1, <1>2, ControlsKept DEF DeviceFormed
<1>7. /\ runs' \in Nat /\ lowered' \in BOOLEAN /\ released' \in BOOLEAN
      /\ stream' \in Seq(Units) /\ pipe' \in Seq(Items) /\ usb' \in Seq(Items)
  BY <1>1, <1>2 DEF HostFormed, StreamFormed
<1>8. QED
  BY <1>2, <1>3, <1>4, <1>5, <1>6, <1>7, FpgaAsked

LEMMA WhenDriveOutputs == ASSUME SessionInv, DriveOutputs PROVE SessionInv'
<1>1. HostFormed /\ PortFormed /\ DeviceFormed /\ StreamFormed /\ Line /\ Safe
  BY DEF SessionInv
<1>2. /\ pc = "outputs" /\ pc' = "driving" /\ Sent("high") /\ "high" \in Op
      /\ UNCHANGED <<runs, acquiring, stats, outputs, reader, received, failure, verdict, runSeq, stopSeq,
                     lowered, released, fpga, stream, pipe, usb>>
  BY DEF DriveOutputs, Send, Sent, Request, Go, result, reading, esp, board, Op
<1>3. PortFormed' /\ InOrder' /\ seq' \in Nat
  BY <1>1, <1>2, PortKept DEF Line
<1>4. HostFormed' /\ DeviceFormed' /\ StreamFormed'
  BY <1>1, <1>2, <1>3 DEF HostFormed, DeviceFormed, StreamFormed, Before, Preparing
<1>5. Line' /\ Awaited'
  BY <1>1, <1>2, <1>3, SentLast DEF Line, Awaited
<1>6. OfRun' /\ Over' /\ Judged' /\ Clean'
  BY <1>2, Preparation DEF Apart, Before, Preparing
<1>7. Safe'
  BY <1>1, <1>2 DEF Safe, Preparing
<1>8. QED
  BY <1>3, <1>4, <1>5, <1>6, <1>7 DEF SessionInv

LEMMA WhenOutputsDriven == ASSUME SessionInv, OutputsDriven PROVE SessionInv'
<1>1. HostFormed /\ PortFormed /\ DeviceFormed /\ StreamFormed /\ Line /\ Awaited /\ Safe
  BY DEF SessionInv
<1>2. /\ pc = "driving" /\ pc' \in {"arm", "off"} /\ (pc' = "arm" => Got("high", seq))
      /\ UNCHANGED <<runs, seq, acquiring, stats, outputs, reader, received, failure, verdict, runSeq, stopSeq,
                     lowered, released, fpga, stream, pipe, usb>>
  BY DEF OutputsDriven, Go, asked, result, reading, esp, board
<1>3. Taken
  BY <1>1, <1>2, Takes DEF OutputsDriven, Got
<1>4. InOrder /\ LastSent("high")
  BY <1>1, <1>2 DEF Line, Awaited
<1>5. PortFormed' /\ InOrder'
  BY <1>1, <1>3, <1>4, PortKept
<1>6. HostFormed' /\ DeviceFormed' /\ StreamFormed'
  BY <1>1, <1>2 DEF HostFormed, DeviceFormed, StreamFormed, Before, Preparing
<1>7. Line' /\ Awaited'
  BY <1>2, <1>5 DEF Line, Awaited
<1>8. /\ OfRun' /\ Over' /\ Judged'
      /\ pc' \notin {"arm", "drain"} => Clean'
      /\ reader' = "off" /\ received' = <<>>
  BY <1>2, Preparation DEF Apart, Before, Preparing
<1>9. Clean'
  <2> SUFFICES ASSUME pc' = "arm" PROVE Clean'
    BY <1>2, <1>8
  <2>1. PICK reply \in Replies : Answered("high", seq, reply)
    BY <1>2 DEF Got
  <2>2. acquiring = <<>> /\ espIn' = <<>> /\ espOut' = <<>>
    BY <1>1, <1>4, <2>1, LastReply
  <2>3. QED
    BY <1>2, <1>8, <2>2 DEF Clean
<1>10. Safe'
  BY <1>1, <1>2 DEF Safe, Preparing
<1>11. QED
  BY <1>5, <1>6, <1>7, <1>8, <1>9, <1>10 DEF SessionInv

LEMMA WhenArm == ASSUME SessionInv, Arm PROVE SessionInv'
<1>1. HostFormed /\ DeviceFormed /\ StreamFormed /\ Clean /\ Safe
  BY DEF SessionInv
<1>2. /\ pc = "arm" /\ pc' \in {"drain", "off"} /\ Still
      /\ \/ fpga' = Armed /\ stream' = <<>> /\ pipe' = <<>>
         \/ pc' = "off" /\ UNCHANGED <<fpga, stream, pipe>>
      /\ UNCHANGED <<runs, acquiring, stats, outputs, reader, received, failure, verdict, runSeq, stopSeq,
                     lowered, released, usb>>
  BY DEF Arm, Cleared, Go, Still, asked, result, reading, port, esp, board
<1>3. pc \in Before \ {"off", "info"} /\ pc' \in Before \ {"info", "driving"}
  BY <1>2 DEF Before, Preparing
<1>4. Armed \in Controls /\ Armed.armed
  BY DEF Armed, Controls
<1>5. /\ runs' \in Nat /\ lowered' \in BOOLEAN /\ released' \in BOOLEAN /\ fpga' \in Controls
      /\ stream' \in Seq(Units) /\ pipe' \in Seq(Items) /\ usb' \in Seq(Items)
  BY <1>1, <1>2, <1>4, Empty DEF HostFormed, DeviceFormed, StreamFormed
<1>6. Clean'
  <2>1. reader' = "off" /\ received' = <<>>
    BY <1>2, <1>3, Preparation DEF Apart
  <2>2. espIn' = <<>> /\ espOut' = <<>> /\ acquiring' = <<>>
    BY <1>1, <1>2 DEF Clean, Still
  <2>3. QED
    BY <1>2, <1>4, <2>1, <2>2 DEF Clean
<1>7. Safe'
  BY <1>1, <1>2 DEF Safe, Preparing
<1>8. QED
  BY <1>2, <1>3, <1>5, <1>6, <1>7, FpgaAsked

LEMMA WhenDrain == ASSUME SessionInv, Drain PROVE SessionInv'
<1>1. HostFormed /\ DeviceFormed /\ StreamFormed /\ Clean /\ Safe
  BY DEF SessionInv
<1>2. /\ pc = "drain" /\ pc' = "drain" /\ Still /\ usb # <<>> /\ usb' = Tail(usb)
      /\ UNCHANGED <<runs, acquiring, stats, outputs, reader, received, failure, verdict, runSeq, stopSeq,
                     lowered, released, fpga, stream, pipe>>
  BY DEF Drain, Still, host, asked, result, reading, port, esp, board
<1>3. pc \in Before \ {"off", "info"} /\ pc' \in Before \ {"info", "driving"}
  BY <1>2 DEF Before, Preparing
<1>4. /\ runs' \in Nat /\ lowered' \in BOOLEAN /\ released' \in BOOLEAN /\ fpga' \in Controls
      /\ stream' \in Seq(Units) /\ pipe' \in Seq(Items) /\ usb' \in Seq(Items)
  BY <1>1, <1>2, Behind DEF HostFormed, DeviceFormed, StreamFormed
<1>5. Clean'
  BY <1>1, <1>2 DEF Clean, Still
<1>6. Safe'
  BY <1>1, <1>2 DEF Safe, Preparing
<1>7. QED
  BY <1>2, <1>3, <1>4, <1>5, <1>6, FpgaAsked

LEMMA WhenStartRun == ASSUME SessionInv, StartRun PROVE SessionInv'
<1>1. HostFormed /\ PortFormed /\ DeviceFormed /\ StreamFormed /\ Line /\ Clean /\ OfRun /\ Safe /\ Judged
  BY DEF SessionInv
<1>2. /\ pc = "drain" /\ pc' = "running" /\ usb = <<>> /\ Sent("run") /\ runSeq' = seq' /\ reader' = "reading"
      /\ UNCHANGED <<runs, acquiring, stats, outputs, received, failure, verdict, stopSeq,
                     lowered, released, fpga, stream, pipe, usb>>
  BY DEF StartRun, Emptied, Send, Sent, Request, Go, result, esp, board
<1>3. "run" \in Op
  BY DEF Op
<1>4. PortFormed' /\ InOrder' /\ seq' \in Nat
  BY <1>1, <1>2, <1>3, PortKept DEF Line
<1>5. HostFormed'
  BY <1>1, <1>2, <1>4 DEF HostFormed, Active
<1>6. DeviceFormed' /\ StreamFormed'
  BY <1>1, <1>2 DEF DeviceFormed, StreamFormed
<1>7. Line' /\ Awaited' /\ Clean' /\ Over'
  BY <1>2, <1>4 DEF Line, Awaited, Clean, Over, Before, Preparing
<1>8. /\ espIn = <<>> /\ espOut = <<>> /\ acquiring = <<>> /\ received = <<>>
      /\ pipe = <<>>
  BY <1>1, <1>2 DEF Clean, Before, Preparing
<1>9. OfRun'
  <2>1. OwnRequests'
    <3>1. \A j \in DOMAIN espIn' : espIn'[j].op = "run" /\ espIn'[j].run = runs /\ espIn'[j].seq = seq'
      BY <1>1, <1>2, <1>3, <1>8, SentPort
    <3>2. QED
      BY <1>2, <3>1 DEF OwnRequests
  <2>2. OwnAcquisition'
    BY <1>2, <1>8 DEF OwnAcquisition, Sent
  <2>3. OwnItems'
    BY <1>2, <1>8 DEF OwnItems, OwnUnits
  <2>4. QED
    BY <1>2, <1>8, <2>1, <2>2, <2>3 DEF OfRun
<1>10. Safe'
  BY <1>1, <1>2 DEF Safe, Preparing
<1>11. Judged'
  BY <1>1, <1>2 DEF Judged
<1>12. QED
  BY <1>4, <1>5, <1>6, <1>7, <1>9, <1>10, <1>11 DEF SessionInv
-----------------------------------------------------------------------------
\* The receiver thread.
LEMMA WhenReceiving == ASSUME SessionInv, ReadStream \/ ReceiverFails PROVE SessionInv'
<1>1. HostFormed /\ PortFormed /\ DeviceFormed /\ StreamFormed /\ Line /\ Awaited /\ Clean /\ OfRun
      /\ Over /\ Safe /\ Judged
  BY DEF SessionInv
<1>2. /\ reader = "reading"
      /\ UNCHANGED <<pc, runs, seq, runSeq, stopSeq, failure, lowered, released, verdict, espIn, espOut,
                     acquiring, outputs, stats, fpga, stream, pipe>>
  BY DEF ReadStream, ReceiverFails, host, asked, result, port, esp, board
<1>3. \/ UNCHANGED <<usb, received>>
      \/ usb # <<>> /\ usb' = Tail(usb) /\ received' = received
      \/ /\ usb # <<>> /\ usb' = Tail(usb) /\ ~IsEnd(Head(usb)) /\ received' = Append(received, Head(usb))
  BY DEF ReadStream, ReceiverFails
<1>4. pc \notin Before
  BY <1>1, <1>2 DEF Clean
<1>5. pc \in Active
  BY <1>1, <1>4 DEF HostFormed
<1>6. OwnItems
  BY <1>1, <1>5 DEF OfRun
<1>7. StreamFormed' /\ OwnItems'
  <2>1. CASE UNCHANGED <<usb, received>>
    BY <1>1, <1>2, <1>6, <2>1 DEF StreamFormed, OwnItems, OwnUnits
  <2>2. ASSUME usb # <<>>, usb' = Tail(usb)
        PROVE  /\ usb' \in Seq(Items) /\ Head(usb) \in Items
               /\ OwnUnits(usb)' /\ (IsEnd(Head(usb)) \/ Head(usb).run = runs)
    <3>1. /\ Head(usb) = usb[1] /\ Head(usb) \in Items /\ 1 \in DOMAIN usb /\ Tail(usb) \in Seq(Items)
          /\ \A i \in DOMAIN Tail(usb) : i + 1 \in DOMAIN usb /\ Tail(usb)[i] = usb[i + 1]
      BY <1>1, <2>2, Behind DEF StreamFormed
    <3>2. \A i \in DOMAIN usb : IsEnd(usb[i]) \/ usb[i].run = runs
      BY <1>6 DEF OwnItems, OwnUnits
    <3>3. OwnUnits(usb)'
      BY <1>2, <2>2, <3>1, <3>2 DEF OwnUnits
    <3>4. QED
      BY <2>2, <3>1, <3>2, <3>3
  <2>3. CASE usb # <<>> /\ usb' = Tail(usb) /\ received' = received
    BY <1>1, <1>2, <1>6, <2>2, <2>3 DEF StreamFormed, OwnItems, OwnUnits
  <2>4. CASE usb # <<>> /\ usb' = Tail(usb) /\ ~IsEnd(Head(usb)) /\ received' = Append(received, Head(usb))
    <3>1. Head(usb) \in Units
      <4>1. Head(usb) \in Items /\ "crc" \notin DOMAIN Head(usb)
        BY <2>2, <2>4 DEF IsEnd
      <4>2. QED
        BY <4>1 DEF Items
    <3>2. received \in Seq(Units)
      BY <1>1 DEF StreamFormed
    <3>3. /\ received' \in Seq(Units)
          /\ \A i \in DOMAIN received' : \/ received'[i] = Head(usb)
                                         \/ i \in DOMAIN received /\ received'[i] = received[i]
      BY <2>4, <3>1, <3>2, Appended
    <3>4. \A i \in DOMAIN received' : received'[i].run = runs
      BY <1>6, <2>2, <2>4, <3>3 DEF OwnItems
    <3>5. QED
      BY <1>1, <1>2, <1>6, <2>2, <2>4, <3>3, <3>4 DEF StreamFormed, OwnItems, OwnUnits
  <2>5. QED
    BY <1>3, <2>1, <2>3, <2>4
<1>8. HostFormed' /\ PortFormed' /\ DeviceFormed'
  BY <1>1, <1>2 DEF HostFormed, PortFormed, DeviceFormed
<1>9. Line' /\ Awaited'
  BY <1>1, <1>2 DEF Line, InOrder, Awaited, LastSent, Counted
<1>10. Clean'
  BY <1>2, <1>4 DEF Clean, Before, Preparing
<1>11. OfRun'
  BY <1>1, <1>2, <1>7 DEF OfRun, OwnRequests, OwnAcquisition
<1>12. Over' /\ Safe'
  BY <1>1, <1>2 DEF Over, Safe, NoneOf
<1>13. Judged'
  BY <1>1, <1>2 DEF Judged
<1>14. QED
  BY <1>7, <1>8, <1>9, <1>10, <1>11, <1>12, <1>13 DEF SessionInv
-----------------------------------------------------------------------------
\* The steps of the ESP.
LEMMA ExecutedLast ==
    ASSUME PortFormed, DeviceFormed, Execute, NEW op, op # "run", LastSent(op)
    PROVE  LastSent(op)' /\ (espIn' = <<>> => espIn[1].op = op)
<1>1. /\ espIn # <<>> /\ espIn \in Seq(Requests) /\ espIn' \in Seq(Requests) /\ Len(espIn') = Len(espIn) - 1
      /\ \A j \in DOMAIN espIn' : j + 1 \in DOMAIN espIn /\ espIn'[j] = espIn[j + 1]
  BY Next1 DEF PortFormed
<1>2. espIn[Len(espIn)].op = op
  BY <1>1 DEF LastSent
<1>3. CASE espIn' = <<>>
  <2>1. Len(espIn) = 1
    BY <1>1, <1>3
  <2>2. espIn[1].op = op
    BY <1>2, <2>1
  <2>3. acquiring' = <<>>
    BY <2>2, Replies1, Next1
  <2>4. QED
    BY <1>3, <2>2, <2>3 DEF LastSent
<1>4. CASE espIn' # <<>>
  <2>1. Len(espIn') \in DOMAIN espIn' /\ Len(espIn') + 1 = Len(espIn)
    BY <1>1, <1>4
  <2>2. espIn'[Len(espIn')] = espIn[Len(espIn)]
    BY <1>1, <2>1
  <2>3. QED
    BY <1>2, <1>4, <2>2 DEF LastSent
<1>5. QED
  BY <1>3, <1>4

LEMMA ExecuteCounted ==
    ASSUME HostFormed, PortFormed, DeviceFormed, InOrder, Counted, Execute
    PROVE  Counted'
<1>1. espIn[1] \in Requests /\ espIn[1].seq <= seq /\ seq' = seq
      /\ \A i \in DOMAIN espOut : espOut[i].seq < espIn[1].seq
  BY Next1 DEF InOrder
<1>2. espIn[1].seq \in Nat /\ seq \in Nat /\ \A i \in DOMAIN espOut : espOut[i].seq \in Nat
  BY <1>1, Typed DEF HostFormed, Requests
<1>3. \A i \in DOMAIN espOut : espOut[i].seq # seq
  BY <1>1, <1>2
<1>4. CASE espIn[1].op = "run" /\ outputs
  BY <1>1, <1>3, <1>4, Begins DEF Counted
<1>5. CASE ~(espIn[1].op = "run" /\ outputs)
  <2>1. stats' = stats /\ Reply(espIn[1], espIn[1].op # "run")
    BY <1>5, Replies1
  <2>2. /\ espOut'[Len(espOut) + 1].op = "stats" => espOut'[Len(espOut) + 1].stats = stats
        /\ \A i \in DOMAIN espOut' : i = Len(espOut) + 1 \/ (i \in DOMAIN espOut /\ espOut'[i] = espOut[i])
    BY <1>1, <2>1, Replied
  <2>3. QED
    BY <1>1, <1>3, <2>1, <2>2 DEF Counted
<1>6. QED
  BY <1>4, <1>5

LEMMA ExecuteOwn ==
    ASSUME PortFormed, DeviceFormed, OwnRequests, OwnAcquisition, Execute, UNCHANGED <<runs, runSeq>>
    PROVE  OwnRequests' /\ OwnAcquisition'
<1>1. /\ 1 \in DOMAIN espIn /\ espIn[1] \in Requests /\ acquiring = <<>>
      /\ \A j \in DOMAIN espIn' : j + 1 \in DOMAIN espIn /\ espIn'[j] = espIn[j + 1]
  BY Next1
<1>2. OwnRequests'
  BY <1>1 DEF OwnRequests
<1>3. espIn[1].run = runs /\ (espIn[1].op = "run" => espIn[1].seq = runSeq)
  BY <1>1 DEF OwnRequests
<1>4. CASE espIn[1].op = "run" /\ outputs
  <2>1. acquiring' = <<espIn[1]>> /\ espOut' = espOut /\ stats'.run = espIn[1].run
    BY <1>4, Begins
  <2>2. acquiring'[1] = espIn[1]
    BY <2>1
  <2>3. OwnAcquisition'
    BY <1>3, <1>4, <2>1, <2>2 DEF OwnAcquisition
  <2>4. QED
    BY <1>2, <2>3
<1>5. CASE ~(espIn[1].op = "run" /\ outputs)
  <2>1. stats' = stats /\ acquiring' = acquiring /\ Reply(espIn[1], espIn[1].op # "run")
    BY <1>5, Replies1
  <2> DEFINE a == espOut'[Len(espOut) + 1]
  <2>2. /\ a.op = espIn[1].op /\ a.ok = (espIn[1].op # "run")
        /\ \A i \in DOMAIN espOut' : i = Len(espOut) + 1 \/ (i \in DOMAIN espOut /\ espOut'[i] = espOut[i])
    BY <1>1, <2>1, Replied
  <2>3. ~(a.op = "run" /\ a.ok)
    BY <2>2
  <2>4. OwnAcquisition'
    BY <1>1, <2>1, <2>2, <2>3 DEF OwnAcquisition
  <2>5. QED
    BY <1>2, <2>4
<1>6. QED
  BY <1>4, <1>5

LEMMA ExecuteSafe ==
    ASSUME PortFormed, DeviceFormed, Safe, Execute, UNCHANGED <<pc, lowered, released, fpga>>
    PROVE  Safe'
<1>1. /\ 1 \in DOMAIN espIn /\ acquiring = <<>>
      /\ \A j \in DOMAIN espIn' : j + 1 \in DOMAIN espIn /\ espIn'[j] = espIn[j + 1]
  BY Next1
<1>2. ASSUME lowered PROVE acquiring' = <<>> /\ ~outputs' /\ NoneOf({"run", "high"})'
  <2>1. ~outputs /\ NoneOf({"run", "high"})
    BY <1>2 DEF Safe
  <2>2. espIn[1].op \notin {"run", "high"}
    BY <1>1, <2>1 DEF NoneOf
  <2>3. acquiring' = <<>> /\ ~outputs'
    BY <1>1, <2>1, <2>2, Replies1
  <2>4. NoneOf({"run", "high"})'
    BY <1>1, <2>1 DEF NoneOf
  <2>5. QED
    BY <2>3, <2>4
<1>3. QED
  BY <1>2 DEF Safe

LEMMA WhenExecute == ASSUME SessionInv, Execute PROVE SessionInv'
<1>1. HostFormed /\ PortFormed /\ DeviceFormed /\ StreamFormed /\ Line /\ Awaited /\ Clean /\ OfRun
      /\ Over /\ Safe /\ Judged
  BY DEF SessionInv
<1>2. UNCHANGED <<pc, runs, seq, runSeq, stopSeq, failure, lowered, released, verdict, reader, received,
                  fpga, stream, pipe, usb>>
  BY DEF Execute, host, asked, result, reading, board
<1>3. /\ espIn # <<>> /\ 1 \in DOMAIN espIn /\ espIn[1] \in Requests /\ acquiring = <<>>
      /\ \A j \in DOMAIN espIn' : j + 1 \in DOMAIN espIn /\ espIn'[j] = espIn[j + 1]
  BY <1>1, Next1
<1>4. PortFormed' /\ Line'
  BY <1>1, <1>2, ExecutePort, ExecuteOrder DEF Line
<1>5. HostFormed' /\ StreamFormed'
  BY <1>1, <1>2 DEF HostFormed, StreamFormed
<1>6. \/ stats' = stats /\ acquiring' = <<>>
         /\ outputs' = (espIn[1].op = "high" \/ (outputs /\ espIn[1].op # "low"))
      \/ /\ espIn[1].op = "run" /\ stats' = [run |-> espIn[1].run, ok |-> TRUE, units |-> 0]
         /\ outputs' = outputs /\ acquiring' = <<espIn[1]>>
  BY <1>1, <1>3, Begins, Replies1
<1>7. DeviceFormed'
  <2>1. stats' \in Reports
    <3>1. espIn[1].run \in Nat
      BY <1>3 DEF Requests
    <3>2. [run |-> espIn[1].run, ok |-> TRUE, units |-> 0] \in Reports
      BY <3>1 DEF Reports
    <3>3. stats \in Reports
      BY <1>1 DEF DeviceFormed
    <3>4. QED
      BY <1>6, <3>2, <3>3
  <2>2. outputs' \in BOOLEAN
    BY <1>1, <1>6 DEF DeviceFormed
  <2>3. QED
    BY <1>1, <1>2, <2>1, <2>2 DEF DeviceFormed
<1>8. Awaited'
  <2>1. \A op \in {"info", "high", "low", "stats"} : LastSent(op) => LastSent(op)' /\ (espIn' = <<>> => espIn[1].op = op)
    BY <1>1, ExecutedLast
  <2>2. pc = "info" => LastSent("info")'
    BY <1>1, <2>1 DEF Awaited
  <2>3. pc = "driving" => LastSent("high")'
    BY <1>1, <2>1 DEF Awaited
  <2>4. pc \in {"lowering", "abort_lowering"} => LastSent("low")' /\ (espIn' = <<>> => ~outputs')
    BY <1>1, <1>6, <2>1 DEF Awaited
  <2>5. pc = "stats" => LastSent("stats")' /\ Counted'
    BY <1>1, <2>1, ExecuteCounted DEF Awaited, Line
  <2>6. QED
    BY <1>2, <2>2, <2>3, <2>4, <2>5 DEF Awaited
<1>9. Clean'
  BY <1>1, <1>2, <1>3 DEF Clean
<1>10. OfRun'
  <2>1. acquiring' # <<>> => acquiring'[1].op = "run" /\ stats'.run = acquiring'[1].run
    BY <1>6
  <2>2. pc \in Active => OwnRequests' /\ OwnAcquisition'
    BY <1>1, <1>2, ExecuteOwn DEF OfRun
  <2>3. pc \in Active => OwnItems'
    BY <1>1, <1>2 DEF OfRun, OwnItems, OwnUnits
  <2>4. QED
    BY <1>2, <2>1, <2>2, <2>3 DEF OfRun
<1>11. Over'
  <2> SUFFICES ASSUME pc \in Active \ {"running"}, ~failure
               PROVE  stats'.run = runs /\ acquiring' = <<>> /\ NoneOf({"run"})'
    BY <1>2 DEF Over
  <2>1. stats.run = runs /\ NoneOf({"run"})
    BY <1>1 DEF Over
  <2>2. espIn[1].op # "run"
    BY <1>3, <2>1 DEF NoneOf
  <2>3. NoneOf({"run"})'
    BY <1>3, <2>1 DEF NoneOf
  <2>4. QED
    BY <1>6, <2>1, <2>2, <2>3
<1>12. Safe'
  BY <1>1, <1>2, ExecuteSafe
<1>13. Judged'
  BY <1>1, <1>2, <1>3 DEF Judged
<1>14. QED
  BY <1>4, <1>5, <1>7, <1>8, <1>9, <1>10, <1>11, <1>12, <1>13 DEF SessionInv

LEMMA WhenEndRun == ASSUME SessionInv, EndRun PROVE SessionInv'
<1>1. HostFormed /\ PortFormed /\ DeviceFormed /\ StreamFormed /\ Line /\ Awaited /\ Clean /\ OfRun
      /\ Over /\ Safe /\ Judged
  BY DEF SessionInv
<1>2. UNCHANGED <<pc, runs, seq, runSeq, stopSeq, failure, lowered, released, verdict, reader, received,
                  espIn, outputs, fpga, stream, pipe, usb>>
  BY DEF EndRun, host, asked, result, reading, board
<1> DEFINE a == espOut'[Len(espOut) + 1]
<1>3. /\ PortFormed' /\ acquiring' = <<>> /\ acquiring # <<>> /\ acquiring[1] \in Requests
      /\ a.op = acquiring[1].op /\ a.seq = acquiring[1].seq
      /\ \A i \in DOMAIN espOut' : i = Len(espOut) + 1 \/ (i \in DOMAIN espOut /\ espOut'[i] = espOut[i])
  BY <1>1, EndPort
<1>4. PICK ok \in BOOLEAN : stats' = [stats EXCEPT !.ok = ok]
  BY DEF EndRun
<1>5. stats' \in Reports /\ stats'.run = stats.run
  BY <1>1, <1>4 DEF DeviceFormed, Reports
<1>6. HostFormed' /\ DeviceFormed' /\ StreamFormed'
  BY <1>1, <1>2, <1>5 DEF HostFormed, DeviceFormed, StreamFormed
<1>7. Line'
  BY <1>1, <1>2, EndOrder DEF Line
<1>8. acquiring[1].op = "run" /\ stats.run = acquiring[1].run
  BY <1>1, <1>3 DEF OfRun
<1>9. Awaited'
  <2>1. \A op \in Op : LastSent(op) => LastSent(op)'
    BY <1>2, <1>3 DEF LastSent
  <2>2. pc = "stats" => Counted'
    <3> SUFFICES ASSUME pc = "stats" PROVE Counted'
      OBVIOUS
    <3>1. InOrder /\ Counted
      BY <1>1 DEF Line, Awaited
    <3>2. \A i \in DOMAIN espOut : espOut[i].seq < acquiring[1].seq /\ acquiring[1].seq <= seq
      BY <1>3, <3>1 DEF InOrder
    <3>3. \A i \in DOMAIN espOut : espOut[i].seq \in Nat /\ acquiring[1].seq \in Nat /\ seq \in Nat
      BY <1>1, <1>3, Typed DEF HostFormed, Requests
    <3>4. \A i \in DOMAIN espOut : espOut[i].seq # seq
      BY <3>2, <3>3
    <3>5. a.op # "stats"
      BY <1>3, <1>8
    <3>6. QED
      BY <1>2, <1>3, <3>4, <3>5 DEF Counted
  <2>3. QED
    BY <1>1, <1>2, <2>1, <2>2 DEF Awaited, Op
<1>10. Clean'
  BY <1>1, <1>2, <1>3 DEF Clean
<1>11. OfRun'
  <2>1. pc \in Active => OwnRequests' /\ OwnItems'
    BY <1>1, <1>2 DEF OfRun, OwnRequests, OwnItems, OwnUnits
  <2>2. pc \in Active => OwnAcquisition'
    <3> SUFFICES ASSUME pc \in Active PROVE OwnAcquisition'
      OBVIOUS
    <3>1. OwnAcquisition
      BY <1>1 DEF OfRun
    <3>2. stats.run = runs
      BY <1>3, <1>8, <3>1 DEF OwnAcquisition
    <3>3. QED
      BY <1>2, <1>3, <1>5, <3>2 DEF OwnAcquisition
  <2>3. QED
    BY <1>2, <1>3, <2>1, <2>2 DEF OfRun
<1>12. Over' /\ Safe' /\ Judged'
  BY <1>1, <1>2, <1>3, <1>5 DEF Over, Safe, Judged, NoneOf
<1>13. QED
  BY <1>3, <1>6, <1>7, <1>9, <1>10, <1>11, <1>12 DEF SessionInv

LEMMA WhenTransmit == ASSUME SessionInv, Transmit PROVE SessionInv'
<1>1. HostFormed /\ PortFormed /\ DeviceFormed /\ StreamFormed /\ Line /\ Awaited /\ Clean /\ OfRun
      /\ Over /\ Safe /\ Judged
  BY DEF SessionInv
<1>2. /\ acquiring # <<>> /\ stats' = [stats EXCEPT !.units = @ + 1]
      /\ UNCHANGED <<pc, runs, seq, runSeq, stopSeq, failure, lowered, released, verdict, reader, received,
                     espIn, espOut, acquiring, outputs, fpga, usb>>
  BY DEF Transmit, host, asked, result, reading, port
<1> DEFINE unit == [run |-> stats.run, at |-> stats.units + 1]
<1>3. \/ stream' = Append(stream, unit) /\ pipe' = Append(pipe, unit)
      \/ UNCHANGED <<stream, pipe>>
  BY DEF Transmit
<1>4. stats' \in Reports /\ stats'.run = stats.run
  BY <1>1, <1>2 DEF DeviceFormed, Reports
<1>5. unit \in Units /\ unit \in Items /\ unit.run = stats.run
  BY <1>1 DEF DeviceFormed, Reports, Units, Items
<1> HIDE DEF unit
<1>6. HostFormed' /\ PortFormed' /\ DeviceFormed'
  BY <1>1, <1>2, <1>4 DEF HostFormed, PortFormed, DeviceFormed
<1>7. stream \in Seq(Units) /\ pipe \in Seq(Items)
  BY <1>1 DEF StreamFormed
<1>8. /\ stream' \in Seq(Units) /\ pipe' \in Seq(Items)
      /\ \A i \in DOMAIN pipe' : pipe'[i] = unit \/ (i \in DOMAIN pipe /\ pipe'[i] = pipe[i])
  <2>1. Append(stream, unit) \in Seq(Units)
    BY <1>5, <1>7, Appended
  <2>2. /\ Append(pipe, unit) \in Seq(Items)
        /\ \A i \in DOMAIN Append(pipe, unit) :
              \/ Append(pipe, unit)[i] = unit
              \/ (i \in DOMAIN pipe /\ Append(pipe, unit)[i] = pipe[i])
    BY <1>5, <1>7, Appended
  <2>3. QED
    BY <1>3, <1>7, <2>1, <2>2
<1>9. StreamFormed'
  BY <1>1, <1>2, <1>8 DEF StreamFormed
<1>10. Line'
  BY <1>1, <1>2 DEF Line, InOrder
<1>11. Awaited'
  <2>1. \A op \in Op : LastSent(op) => LastSent(op)'
    BY <1>2 DEF LastSent
  <2>2. pc = "stats" => Counted'
    <3> SUFFICES ASSUME pc = "stats" PROVE Counted'
      OBVIOUS
    <3>1. InOrder
      BY <1>1 DEF Line
    <3>2. \A i \in DOMAIN espOut : espOut[i].seq < acquiring[1].seq /\ acquiring[1].seq <= seq
      BY <1>2, <3>1 DEF InOrder
    <3>3. acquiring[1].seq \in Nat
      BY <1>1, <1>2 DEF PortFormed, Requests
    <3>4. \A i \in DOMAIN espOut : espOut[i].seq \in Nat /\ seq \in Nat
      BY <1>1, Typed DEF HostFormed
    <3>5. \A i \in DOMAIN espOut : espOut[i].seq # seq
      BY <3>2, <3>3, <3>4
    <3>6. QED
      BY <1>2, <3>5 DEF Counted
  <2>3. QED
    BY <1>1, <1>2, <2>1, <2>2 DEF Awaited, Op
<1>12. Clean'
  BY <1>1, <1>2 DEF Clean
<1>13. OfRun'
  <2>1. stats.run = acquiring[1].run /\ acquiring[1].op = "run"
    BY <1>1, <1>2 DEF OfRun
  <2>2. ASSUME pc \in Active PROVE OwnRequests' /\ OwnAcquisition' /\ OwnItems'
    <3>1. OwnRequests /\ OwnAcquisition /\ OwnItems
      BY <1>1, <2>2 DEF OfRun
    <3>2. OwnRequests' /\ OwnAcquisition'
      BY <1>2, <1>4, <3>1 DEF OwnRequests, OwnAcquisition
    <3>3. unit.run = runs
      BY <1>2, <1>5, <2>1, <3>1 DEF OwnAcquisition
    <3>4. OwnItems'
      BY <1>2, <1>8, <3>1, <3>3 DEF OwnItems, OwnUnits
    <3>5. QED
      BY <3>2, <3>4
  <2>3. QED
    BY <1>2, <1>4, <2>1, <2>2 DEF OfRun
<1>14. Over' /\ Safe' /\ Judged'
  BY <1>1, <1>2, <1>4 DEF Over, Safe, Judged, NoneOf
<1>15. QED
  BY <1>6, <1>9, <1>10, <1>11, <1>12, <1>13, <1>14 DEF SessionInv

LEMMA WhenIdleRelease == ASSUME SessionInv, IdleRelease PROVE SessionInv'
<1>1. HostFormed /\ PortFormed /\ DeviceFormed /\ StreamFormed /\ Line /\ Awaited /\ Clean /\ OfRun
      /\ Over /\ Safe /\ Judged
  BY DEF SessionInv
<1>2. /\ outputs' = FALSE
      /\ UNCHANGED <<pc, runs, seq, runSeq, stopSeq, failure, lowered, released, verdict, reader, received,
                     espIn, espOut, acquiring, stats, fpga, stream, pipe, usb>>
  BY DEF IdleRelease, host, asked, result, reading, port, board
<1>3. HostFormed' /\ PortFormed' /\ DeviceFormed' /\ StreamFormed'
  BY <1>1, <1>2 DEF HostFormed, PortFormed, DeviceFormed, StreamFormed
<1>4. Line' /\ Awaited' /\ Clean'
  BY <1>1, <1>2 DEF Line, InOrder, Awaited, LastSent, Counted, Clean
<1>5. OfRun'
  BY <1>1, <1>2 DEF OfRun, OwnRequests, OwnAcquisition, OwnItems, OwnUnits
<1>6. Over' /\ Safe' /\ Judged'
  BY <1>1, <1>2 DEF Over, Safe, Judged, NoneOf
<1>7. QED
  BY <1>3, <1>4, <1>5, <1>6 DEF SessionInv
-----------------------------------------------------------------------------
\* The steps of the FPGA.
LEMMA FpgaStep ==
    ASSUME SessionInv,
           UNCHANGED <<pc, runs, seq, runSeq, stopSeq, failure, lowered, released, verdict, reader, received,
                       espIn, espOut, acquiring, outputs, stats, stream>>,
           fpga' \in Controls, pipe' \in Seq(Items), usb' \in Seq(Items),
           OwnUnits(pipe) /\ OwnUnits(usb) => OwnUnits(pipe)' /\ OwnUnits(usb)',
           pc = "drain" => pipe' = <<>> /\ (fpga'.armed \/ fpga'.fault),
           released => ~fpga'.armed /\ ~fpga'.open
    PROVE  SessionInv'
<1>1. HostFormed /\ PortFormed /\ DeviceFormed /\ StreamFormed /\ Line /\ Awaited /\ Clean /\ OfRun
      /\ Over /\ Safe /\ Judged
  BY DEF SessionInv
<1>2. HostFormed' /\ PortFormed' /\ DeviceFormed' /\ StreamFormed'
  BY <1>1 DEF HostFormed, PortFormed, DeviceFormed, StreamFormed
<1>3. Line' /\ Awaited' /\ Clean'
  BY <1>1 DEF Line, InOrder, Awaited, LastSent, Counted, Clean
<1>4. OfRun'
  BY <1>1 DEF OfRun, OwnRequests, OwnAcquisition, OwnItems
<1>5. Over' /\ Safe' /\ Judged'
  BY <1>1 DEF Over, Safe, Judged, NoneOf
<1>6. QED
  BY <1>2, <1>3, <1>4, <1>5 DEF SessionInv

LEMMA WhenClockFault == ASSUME SessionInv, ClockFault PROVE SessionInv'
<1>1. DeviceFormed /\ StreamFormed /\ Clean /\ Safe
  BY DEF SessionInv
<1>2. /\ fpga.open /\ fpga' = [fpga EXCEPT !.fault = TRUE, !.armed = FALSE]
      /\ UNCHANGED <<pc, runs, seq, runSeq, stopSeq, failure, lowered, released, verdict, reader, received,
                     espIn, espOut, acquiring, outputs, stats, stream, pipe, usb>>
  BY DEF ClockFault, host, asked, result, reading, port, esp
<1>3. fpga' \in Controls /\ fpga'.fault
  BY <1>1, <1>2 DEF DeviceFormed, Controls
<1>4. /\ pipe' \in Seq(Items) /\ usb' \in Seq(Items)
      /\ OwnUnits(pipe) /\ OwnUnits(usb) => OwnUnits(pipe)' /\ OwnUnits(usb)'
  BY <1>1, <1>2 DEF StreamFormed, OwnUnits
<1>5. /\ pc = "drain" => pipe' = <<>> /\ (fpga'.armed \/ fpga'.fault)
      /\ released => ~fpga'.armed /\ ~fpga'.open
  BY <1>1, <1>2, <1>3 DEF Clean, Safe
<1>6. QED
  BY <1>2, <1>3, <1>4, <1>5, FpgaStep

LEMMA WhenEndStream == ASSUME SessionInv, EndStream PROVE SessionInv'
<1>1. DeviceFormed /\ StreamFormed /\ Clean /\ Safe
  BY DEF SessionInv
<1>2. /\ ~fpga.armed /\ ~fpga.fault /\ fpga' = [fpga EXCEPT !.ended = TRUE]
      /\ pipe' = Append(pipe, EndOf(stream))
      /\ UNCHANGED <<pc, runs, seq, runSeq, stopSeq, failure, lowered, released, verdict, reader, received,
                     espIn, espOut, acquiring, outputs, stats, stream, usb>>
  BY DEF EndStream, FlushNeeded, host, asked, result, reading, port, esp
<1>3. fpga' \in Controls /\ fpga'.armed = fpga.armed /\ fpga'.open = fpga.open
  BY <1>1, <1>2 DEF DeviceFormed, Controls
<1>4. EndOf(stream) \in Items /\ IsEnd(EndOf(stream))
  BY <1>1 DEF EndOf, IsEnd, Items, StreamFormed
<1>5. /\ pipe' \in Seq(Items)
      /\ \A i \in DOMAIN pipe' : pipe'[i] = EndOf(stream) \/ (i \in DOMAIN pipe /\ pipe'[i] = pipe[i])
  BY <1>1, <1>2, <1>4, Appended DEF StreamFormed
<1>6. OwnUnits(pipe) /\ OwnUnits(usb) => OwnUnits(pipe)' /\ OwnUnits(usb)'
  BY <1>2, <1>4, <1>5 DEF OwnUnits
<1>7. /\ pc = "drain" => pipe' = <<>> /\ (fpga'.armed \/ fpga'.fault)
      /\ released => ~fpga'.armed /\ ~fpga'.open
  BY <1>1, <1>2, <1>3 DEF Clean, Safe
<1>8. usb' \in Seq(Items)
  BY <1>1, <1>2 DEF StreamFormed
<1>9. QED
  BY <1>2, <1>3, <1>5, <1>6, <1>7, <1>8, FpgaStep

LEMMA WhenFlow == ASSUME SessionInv, Flow PROVE SessionInv'
<1>1. DeviceFormed /\ StreamFormed /\ Clean /\ Safe
  BY DEF SessionInv
<1>2. /\ pipe # <<>> /\ usb' = Append(usb, Head(pipe)) /\ pipe' = Tail(pipe)
      /\ UNCHANGED <<pc, runs, seq, runSeq, stopSeq, failure, lowered, released, verdict, reader, received,
                     espIn, espOut, acquiring, outputs, stats, stream, fpga>>
  BY DEF Flow, host, asked, result, reading, port, esp
<1>3. /\ Head(pipe) = pipe[1] /\ Head(pipe) \in Items /\ 1 \in DOMAIN pipe /\ pipe' \in Seq(Items)
      /\ \A i \in DOMAIN pipe' : i + 1 \in DOMAIN pipe /\ pipe'[i] = pipe[i + 1]
  BY <1>1, <1>2, Behind DEF StreamFormed
<1>4. /\ usb' \in Seq(Items)
      /\ \A i \in DOMAIN usb' : usb'[i] = Head(pipe) \/ (i \in DOMAIN usb /\ usb'[i] = usb[i])
  BY <1>1, <1>2, <1>3, Appended DEF StreamFormed
<1>5. OwnUnits(pipe) /\ OwnUnits(usb) => OwnUnits(pipe)' /\ OwnUnits(usb)'
  BY <1>2, <1>3, <1>4 DEF OwnUnits
<1>6. /\ pc = "drain" => pipe' = <<>> /\ (fpga'.armed \/ fpga'.fault)
      /\ released => ~fpga'.armed /\ ~fpga'.open
  BY <1>1, <1>2 DEF Clean, Safe
<1>7. fpga' \in Controls
  BY <1>1, <1>2 DEF DeviceFormed
<1>8. QED
  BY <1>2, <1>3, <1>4, <1>5, <1>6, <1>7, FpgaStep
-----------------------------------------------------------------------------
LEMMA SessionStart == Init => SessionInv
<1> SUFFICES ASSUME Init PROVE SessionInv
  OBVIOUS
<1>1. HostFormed /\ PortFormed
  BY Empty DEF Init, HostFormed, PortFormed, Before
<1>2. DeviceFormed
  BY DEF Init, DeviceFormed, NoReport, Reports, Unarmed, Controls
<1>3. StreamFormed
  BY Empty DEF Init, StreamFormed
<1>4. Line /\ Awaited /\ Clean /\ Over /\ Judged
  BY DEF Init, Line, Awaited, Clean, Over, Judged, Active
<1>5. OfRun /\ Safe
  BY DEF Init, OfRun, Safe, Active, Preparing
<1>6. QED
  BY <1>1, <1>2, <1>3, <1>4, <1>5 DEF SessionInv

LEMMA SessionStutters == ASSUME SessionInv, UNCHANGED vars PROVE SessionInv'
<1>1. HostFormed /\ PortFormed /\ DeviceFormed /\ StreamFormed /\ Line /\ Awaited /\ Clean /\ OfRun
      /\ Over /\ Safe /\ Judged
  BY DEF SessionInv
<1>2. UNCHANGED <<pc, runs, seq, runSeq, stopSeq, failure, lowered, released, verdict, reader, received,
                  espIn, espOut, acquiring, outputs, stats, fpga, stream, pipe, usb>>
  BY DEF vars, host, asked, result, reading, port, esp, board
<1>3. QED
  BY <1>1, <1>2, FpgaStep DEF DeviceFormed, StreamFormed, OwnUnits, Clean, Safe

LEMMA SessionNext == ASSUME SessionInv, [Next]_vars, [Identified]_vars PROVE SessionInv'
<1>1. CASE UNCHANGED vars
  BY <1>1, SessionStutters
<1>2. CASE Open \/ Begin \/ ProcessDies \/ StopWanted
  BY <1>2, WhenOpen, WhenBegin, WhenDie, WhenStopWanted
<1>3. CASE Identify /\ Identified
  BY <1>3, WhenIdentify
<1>4. CASE ReleaseLeftOver \/ DriveOutputs \/ OutputsDriven \/ Arm \/ Drain \/ StartRun
  BY <1>4, WhenReleaseLeftOver, WhenDriveOutputs, WhenOutputsDriven, WhenArm, WhenDrain, WhenStartRun
<1>5. CASE Watch \/ GiveUp \/ NoEnd
  BY <1>5, WhenFailed
<1>6. CASE Ending
  BY <1>6, WhenRunReplied, WhenStopReceiver, WhenStopped, WhenLower, WhenLowered, WhenStreamEnded,
     WhenAbortStop, WhenFinish, WhenJudge, WhenCloseStream DEF Ending
<1>7. CASE ReadStream \/ ReceiverFails
  BY <1>7, WhenReceiving
<1>8. CASE Device
  BY <1>8, WhenExecute, WhenTransmit, WhenEndRun, WhenIdleRelease, WhenClockFault, WhenEndStream,
     WhenFlow DEF Device
<1>9. QED
  BY <1>1, <1>2, <1>3, <1>4, <1>5, <1>6, <1>7, <1>8 DEF Next, Starting
-----------------------------------------------------------------------------
(* The invariant, while every process is identified by its own reply.      *)
THEOREM SessionInvariant == Spec /\ [][Identified]_vars => []SessionInv
BY SessionStart, SessionNext, PTL DEF Spec

LEMMA RunsApart == SessionInv => OwnStream
<1> SUFFICES ASSUME SessionInv, reader # "off" PROVE \A i \in DOMAIN received : received[i].run = runs
  BY DEF OwnStream
<1>1. pc \notin Before /\ pc \in Before \cup Active
  BY DEF SessionInv, Clean, HostFormed
<1>2. QED
  BY <1>1 DEF SessionInv, OfRun, OwnItems

(* A run never receives anything of another run, whoever left it behind,   *)
(* in the pipeline of the FPGA, in the FT600 or in the ESP.                *)
THEOREM RunsKeptApart == Spec /\ [][Identified]_vars => []OwnStream
BY SessionInvariant, RunsApart, PTL

LEMMA ClosedSafe == SessionInv => LeftSafe
BY DEF SessionInv, Safe, LeftSafe

(* When the closing commands of a run were answered, both devices are left *)
(* safe, and stay so until the next run.                                   *)
THEOREM DevicesLeftSafe == Spec /\ [][Identified]_vars => []LeftSafe
BY SessionInvariant, ClosedSafe, PTL

LEMMA GoodVerdict == SessionInv => VerdictSound
<1> SUFFICES ASSUME SessionInv, verdict = "ok" PROVE VerdictSound
  BY DEF VerdictSound
<1>1. /\ pc = "close" /\ acquiring = <<>> /\ stats.run = runs /\ stats.ok
      /\ stats.units = IF received = <<>> THEN 0 ELSE received[Len(received)].at
  BY DEF SessionInv, Judged
<1>2. \A i \in DOMAIN received : received[i].run = runs
  BY <1>1 DEF SessionInv, OfRun, OwnItems, Active
<1>3. QED
  BY <1>1, <1>2 DEF VerdictSound

(* A run is reported good only when the ESP acquired for it without a      *)
(* failure and nothing it sent is missing at the end.                      *)
THEOREM VerdictsSound == Spec /\ [][Identified]_vars => []VerdictSound
BY SessionInvariant, GoodVerdict, PTL
=============================================================================
