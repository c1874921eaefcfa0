------------------------- MODULE ControlPortProofs -------------------------
(***************************************************************************)
(* ControlExact for every size of a frame, every place at which the magic  *)
(* value may occur inside one, and any number of processes and requests.   *)
(*                                                                         *)
(* The argument is about two lines of bytes: what lies ahead of the device *)
(* (received, on the way, and still unsent by the living process) and what *)
(* lies ahead of the process that reads.  Both are chains: the bytes of a  *)
(* frame in order, then the beginning of the frame of a later request, so  *)
(* a frame is broken only where a later one begins.  Hence no byte that is *)
(* skipped over a bad CRC belongs to a whole frame, and what is answered,  *)
(* executing, accepted and on the way are requests in their order.  What   *)
(* the device keeps of an ARG_HIGH is that of the last request it has seen *)
(* before the one it is receiving.                                         *)
(***************************************************************************)
EXTENDS ControlPort, SequenceTheorems, WellFoundedInduction, NaturalsInduction, TLAPS

-----------------------------------------------------------------------------
(* The invariant.                                                          *)
\* The bytes of a line, and what of a frame may follow what.
Bytes == [of : Nat \ {0}, place : 1 .. FrameBytes, magic : BOOLEAN]
Follows(a, b) == \/ b.of = a.of /\ b.place = a.place + 1
                 \/ b.of > a.of /\ b.place = 1
Chain(s) ==
    /\ s \in Seq(Bytes) /\ \A i \in 1 .. Len(s) : s[i].place = 1 => s[i].magic
    /\ \A i \in 1 .. Len(s) - 1 : Follows(s[i], s[i + 1])
\* The frame of a request is on a line, whole; its first n bytes end it.
At(s, k, id, n) == \A i \in 1 .. n : s[k + i].of = id /\ s[k + i].place = i
WholeIn(s, id) == \E k \in 0 .. Len(s) - FrameBytes : At(s, k, id, FrameBytes)
EndsWith(s, id, n) == Len(s) >= n /\ At(s, Len(s) - n, id, n)
\* Every frame is whole but the last.
Tidy(s) ==
    /\ s # <<>> => s[1].place = 1
    /\ \A i \in 1 .. Len(s) - 1 : s[i + 1].of # s[i].of => s[i].place = FrameBytes
Above(s, id) == \A i \in 1 .. Len(s) : id < s[i].of
Below(s, id) == \A i \in 1 .. Len(s) : s[i].of < id
UpTo(s, id) == \A i \in 1 .. Len(s) : s[i].of <= id

\* What the living process has still to write; all that lies ahead of the
\* device, and of the process that reads.
Unsent == IF port.phase = "writing" THEN SubSeq(port.frame, port.written + 1, FrameBytes) ELSE <<>>
Ahead == (request \o toDevice) \o Unsent
ToHost == port.buffer \o toHost
Asked == [op : {"info", "set", "high", "run", "stop"}, seq : Nat \ {0}]
Ids == 1 .. Len(asked)
Phases == {"closed", "idle", "writing", "waiting"}

PortOK ==
    /\ port.phase = "closed" => port = Closed
    /\ port.phase = "idle" => port.waiting = 0 /\ port.then = 0
    /\ port.phase = "writing" =>
           /\ port.sequence > 0 /\ port.then = 0 /\ port.written < FrameBytes
           /\ Len(port.frame) = FrameBytes /\ EndsWith(Ahead, Len(asked), FrameBytes)
           /\ IF asked[Len(asked)].op = "stop" THEN port.waiting # 0 /\ asked[port.waiting].op = "run"
              ELSE port.waiting = 0
    /\ port.phase = "waiting" => port.waiting # 0 /\ port.sequence > 0
    /\ port.then # 0 => asked[port.waiting].op = "run" /\ asked[port.then].op = "stop" /\ port.then = Len(asked)

CtlTypeOK ==
    /\ device \in {"esp", "fpga"} /\ asked \in Seq(Asked) /\ opens \in Nat
    /\ toDevice \in Seq(Bytes) /\ toHost \in Seq(Bytes) /\ request \in Seq(Bytes) /\ arg_high \in Nat
    /\ port \in [phase : Phases, sequence : Nat, written : Nat, frame : Seq(Bytes), waiting : {0} \cup Ids,
                 then : {0} \cup Ids, buffer : Seq(Bytes)]
    /\ pending \in {0} \cup Ids /\ executing \in {0} \cup Ids
    /\ seen \in SUBSET Ids
    /\ executed \in SUBSET [id : Ids, high : Nat]
    /\ answers \in SUBSET [to : Ids, reply : Ids]
    /\ device = "fpga" => \A id \in Ids : asked[id].op \in {"info", "set"}
    /\ device = "esp" => pending = 0

LinesOK ==
    /\ Chain(Ahead) /\ Chain(ToHost) /\ UpTo(Ahead, Len(asked)) /\ UpTo(ToHost, Len(asked))
    /\ Len(request) < FrameBytes
    /\ request = <<>> /\ Ahead # <<>> => Ahead[1].place = 1
TidyOK ==
    device = "fpga" => /\ Tidy(Ahead)
                       /\ port.phase # "closed" /\ Ahead # <<>> => Ahead[Len(Ahead)].place = FrameBytes

\* In order: answered, executing, accepted, on the way.
InOrder ==
    /\ \A i \in 1 .. Len(ToHost) : Above(Ahead, ToHost[i].of)
    /\ executing # 0 => Below(ToHost, executing) /\ Above(Ahead, executing)
    /\ pending # 0 => Below(ToHost, pending) /\ Above(Ahead, pending) /\ executing < pending
    /\ \A e \in executed : Above(Ahead, e.id)
    /\ \A i \in 1 .. Len(request) : request[i].of \in seen
    /\ \A j \in seen : Above(Ahead, j) \/ \E i \in 1 .. Len(request) : request[i].of = j

Where(id) == WholeIn(Ahead, id) \/ id \in {pending, executing} \/ WholeIn(ToHost, id)
AwaitedThere ==
    /\ port.waiting # 0 => Where(port.waiting)
    /\ port.then # 0 => Where(port.then)
    /\ device = "fpga" /\ port.phase = "waiting" => port.waiting = Len(asked)

\* The half an ARG_HIGH left, if the last of the requests is one that was executed.
HighIn(T, ran, requests) ==
    LET last == Max(T)
    IN  IF T # {} /\ requests[last].op = "high" /\ \E e \in ran : e.id = last THEN last ELSE 0
Earlier(T, id) == {j \in T : j < id}
KeptRight ==
    IF device = "fpga" THEN arg_high = 0
    ELSE IF request = <<>> THEN arg_high = HighIn(seen, executed, asked)
    ELSE request[1].place = 1 /\ (\A i \in 1 .. Len(request) : request[i].of = request[1].of)
         => arg_high = HighIn(Earlier(seen, request[1].of), executed, asked)

Base == Len(asked) - port.sequence
OfProcess ==
    /\ port.sequence <= Len(asked)
    /\ \A i \in 1 .. port.sequence : asked[Base + i].seq = i
    /\ port.sequence > 0 => asked[Base + 1].op = "info"
    /\ port.waiting # 0 => port.waiting > Base
    /\ port.then # 0 => port.then > Base
OwnFirst == \E b \in answers : b.to = Base + 1 /\ b.reply = b.to
ProcessKnown ==
    /\ OfProcess
    /\ port.phase = "writing" => \A b \in answers : b.to < Len(asked)
    /\ (port.phase = "idle" /\ port.sequence > 0) \/ port.sequence >= 2 => \E b \in answers : b.to = Base + 1
    /\ port.sequence > 0 /\ OwnFirst =>
           /\ Above(Ahead, Base + 1) /\ Above(ToHost, Base + 1)
           /\ pending # 0 => pending > Base + 1
           /\ executing # 0 => executing > Base + 1

ControlInv ==
    /\ CtlTypeOK /\ PortOK /\ LinesOK /\ TidyOK /\ InOrder /\ AwaitedThere /\ KeptRight /\ ProcessKnown
    /\ ArgumentsWhole /\ OwnReply

-----------------------------------------------------------------------------
(* Lines.                                                                  *)
IsDrop(s, m, t) == t \in Seq(Bytes) /\ Len(t) = Len(s) - m /\ \A i \in 1 .. Len(t) : t[i] = s[m + i]
IsPrefixOf(t, s) == t \in Seq(Bytes) /\ Len(t) <= Len(s) /\ \A i \in 1 .. Len(t) : t[i] = s[i]

\* Induction over an interval.
LEMMA Counting ==
    ASSUME NEW N \in Nat, NEW T, 0 \in T, \A i \in 0 .. N - 1 : i \in T => i + 1 \in T
    PROVE  \A i \in 0 .. N : i \in T
<1> SUFFICES ASSUME NEW j \in 0 .. N, j \notin T PROVE FALSE
  OBVIOUS
<1> DEFINE Missed == {k \in Nat : k \in 0 .. N /\ k \notin T}
           Less == {p \in Nat \X Nat : p[1] < p[2]}
<1>1. IsWellFoundedOn(Less, Nat)
  BY NatLessThanWellFounded DEF OpToRel
<1>2. Missed \in SUBSET Nat /\ Missed # {}
  OBVIOUS
<1>3. PICK i \in Missed : \A k \in Missed : ~(<<k, i>> \in Less)
  BY <1>1, <1>2, WFMin
<1>4. i # 0 /\ i - 1 \in 0 .. N - 1 /\ i - 1 \in Nat
  OBVIOUS
<1>5. i - 1 \notin T
  BY <1>4
<1>6. <<i - 1, i>> \in Less
  BY <1>4
<1>7. QED
  BY <1>3, <1>4, <1>5, <1>6

LEMMA FrameLength == FrameBytes \in Nat /\ FrameBytes > 0
BY ControlAssumption DEF ControlAssumption

LEMMA ByteIs ==
    ASSUME NEW b \in Bytes
    PROVE  b.of \in Nat /\ b.of > 0 /\ b.place \in Nat /\ b.place >= 1 /\ b.place <= FrameBytes /\ b.magic \in BOOLEAN
BY FrameLength DEF Bytes

LEMMA Elements ==
    ASSUME NEW s \in Seq(Bytes), NEW i \in 1 .. Len(s)
    PROVE  /\ s[i] \in Bytes /\ s[i].of \in Nat /\ s[i].of > 0 /\ s[i].place \in Nat
           /\ s[i].place >= 1 /\ s[i].place <= FrameBytes
<1>1. s[i] \in Bytes
  OBVIOUS
<1>2. QED
  BY <1>1, ByteIs

LEMMA CatIs ==
    ASSUME NEW p \in Seq(Bytes), NEW q \in Seq(Bytes)
    PROVE  /\ p \o q \in Seq(Bytes) /\ Len(p \o q) = Len(p) + Len(q)
           /\ \A i \in 1 .. Len(p) : (p \o q)[i] = p[i]
           /\ \A i \in 1 .. Len(q) : (p \o q)[Len(p) + i] = q[i]
OBVIOUS

LEMMA Joined ==
    ASSUME NEW p \in Seq(Bytes), NEW q \in Seq(Bytes)
    PROVE  \E s \in Seq(Bytes) :
             /\ s = p \o q /\ Len(s) = Len(p) + Len(q) /\ \A i \in 1 .. Len(p) : s[i] = p[i]
             /\ \A i \in 1 .. Len(q) : s[Len(p) + i] = q[i]
<1>1. /\ p \o q \in Seq(Bytes) /\ Len(p \o q) = Len(p) + Len(q)
      /\ \A i \in 1 .. Len(p) : (p \o q)[i] = p[i]
      /\ \A i \in 1 .. Len(q) : (p \o q)[Len(p) + i] = q[i]
  BY CatIs
<1>2. QED
  BY <1>1, Zenon

LEMMA DropChain ==
    ASSUME NEW s, Chain(s), NEW m \in 0 .. Len(s), NEW t, IsDrop(s, m, t)
    PROVE  Chain(t)
<1>1. s \in Seq(Bytes) /\ t \in Seq(Bytes) /\ Len(s) \in Nat /\ Len(t) \in Nat /\ m \in Nat /\ Len(s) = m + Len(t)
  BY DEF Chain, IsDrop
<1>2. ASSUME NEW i \in 1 .. Len(t), t[i].place = 1 PROVE t[i].magic
  <2>1. m + i \in 1 .. Len(s) /\ t[i] = s[m + i]
    BY <1>1 DEF IsDrop
  <2>2. QED
    BY <1>2, <2>1 DEF Chain
<1>3. ASSUME NEW i \in 1 .. Len(t) - 1 PROVE Follows(t[i], t[i + 1])
  <2>1. m + i \in 1 .. Len(s) - 1 /\ m + (i + 1) = (m + i) + 1 /\ i \in 1 .. Len(t) /\ i + 1 \in 1 .. Len(t)
    BY <1>1
  <2>2. t[i] = s[m + i] /\ t[i + 1] = s[(m + i) + 1]
    BY <2>1 DEF IsDrop
  <2>3. QED
    BY <2>1, <2>2 DEF Chain
<1>4. QED
  BY <1>1, <1>2, <1>3 DEF Chain

LEMMA PrefixChain ==
    ASSUME NEW s, Chain(s), NEW t, IsPrefixOf(t, s)
    PROVE  Chain(t)
<1>1. s \in Seq(Bytes) /\ t \in Seq(Bytes) /\ Len(s) \in Nat /\ Len(t) \in Nat /\ Len(t) <= Len(s)
  BY DEF Chain, IsPrefixOf
<1>2. \A i \in 1 .. Len(t) : i \in 1 .. Len(s) /\ t[i] = s[i]
  BY <1>1 DEF IsPrefixOf
<1>3. ASSUME NEW i \in 1 .. Len(t) - 1 PROVE Follows(t[i], t[i + 1])
  <2>1. i \in 1 .. Len(s) - 1 /\ i \in 1 .. Len(t) /\ i + 1 \in 1 .. Len(t)
    BY <1>1
  <2>2. QED
    BY <1>2, <2>1 DEF Chain
<1>4. QED
  BY <1>1, <1>2, <1>3 DEF Chain

LEMMA CatChain ==
    ASSUME NEW p, NEW q, Chain(p), Chain(q), p # <<>> /\ q # <<>> => Follows(p[Len(p)], q[1])
    PROVE  Chain(p \o q)
<1>1. p \in Seq(Bytes) /\ q \in Seq(Bytes) /\ Len(p) \in Nat /\ Len(q) \in Nat
  BY DEF Chain
<1>2. PICK s \in Seq(Bytes) : s = p \o q
  BY <1>1, CatIs
<1>3. /\ Len(s) = Len(p) + Len(q)
      /\ \A i \in 1 .. Len(p) : s[i] = p[i]
      /\ \A i \in 1 .. Len(q) : s[Len(p) + i] = q[i]
  BY <1>1, <1>2, CatIs
<1>4. ASSUME NEW i \in 1 .. Len(s), s[i].place = 1 PROVE s[i].magic
  <2>1. CASE i <= Len(p)
    BY <1>1, <1>3, <1>4, <2>1 DEF Chain
  <2>2. CASE i > Len(p)
    <3>1. PICK j \in 1 .. Len(q) : i = Len(p) + j
      <4>1. i - Len(p) \in 1 .. Len(q) /\ i = Len(p) + (i - Len(p))
        BY <1>1, <1>3, <2>2
      <4>2. QED
        BY <4>1
    <3>2. QED
      BY <1>3, <1>4, <3>1 DEF Chain
  <2>3. QED
    BY <1>1, <2>1, <2>2
<1>5. ASSUME NEW i \in 1 .. Len(s) - 1 PROVE Follows(s[i], s[i + 1])
  <2>1. CASE i < Len(p)
    <3>1. i \in 1 .. Len(p) /\ i + 1 \in 1 .. Len(p) /\ i \in 1 .. Len(p) - 1
      BY <1>1, <2>1
    <3>2. QED
      BY <1>3, <3>1 DEF Chain
  <2>2. CASE i = Len(p)
    <3>1. 1 \in 1 .. Len(q) /\ i \in 1 .. Len(p) /\ p # <<>> /\ q # <<>>
      BY <1>1, <1>3, <2>2
    <3>2. s[i] = p[Len(p)] /\ s[i + 1] = q[1]
      BY <1>3, <2>2, <3>1
    <3>3. QED
      BY <3>1, <3>2
  <2>3. CASE i > Len(p)
    <3>1. PICK j \in 1 .. Len(q) - 1 : i = Len(p) + j
      <4>1. i - Len(p) \in 1 .. Len(q) - 1 /\ i = Len(p) + (i - Len(p))
        BY <1>1, <1>3, <2>3
      <4>2. QED
        BY <4>1
    <3>2. i + 1 = Len(p) + (j + 1) /\ j \in 1 .. Len(q) /\ j + 1 \in 1 .. Len(q)
      BY <1>1, <3>1
    <3>3. s[i] = q[j] /\ s[i + 1] = q[j + 1]
      BY <1>3, <3>1, <3>2
    <3>4. QED
      BY <3>1, <3>3 DEF Chain
  <2>4. QED
    BY <1>1, <2>1, <2>2, <2>3
<1>6. QED
  BY <1>2, <1>4, <1>5 DEF Chain

\* Numbers do not go down along a line.
LEMMA Rising ==
    ASSUME NEW s, Chain(s), NEW i \in 1 .. Len(s), NEW j \in i .. Len(s)
    PROVE  s[i].of <= s[j].of
<1>1. s \in Seq(Bytes) /\ Len(s) \in Nat
  BY DEF Chain
<1> DEFINE T == {d \in Nat : i + d <= Len(s) => s[i].of <= s[i + d].of}
<1>2. 0 \in T
  <2>1. s[i].of \in Nat
    BY <1>1, Elements
  <2>2. QED
    BY <1>1, <2>1
<1>3. ASSUME NEW d \in 0 .. Len(s) - 1, d \in T PROVE d + 1 \in T
  <2> SUFFICES ASSUME i + (d + 1) <= Len(s) PROVE s[i].of <= s[i + (d + 1)].of
    OBVIOUS
  <2>1. i + d \in 1 .. Len(s) - 1 /\ i + d \in 1 .. Len(s) /\ (i + d) + 1 = i + (d + 1) /\ i + (d + 1) \in 1 .. Len(s)
    BY <1>1
  <2>2. s[i].of <= s[i + d].of
    BY <1>3, <2>1
  <2>3. Follows(s[i + d], s[i + (d + 1)])
    BY <2>1 DEF Chain
  <2>4. s[i].of \in Nat /\ s[i + d].of \in Nat /\ s[i + (d + 1)].of \in Nat
    BY <1>1, <2>1, Elements
  <2>5. QED
    BY <2>2, <2>3, <2>4 DEF Follows
<1> HIDE DEF T
<1>4. \A d \in 0 .. Len(s) : d \in T
  BY <1>1, <1>2, <1>3, Counting
<1>5. j - i \in 0 .. Len(s) /\ i + (j - i) = j
  BY <1>1
<1>6. j - i \in T
  BY <1>4, <1>5
<1>7. i + (j - i) <= Len(s) => s[i].of <= s[i + (j - i)].of
  BY <1>6 DEF T
<1>8. QED
  BY <1>1, <1>5, <1>7

\* Between two starts lie the bytes of one frame, one after the other.
LEMMA Going ==
    ASSUME NEW s, Chain(s), NEW i \in 1 .. Len(s), NEW j \in i .. Len(s), \A x \in i + 1 .. j : s[x].place # 1
    PROVE  s[j].of = s[i].of /\ s[j].place = s[i].place + (j - i)
<1>1. s \in Seq(Bytes) /\ Len(s) \in Nat
  BY DEF Chain
<1> DEFINE T == {d \in Nat : i + d <= j => s[i + d].of = s[i].of /\ s[i + d].place = s[i].place + d}
<1>2. 0 \in T
  <2>1. s[i].place \in Nat
    BY <1>1, Elements
  <2>2. QED
    BY <1>1, <2>1
<1>3. ASSUME NEW d \in 0 .. Len(s) - 1, d \in T PROVE d + 1 \in T
  <2> SUFFICES ASSUME i + (d + 1) <= j
               PROVE  s[i + (d + 1)].of = s[i].of /\ s[i + (d + 1)].place = s[i].place + (d + 1)
    OBVIOUS
  <2>1. i + d \in 1 .. Len(s) - 1 /\ i + d \in 1 .. Len(s) /\ (i + d) + 1 = i + (d + 1) /\ i + (d + 1) \in 1 .. Len(s)
        /\ i + (d + 1) \in i + 1 .. j /\ i + d <= j
    BY <1>1
  <2>2. s[i + d].of = s[i].of /\ s[i + d].place = s[i].place + d
    BY <1>3, <2>1
  <2>3. Follows(s[i + d], s[i + (d + 1)]) /\ s[i + (d + 1)].place # 1
    BY <2>1 DEF Chain
  <2>4. PICK p \in Nat : p = s[i].place
    BY <1>1, Elements
  <2>5. s[i + (d + 1)].of = s[i].of /\ s[i + (d + 1)].place = (p + d) + 1
    BY <2>2, <2>3, <2>4 DEF Follows
  <2>6. (p + d) + 1 = p + (d + 1)
    OBVIOUS
  <2>7. QED
    BY <2>4, <2>5, <2>6
<1> HIDE DEF T
<1>4. \A d \in 0 .. Len(s) : d \in T
  BY <1>1, <1>2, <1>3, Counting
<1>5. j - i \in 0 .. Len(s) /\ i + (j - i) = j /\ i + (j - i) <= j
  BY <1>1
<1>6. j - i \in T
  BY <1>4, <1>5
<1>7. QED
  BY <1>5, <1>6 DEF T

\* As many bytes as a frame has, without a start but perhaps the first, are a frame.
LEMMA Broken ==
    ASSUME NEW s, Chain(s), Len(s) >= FrameBytes, ~Intact(s)
    PROVE  \E j \in 2 .. FrameBytes : s[j].place = 1
<1> SUFFICES ASSUME \A j \in 2 .. FrameBytes : s[j].place # 1 PROVE Intact(s)
  OBVIOUS
<1>1. s \in Seq(Bytes) /\ Len(s) \in Nat /\ FrameBytes \in Nat /\ FrameBytes > 0
  BY FrameLength DEF Chain
<1>2. ASSUME NEW i \in 1 .. FrameBytes PROVE s[i].of = s[1].of /\ s[i].place = s[1].place + (i - 1)
  <2>1. 1 \in 1 .. Len(s) /\ i \in 1 .. Len(s) /\ \A x \in 1 + 1 .. i : x \in 2 .. FrameBytes
    BY <1>1
  <2>2. \A x \in 1 + 1 .. i : s[x].place # 1
    BY <2>1
  <2>3. QED
    BY <2>1, <2>2, Going
<1>3. s[1].place = 1
  <2>1. s[FrameBytes].place = s[1].place + (FrameBytes - 1) /\ 1 \in 1 .. Len(s) /\ FrameBytes \in 1 .. Len(s)
    BY <1>1, <1>2
  <2>2. s[1].place \in Nat /\ s[1].place >= 1 /\ s[FrameBytes].place <= FrameBytes
    BY <1>1, <2>1, Elements
  <2>3. QED
    BY <1>1, <2>1, <2>2
<1>4. ASSUME NEW i \in 1 .. FrameBytes PROVE s[i].place = i
  BY <1>1, <1>2, <1>3
<1>5. QED
  BY <1>2, <1>4 DEF Intact

LEMMA IntactIs ==
    ASSUME NEW s, Chain(s), Len(s) >= FrameBytes
    PROVE  /\ Intact(s) <=> At(s, 0, s[1].of, FrameBytes)
           /\ \A id : At(s, 0, id, FrameBytes) => Intact(s) /\ s[1].of = id
<1>1. s \in Seq(Bytes) /\ Len(s) \in Nat /\ FrameBytes \in Nat /\ 1 \in 1 .. FrameBytes
  BY FrameLength DEF Chain
<1>2. \A i \in 1 .. FrameBytes : 0 + i = i
  BY <1>1
<1>3. QED
  BY <1>1, <1>2 DEF Intact, At

\* What comes behind a whole frame is of later ones, and begins with a start.
LEMMA Behind ==
    ASSUME NEW s, Chain(s), NEW k \in 0 .. Len(s) - FrameBytes, NEW id, At(s, k, id, FrameBytes)
    PROVE  /\ \A i \in k + FrameBytes + 1 .. Len(s) : s[i].of > id
           /\ Len(s) > k + FrameBytes => s[k + FrameBytes + 1].place = 1
<1>1. s \in Seq(Bytes) /\ Len(s) \in Nat /\ FrameBytes \in Nat /\ FrameBytes > 0 /\ k \in Nat
  BY FrameLength DEF Chain
<1>2. s[k + FrameBytes].of = id /\ s[k + FrameBytes].place = FrameBytes /\ k + FrameBytes \in 1 .. Len(s)
  BY <1>1 DEF At
<1>3. ASSUME Len(s) > k + FrameBytes
      PROVE  s[k + FrameBytes + 1].place = 1 /\ s[k + FrameBytes + 1].of > id
  <2>1. k + FrameBytes \in 1 .. Len(s) - 1 /\ k + FrameBytes + 1 \in 1 .. Len(s)
    BY <1>1, <1>3
  <2>2. Follows(s[k + FrameBytes], s[k + FrameBytes + 1])
    BY <2>1 DEF Chain
  <2>3. s[k + FrameBytes + 1].place <= FrameBytes /\ s[k + FrameBytes + 1].place \in Nat
    BY <1>1, <2>1, Elements
  <2>4. QED
    BY <1>1, <1>2, <2>2, <2>3 DEF Follows
<1>4. ASSUME NEW i \in k + FrameBytes + 1 .. Len(s) PROVE s[i].of > id
  <2>1. Len(s) > k + FrameBytes /\ k + FrameBytes + 1 \in 1 .. Len(s) /\ i \in 1 .. Len(s) /\ i \in k + FrameBytes + 1 .. Len(s)
    BY <1>1
  <2>2. s[k + FrameBytes + 1].of <= s[i].of
    BY <2>1, Rising
  <2>3. s[k + FrameBytes + 1].of > id
    BY <1>3, <2>1
  <2>4. PICK a \in Nat, b \in Nat : a = s[k + FrameBytes + 1].of /\ b = s[i].of
    BY <1>1, <2>1, Elements
  <2>5. id \in Nat
    BY <1>1, <1>2, Elements
  <2>6. QED
    BY <2>2, <2>3, <2>4, <2>5
<1>5. QED
  BY <1>3, <1>4

\* A set of places that has any has a first one.
LEMMA FirstPlace ==
    ASSUME NEW N \in Nat, NEW S \in SUBSET (1 .. N), S # {}
    PROVE  Min(S) \in S /\ \A y \in S : Min(S) <= y
<1> DEFINE Less == {p \in Nat \X Nat : p[1] < p[2]}
<1>1. IsWellFoundedOn(Less, Nat)
  BY NatLessThanWellFounded DEF OpToRel
<1>2. S \in SUBSET Nat
  OBVIOUS
<1>3. PICK x \in S : \A y \in S : ~(<<y, x>> \in Less)
  BY <1>1, <1>2, WFMin
<1>4. \A y \in S : x <= y
  <2> TAKE y \in S
  <2>1. x \in Nat /\ y \in Nat /\ ~(y < x)
    BY <1>2, <1>3
  <2>2. QED
    BY <2>1
<1>5. QED
  BY <1>3, <1>4 DEF Min

\* What is left of a buffer begins with the first magic byte.
LEMMA FromMagicIs ==
    ASSUME NEW s \in Seq(Bytes)
    PROVE  \E m \in 0 .. Len(s) : /\ IsDrop(s, m, FromMagic(s)) /\ \A j \in 1 .. m : ~s[j].magic
                                  /\ m < Len(s) => s[m + 1].magic
<1> DEFINE at == {i \in DOMAIN s : s[i].magic}
<1>1. Len(s) \in Nat /\ DOMAIN s = 1 .. Len(s)
  OBVIOUS
<1>2. CASE at = {}
  <2>1. FromMagic(s) = <<>>
    BY <1>2 DEF FromMagic
  <2>2. IsDrop(s, Len(s), FromMagic(s))
    <3>1. <<>> \in Seq(Bytes) /\ Len(<<>>) = 0
      OBVIOUS
    <3>2. QED
      BY <1>1, <2>1, <3>1 DEF IsDrop
  <2>3. QED
    BY <1>1, <1>2, <2>2
<1>3. CASE at # {}
  <2>1. PICK f \in 1 .. Len(s) : f = Min(at) /\ f \in at /\ \A y \in at : f <= y
    <3>1. at \in SUBSET (1 .. Len(s))
      BY <1>1
    <3>2. QED
      BY <1>1, <1>3, <3>1, FirstPlace
  <2>2. FromMagic(s) = SubSeq(s, f, Len(s))
    BY <1>3, <2>1 DEF FromMagic
  <2>3. PICK t \in Seq(Bytes) : t = SubSeq(s, f, Len(s)) /\ Len(t) = Len(s) - (f - 1)
    <3>1. SubSeq(s, f, Len(s)) \in Seq(Bytes) /\ Len(SubSeq(s, f, Len(s))) = Len(s) - (f - 1)
      BY <1>1
    <3>2. QED
      BY <3>1
  <2>4. \A i \in 1 .. Len(t) : t[i] = s[(f - 1) + i]
    <3> TAKE i \in 1 .. Len(t)
    <3>1. (f - 1) + i = f + i - 1
      BY <1>1
    <3>2. t[i] = s[f + i - 1]
      BY <1>1, <2>3
    <3>3. QED
      BY <3>1, <3>2
  <2>5. IsDrop(s, f - 1, FromMagic(s))
    BY <2>2, <2>3, <2>4 DEF IsDrop
  <2>6. f - 1 \in 0 .. Len(s) /\ (f - 1) + 1 = f
    BY <1>1
  <2>7. \A j \in 1 .. f - 1 : ~s[j].magic
    <3> TAKE j \in 1 .. f - 1
    <3>1. j \in 1 .. Len(s) /\ ~(f <= j)
      BY <1>1
    <3>2. QED
      BY <1>1, <2>1, <3>1
  <2>8. QED
    BY <2>1, <2>5, <2>6, <2>7
<1>4. QED
  BY <1>2, <1>3

-----------------------------------------------------------------------------
(* What stays true of a line that loses bytes, or gains some.              *)
Within(t, s) == t \in Seq(Bytes) /\ \A i \in 1 .. Len(t) : \E j \in 1 .. Len(s) : t[i] = s[j]

LEMMA DropWithin ==
    ASSUME NEW s \in Seq(Bytes), NEW m \in 0 .. Len(s), NEW t, IsDrop(s, m, t)
    PROVE  Within(t, s)
<1>1. t \in Seq(Bytes) /\ Len(t) \in Nat /\ Len(s) \in Nat /\ Len(s) = m + Len(t)
  BY DEF IsDrop
<1>2. ASSUME NEW i \in 1 .. Len(t) PROVE m + i \in 1 .. Len(s) /\ t[i] = s[m + i]
  BY <1>1 DEF IsDrop
<1>3. QED
  BY <1>1, <1>2 DEF Within

LEMMA PrefixWithin ==
    ASSUME NEW s \in Seq(Bytes), NEW t, IsPrefixOf(t, s)
    PROVE  Within(t, s)
<1>1. t \in Seq(Bytes) /\ Len(t) \in Nat /\ Len(s) \in Nat /\ Len(t) <= Len(s)
  BY DEF IsPrefixOf
<1>2. ASSUME NEW i \in 1 .. Len(t) PROVE i \in 1 .. Len(s) /\ t[i] = s[i]
  BY <1>1 DEF IsPrefixOf
<1>3. QED
  BY <1>1, <1>2 DEF Within

LEMMA WithinBounds ==
    ASSUME NEW s, NEW t, Within(t, s), NEW id
    PROVE  (Above(s, id) => Above(t, id)) /\ (Below(s, id) => Below(t, id)) /\ (UpTo(s, id) => UpTo(t, id))
BY DEF Within, Above, Below, UpTo

LEMMA CatBounds ==
    ASSUME NEW p \in Seq(Bytes), NEW q \in Seq(Bytes), NEW id
    PROVE  /\ Above(p, id) /\ Above(q, id) => Above(p \o q, id)
           /\ Below(p, id) /\ Below(q, id) => Below(p \o q, id)
           /\ UpTo(p, id) /\ UpTo(q, id) => UpTo(p \o q, id)
<1>1. PICK s \in Seq(Bytes) : s = p \o q
  BY CatIs
<1>2. /\ Len(s) = Len(p) + Len(q) /\ Len(p) \in Nat /\ Len(q) \in Nat
      /\ \A i \in 1 .. Len(p) : s[i] = p[i]
      /\ \A i \in 1 .. Len(q) : s[Len(p) + i] = q[i]
  BY <1>1, CatIs
<1>3. ASSUME NEW i \in 1 .. Len(s)
      PROVE  (\E j \in 1 .. Len(p) : s[i] = p[j]) \/ \E j \in 1 .. Len(q) : s[i] = q[j]
  <2>1. CASE i <= Len(p)
    <3>1. i \in 1 .. Len(p)
      BY <1>2, <2>1
    <3>2. QED
      BY <1>2, <3>1
  <2>2. CASE i > Len(p)
    <3>1. i - Len(p) \in 1 .. Len(q) /\ Len(p) + (i - Len(p)) = i
      BY <1>2, <2>2
    <3>2. QED
      BY <1>2, <3>1
  <2>3. QED
    BY <1>2, <2>1, <2>2
<1>4. QED
  BY <1>1, <1>3 DEF Above, Below, UpTo

\* A frame that begins behind the bytes lost is still there.
LEMMA WholeKept ==
    ASSUME NEW s \in Seq(Bytes), NEW m \in 0 .. Len(s), NEW t, IsDrop(s, m, t), NEW id,
           \A k \in 0 .. Len(s) - FrameBytes : At(s, k, id, FrameBytes) => k >= m
    PROVE  /\ WholeIn(s, id) => WholeIn(t, id)
           /\ EndsWith(s, id, FrameBytes) => EndsWith(t, id, FrameBytes)
<1>1. t \in Seq(Bytes) /\ Len(t) \in Nat /\ Len(s) \in Nat /\ Len(s) = m + Len(t) /\ FrameBytes \in Nat
  BY FrameLength DEF IsDrop
<1>2. ASSUME NEW k \in 0 .. Len(s) - FrameBytes, At(s, k, id, FrameBytes)
      PROVE  k - m \in 0 .. Len(t) - FrameBytes /\ At(t, k - m, id, FrameBytes)
  <2>1. k >= m /\ k - m \in 0 .. Len(t) - FrameBytes
    BY <1>1, <1>2
  <2>2. ASSUME NEW i \in 1 .. FrameBytes PROVE t[(k - m) + i] = s[k + i]
    <3>1. (k - m) + i \in 1 .. Len(t) /\ m + ((k - m) + i) = k + i
      BY <1>1, <2>1
    <3>2. QED
      BY <3>1 DEF IsDrop
  <2>3. QED
    BY <1>2, <2>1, <2>2 DEF At
<1>3. WholeIn(s, id) => WholeIn(t, id)
  BY <1>2 DEF WholeIn
<1>4. ASSUME EndsWith(s, id, FrameBytes) PROVE EndsWith(t, id, FrameBytes)
  <2>1. Len(s) - FrameBytes \in 0 .. Len(s) - FrameBytes /\ At(s, Len(s) - FrameBytes, id, FrameBytes)
    BY <1>1, <1>4 DEF EndsWith
  <2>2. (Len(s) - FrameBytes) - m = Len(t) - FrameBytes
    BY <1>1
  <2>3. QED
    BY <1>1, <1>2, <2>1, <2>2 DEF EndsWith
<1>5. QED
  BY <1>3, <1>4

LEMMA EndIsWhole ==
    ASSUME NEW s \in Seq(Bytes), NEW id, EndsWith(s, id, FrameBytes)
    PROVE  WholeIn(s, id)
<1>1. Len(s) \in Nat /\ FrameBytes \in Nat /\ Len(s) >= FrameBytes
  BY FrameLength DEF EndsWith
<1>2. Len(s) - FrameBytes \in 0 .. Len(s) - FrameBytes
  BY <1>1
<1>3. QED
  BY <1>2 DEF EndsWith, WholeIn

LEMMA ShortHasNone ==
    ASSUME NEW s \in Seq(Bytes), Len(s) < FrameBytes, NEW id
    PROVE  ~WholeIn(s, id)
<1>1. Len(s) \in Nat /\ FrameBytes \in Nat
  BY FrameLength
<1>2. 0 .. Len(s) - FrameBytes = {}
  BY <1>1
<1>3. QED
  BY <1>2 DEF WholeIn

\* What is added behind leaves a frame where it is; a whole frame added is there.
LEMMA WholeCat ==
    ASSUME NEW p \in Seq(Bytes), NEW q \in Seq(Bytes), NEW id
    PROVE  /\ WholeIn(p, id) => WholeIn(p \o q, id)
           /\ Len(q) = FrameBytes /\ At(q, 0, id, FrameBytes) => EndsWith(p \o q, id, FrameBytes)
<1>1. PICK s \in Seq(Bytes) : s = p \o q
  BY CatIs
<1>2. /\ Len(s) = Len(p) + Len(q) /\ Len(p) \in Nat /\ Len(q) \in Nat /\ FrameBytes \in Nat
      /\ \A i \in 1 .. Len(p) : s[i] = p[i]
      /\ \A i \in 1 .. Len(q) : s[Len(p) + i] = q[i]
  BY <1>1, CatIs, FrameLength
<1>3. ASSUME NEW k \in 0 .. Len(p) - FrameBytes, At(p, k, id, FrameBytes) PROVE WholeIn(s, id)
  <2>1. k \in 0 .. Len(s) - FrameBytes /\ \A i \in 1 .. FrameBytes : k + i \in 1 .. Len(p)
    BY <1>2
  <2>2. At(s, k, id, FrameBytes)
    BY <1>2, <1>3, <2>1 DEF At
  <2>3. QED
    BY <2>1, <2>2 DEF WholeIn
<1>4. ASSUME Len(q) = FrameBytes, At(q, 0, id, FrameBytes) PROVE EndsWith(s, id, FrameBytes)
  <2>1. Len(s) >= FrameBytes /\ Len(s) - FrameBytes = Len(p) /\ \A i \in 1 .. FrameBytes : 0 + i = i
    BY <1>2, <1>4
  <2>2. At(s, Len(p), id, FrameBytes)
    BY <1>2, <1>4, <2>1 DEF At
  <2>3. QED
    BY <2>1, <2>2 DEF EndsWith
<1>5. QED
  BY <1>1, <1>3, <1>4 DEF WholeIn

\* Frames do not overlap.
LEMMA FrameStarts ==
    ASSUME NEW s \in Seq(Bytes), NEW a, NEW b, At(s, 0, a, FrameBytes), NEW k \in Nat, At(s, k, b, FrameBytes)
    PROVE  (k = 0 /\ a = b) \/ k >= FrameBytes
<1>1. FrameBytes \in Nat /\ FrameBytes > 0 /\ 1 \in 1 .. FrameBytes
  BY FrameLength
<1>2. s[k + 1].of = b /\ s[k + 1].place = 1
  BY <1>1 DEF At
<1>3. ASSUME k < FrameBytes PROVE k = 0 /\ a = b
  <2>1. k + 1 \in 1 .. FrameBytes /\ 0 + (k + 1) = k + 1
    BY <1>1, <1>3
  <2>2. s[k + 1].of = a /\ s[k + 1].place = k + 1
    BY <2>1 DEF At
  <2>3. QED
    BY <1>2, <2>2
<1>4. QED
  BY <1>1, <1>3

LEMMA FrameLost ==
    ASSUME NEW s \in Seq(Bytes), NEW a, At(s, 0, a, FrameBytes), Len(s) >= FrameBytes,
           NEW t, IsDrop(s, FrameBytes, t), NEW id
    PROVE  /\ WholeIn(s, id) => id = a \/ WholeIn(t, id)
           /\ EndsWith(s, id, FrameBytes) /\ Len(s) > FrameBytes => EndsWith(t, id, FrameBytes)
<1>1. Len(s) \in Nat /\ FrameBytes \in Nat /\ FrameBytes \in 0 .. Len(s)
  BY FrameLength
<1>2. ASSUME id # a PROVE /\ WholeIn(s, id) => WholeIn(t, id)
                          /\ EndsWith(s, id, FrameBytes) => EndsWith(t, id, FrameBytes)
  <2>1. \A k \in 0 .. Len(s) - FrameBytes : At(s, k, id, FrameBytes) => k >= FrameBytes
    BY <1>1, <1>2, FrameStarts
  <2>2. QED
    BY <1>1, <2>1, WholeKept
<1>3. ASSUME EndsWith(s, id, FrameBytes), Len(s) > FrameBytes PROVE EndsWith(t, id, FrameBytes)
  <2>1. PICK k \in Nat : k = Len(s) - FrameBytes /\ At(s, k, id, FrameBytes) /\ k # 0
    BY <1>1, <1>3 DEF EndsWith
  <2>2. k >= FrameBytes
    BY <2>1, FrameStarts
  <2>3. t \in Seq(Bytes) /\ Len(t) \in Nat /\ Len(t) = k /\ Len(t) >= FrameBytes
    BY <1>1, <2>1, <2>2 DEF IsDrop
  <2>4. ASSUME NEW i \in 1 .. FrameBytes PROVE t[(Len(t) - FrameBytes) + i] = s[k + i]
    <3>1. (Len(t) - FrameBytes) + i \in 1 .. Len(t) /\ FrameBytes + ((Len(t) - FrameBytes) + i) = k + i
      BY <1>1, <2>3
    <3>2. QED
      BY <3>1 DEF IsDrop
  <2>5. QED
    BY <2>1, <2>3, <2>4 DEF EndsWith, At
<1>4. QED
  BY <1>2, <1>3

\* Bytes dropped to go on from the next magic byte take no whole frame with them.
LEMMA NoneSkipped ==
    ASSUME NEW s, Chain(s), NEW m \in 0 .. Len(s), NEW z \in 1 .. 2, \A j \in z .. m : ~s[j].magic,
           z = 2 => Len(s) >= FrameBytes /\ ~Intact(s), NEW id,
           NEW k \in 0 .. Len(s) - FrameBytes, At(s, k, id, FrameBytes)
    PROVE  k >= m
<1> SUFFICES ASSUME k < m PROVE FALSE
  BY DEF Chain
<1>1. s \in Seq(Bytes) /\ Len(s) \in Nat /\ FrameBytes \in Nat /\ FrameBytes > 0 /\ 1 \in 1 .. FrameBytes
  BY FrameLength DEF Chain
<1>2. s[k + 1].place = 1 /\ k + 1 \in 1 .. Len(s) /\ k + 1 <= m
  BY <1>1 DEF At
<1>3. s[k + 1].magic
  BY <1>2 DEF Chain
<1>4. z = 2 /\ k = 0
  BY <1>1, <1>2, <1>3
<1>5. QED
  BY <1>1, <1>4, IntactIs

LEMMA TidyDrop ==
    ASSUME NEW s \in Seq(Bytes), Tidy(s), NEW m \in 0 .. Len(s), NEW t, IsDrop(s, m, t), t # <<>> => t[1].place = 1
    PROVE  Tidy(t) /\ (t # <<>> => s # <<>> /\ t[Len(t)] = s[Len(s)])
<1>1. t \in Seq(Bytes) /\ Len(t) \in Nat /\ Len(s) \in Nat /\ Len(s) = m + Len(t)
  BY DEF IsDrop
<1>2. ASSUME NEW i \in 1 .. Len(t) - 1, t[i + 1].of # t[i].of PROVE t[i].place = FrameBytes
  <2>1. m + i \in 1 .. Len(s) - 1 /\ m + (i + 1) = (m + i) + 1 /\ i \in 1 .. Len(t) /\ i + 1 \in 1 .. Len(t)
    BY <1>1
  <2>2. t[i] = s[m + i] /\ t[i + 1] = s[(m + i) + 1]
    BY <2>1 DEF IsDrop
  <2>3. QED
    BY <1>2, <2>1, <2>2 DEF Tidy
<1>3. ASSUME t # <<>> PROVE s # <<>> /\ t[Len(t)] = s[Len(s)]
  <2>1. Len(t) \in 1 .. Len(t) /\ Len(s) > 0
    BY <1>1, <1>3
  <2>2. QED
    BY <1>1, <2>1 DEF IsDrop
<1>4. QED
  BY <1>2, <1>3 DEF Tidy

LEMMA TidyPrefix ==
    ASSUME NEW s \in Seq(Bytes), Tidy(s), NEW t, IsPrefixOf(t, s)
    PROVE  Tidy(t)
<1>1. t \in Seq(Bytes) /\ Len(t) \in Nat /\ Len(s) \in Nat /\ Len(t) <= Len(s)
  BY DEF IsPrefixOf
<1>2. \A i \in 1 .. Len(t) : i \in 1 .. Len(s) /\ t[i] = s[i]
  BY <1>1 DEF IsPrefixOf
<1>3. ASSUME NEW i \in 1 .. Len(t) - 1 PROVE i \in 1 .. Len(s) - 1 /\ i \in 1 .. Len(t) /\ i + 1 \in 1 .. Len(t)
  BY <1>1
<1>4. t # <<>> => 1 \in 1 .. Len(t) /\ s # <<>>
  BY <1>1
<1>5. QED
  BY <1>2, <1>3, <1>4 DEF Tidy

LEMMA TidyCat ==
    ASSUME NEW p \in Seq(Bytes), NEW q \in Seq(Bytes), Tidy(p), Tidy(q), p # <<>> => p[Len(p)].place = FrameBytes
    PROVE  Tidy(p \o q)
<1>1. PICK s \in Seq(Bytes) : s = p \o q
  BY CatIs
<1>2. /\ Len(s) = Len(p) + Len(q) /\ Len(p) \in Nat /\ Len(q) \in Nat
      /\ \A i \in 1 .. Len(p) : s[i] = p[i]
      /\ \A i \in 1 .. Len(q) : s[Len(p) + i] = q[i]
  BY <1>1, CatIs
<1>3. ASSUME s # <<>> PROVE s[1].place = 1
  <2>1. CASE Len(p) > 0
    <3>1. 1 \in 1 .. Len(p) /\ p # <<>>
      BY <1>2, <2>1
    <3>2. QED
      BY <1>2, <3>1 DEF Tidy
  <2>2. CASE Len(p) = 0
    <3>1. 1 \in 1 .. Len(q) /\ q # <<>> /\ Len(p) + 1 = 1
      BY <1>1, <1>2, <1>3, <2>2
    <3>2. QED
      BY <1>2, <3>1 DEF Tidy
  <2>3. QED
    BY <1>2, <2>1, <2>2
<1>4. ASSUME NEW i \in 1 .. Len(s) - 1, s[i + 1].of # s[i].of PROVE s[i].place = FrameBytes
  <2>1. CASE i < Len(p)
    <3>1. i \in 1 .. Len(p) /\ i + 1 \in 1 .. Len(p) /\ i \in 1 .. Len(p) - 1
      BY <1>2, <2>1
    <3>2. QED
      BY <1>2, <1>4, <3>1 DEF Tidy
  <2>2. CASE i = Len(p)
    <3>1. i \in 1 .. Len(p) /\ p # <<>>
      BY <1>2, <2>2
    <3>2. QED
      BY <1>2, <2>2, <3>1
  <2>3. CASE i > Len(p)
    <3>1. PICK j \in 1 .. Len(q) - 1 : i = Len(p) + j
      <4>1. i - Len(p) \in 1 .. Len(q) - 1 /\ i = Len(p) + (i - Len(p))
        BY <1>2, <2>3
      <4>2. QED
        BY <4>1
    <3>2. i + 1 = Len(p) + (j + 1) /\ j \in 1 .. Len(q) /\ j + 1 \in 1 .. Len(q)
      BY <1>2, <3>1
    <3>3. s[i] = q[j] /\ s[i + 1] = q[j + 1]
      BY <1>2, <3>1, <3>2
    <3>4. QED
      BY <1>4, <3>1, <3>3 DEF Tidy
  <2>4. QED
    BY <1>2, <2>1, <2>2, <2>3
<1>5. QED
  BY <1>1, <1>3, <1>4 DEF Tidy

\* On a tidy line the first frame is whole.
LEMMA TidyIntact ==
    ASSUME NEW s, Chain(s), Tidy(s), Len(s) >= FrameBytes
    PROVE  Intact(s)
<1>1. s \in Seq(Bytes) /\ Len(s) \in Nat /\ FrameBytes \in Nat /\ FrameBytes > 0 /\ s # <<>>
  BY FrameLength DEF Chain
<1> DEFINE T == {d \in Nat : d < FrameBytes => s[1 + d].of = s[1].of /\ s[1 + d].place = 1 + d}
<1>2. 0 \in T
  BY <1>1 DEF Tidy
<1>3. ASSUME NEW d \in 0 .. FrameBytes - 1, d \in T PROVE d + 1 \in T
  <2> SUFFICES ASSUME d + 1 < FrameBytes PROVE s[1 + (d + 1)].of = s[1].of /\ s[1 + (d + 1)].place = 1 + (d + 1)
    OBVIOUS
  <2>1. 1 + d \in 1 .. Len(s) - 1 /\ (1 + d) + 1 = 1 + (d + 1) /\ 1 + d # FrameBytes
    BY <1>1
  <2>2. s[1 + d].of = s[1].of /\ s[1 + d].place = 1 + d
    BY <1>1, <1>3
  <2>3. s[(1 + d) + 1].of = s[1 + d].of
    BY <2>1, <2>2 DEF Tidy
  <2>4. Follows(s[1 + d], s[(1 + d) + 1])
    BY <2>1 DEF Chain
  <2>5. s[1 + d].of \in Nat
    BY <1>1, <2>1, Elements
  <2>6. s[(1 + d) + 1].place = (1 + d) + 1
    BY <2>3, <2>4, <2>5, <2>2 DEF Follows
  <2>7. QED
    BY <2>1, <2>2, <2>3, <2>6
<1> HIDE DEF T
<1>4. \A d \in 0 .. FrameBytes : d \in T
  BY <1>1, <1>2, <1>3, Counting
<1>5. ASSUME NEW i \in 1 .. FrameBytes PROVE s[i].place = i /\ s[i].of = s[1].of
  <2>1. PICK d \in 0 .. FrameBytes : i = 1 + d /\ d < FrameBytes
    <3>1. i - 1 \in 0 .. FrameBytes /\ i = 1 + (i - 1) /\ i - 1 < FrameBytes
      BY <1>1
    <3>2. QED
      BY <3>1
  <2>2. d \in T
    BY <1>4, <2>1
  <2>3. QED
    BY <2>1, <2>2 DEF T
<1>6. QED
  BY <1>5 DEF Intact

\* A start further on is of a later frame.
LEMMA StartIsLater ==
    ASSUME NEW s, Chain(s), NEW i \in 1 .. Len(s), NEW j \in i + 1 .. Len(s), s[j].place = 1
    PROVE  s[i].of < s[j].of
<1>1. s \in Seq(Bytes) /\ Len(s) \in Nat
  BY DEF Chain
<1>2. j - 1 \in 1 .. Len(s) - 1 /\ j - 1 \in i .. Len(s) /\ (j - 1) + 1 = j /\ j - 1 \in 1 .. Len(s) /\ j \in 1 .. Len(s)
  BY <1>1
<1>3. s[i].of <= s[j - 1].of
  BY <1>2, Rising
<1>4. Follows(s[j - 1], s[j])
  BY <1>2 DEF Chain
<1>5. PICK a \in Nat, b \in Nat, c \in Nat, p \in Nat :
          a = s[i].of /\ b = s[j - 1].of /\ c = s[j].of /\ p = s[j - 1].place /\ p >= 1
  <2>1. s[i].of \in Nat /\ s[j - 1].of \in Nat /\ s[j].of \in Nat /\ s[j - 1].place \in Nat /\ s[j - 1].place >= 1
    BY <1>1, <1>2, Elements
  <2>2. QED
    BY <2>1
<1>6. b < c
  BY <1>4, <1>5 DEF Follows
<1>7. QED
  BY <1>3, <1>5, <1>6

-----------------------------------------------------------------------------
(* Frames, and what a record of requests says.                             *)
LEMMA FrameIs ==
    ASSUME NEW id \in Nat \ {0}, NEW inner
    PROVE  /\ Chain(Frame(id, inner)) /\ Len(Frame(id, inner)) = FrameBytes
           /\ At(Frame(id, inner), 0, id, FrameBytes) /\ Tidy(Frame(id, inner))
<1>1. FrameBytes \in Nat /\ FrameBytes > 0
  BY FrameLength
<1>2. \A i \in 1 .. FrameBytes : [of |-> id, place |-> i, magic |-> i \in {1, inner}] \in Bytes
  BY DEF Bytes
<1> DEFINE f == [i \in 1 .. FrameBytes |-> [of |-> id, place |-> i, magic |-> i \in {1, inner}]]
<1>3. f \in [1 .. FrameBytes -> Bytes]
  BY <1>2
<1>4. f \in Seq(Bytes) /\ Len(f) = FrameBytes
  <2>1. f \in Seq(Bytes)
    BY <1>1, <1>3
  <2>2. QED
    BY <1>1, <1>3, <2>1
<1>5. \A i \in 1 .. FrameBytes : f[i].of = id /\ f[i].place = i /\ (i = 1 => f[i].magic)
  OBVIOUS
<1>6. f = Frame(id, inner)
  BY DEF Frame
<1> HIDE DEF f
<1>7. Chain(f)
  <2>1. ASSUME NEW i \in 1 .. FrameBytes - 1 PROVE Follows(f[i], f[i + 1])
    <3>1. i \in 1 .. FrameBytes /\ i + 1 \in 1 .. FrameBytes
      BY <1>1
    <3>2. QED
      BY <1>5, <3>1 DEF Follows
  <2>2. QED
    BY <1>4, <1>5, <2>1 DEF Chain
<1>8. At(f, 0, id, FrameBytes)
  <2>1. \A i \in 1 .. FrameBytes : 0 + i = i
    BY <1>1
  <2>2. QED
    BY <1>5, <2>1 DEF At
<1>9. Tidy(f)
  <2>1. 1 \in 1 .. FrameBytes /\ \A i \in 1 .. FrameBytes - 1 : i \in 1 .. FrameBytes /\ i + 1 \in 1 .. FrameBytes
    BY <1>1
  <2>2. QED
    BY <1>4, <1>5, <2>1 DEF Tidy
<1>10. QED
  BY <1>4, <1>6, <1>7, <1>8, <1>9

\* The first bytes of a frame, and what is left of it.
LEMMA PartIs ==
    ASSUME NEW s \in Seq(Bytes), NEW a \in 0 .. Len(s), NEW b \in a .. Len(s)
    PROVE  /\ SubSeq(s, a + 1, b) \in Seq(Bytes) /\ Len(SubSeq(s, a + 1, b)) = b - a
           /\ \A i \in 1 .. b - a : SubSeq(s, a + 1, b)[i] = s[a + i]
<1>1. Len(s) \in Nat /\ a \in Nat /\ b \in Nat /\ a <= b /\ b <= Len(s)
  OBVIOUS
<1>2. SubSeq(s, a + 1, b) \in Seq(Bytes)
  BY <1>1
<1>3. Len(SubSeq(s, a + 1, b)) = b - a
  BY <1>1
<1>4. ASSUME NEW i \in 1 .. b - a PROVE SubSeq(s, a + 1, b)[i] = s[a + i]
  <2>1. (a + 1) + i - 1 = a + i /\ a + 1 \in Nat
    BY <1>1
  <2>2. SubSeq(s, a + 1, b)[i] = s[(a + 1) + i - 1]
    BY <1>1
  <2>3. QED
    BY <2>1, <2>2
<1>5. QED
  BY <1>2, <1>3, <1>4

LEMMA MaxIs == ASSUME NEW S \in SUBSET Int, NEW m \in S, \A y \in S : y <= m PROVE Max(S) = m
<1>1. \E x \in S : \A y \in S : x >= y
  OBVIOUS
<1>2. Max(S) \in S /\ \A y \in S : Max(S) >= y
  BY <1>1 DEF Max
<1>3. PICK x \in Int : x = Max(S) /\ x >= m /\ x <= m
  BY <1>2
<1>4. QED
  BY <1>3

LEMMA Greatest ==
    ASSUME NEW N \in Nat, NEW S \in SUBSET (1 .. N), S # {}
    PROVE  Max(S) \in S /\ \A y \in S : y <= Max(S)
<1> DEFINE Gap == {k \in 1 .. N : \E y \in S : k = N + 1 - y}
<1>1. Gap \in SUBSET (1 .. N) /\ Gap # {}
  <2>1. PICK y \in S : TRUE
    OBVIOUS
  <2>2. N + 1 - y \in 1 .. N
    OBVIOUS
  <2>3. QED
    BY <2>2
<1>2. PICK k \in 1 .. N : k \in Gap /\ \A j \in Gap : k <= j
  BY <1>1, FirstPlace
<1>3. PICK m \in 1 .. N : m \in S /\ k = N + 1 - m
  BY <1>2
<1>4. ASSUME NEW y \in S PROVE y <= m
  <2>1. N + 1 - y \in Gap
    OBVIOUS
  <2>2. k <= N + 1 - y
    BY <1>2, <2>1
  <2>3. QED
    BY <1>3, <2>2
<1>5. QED
  BY <1>3, <1>4, MaxIs

LEMMA HighIsOf ==
    ASSUME NEW id
    PROVE  HighBefore(id) = HighIn(Earlier(seen, id), executed, asked)
BY DEF HighBefore, HighIn, Earlier

\* The last request was not executed: nothing is kept.
LEMMA NoneKept ==
    ASSUME NEW N \in Nat, NEW T \in SUBSET (1 .. N), NEW x \in T, NEW ran \in SUBSET [id : 1 .. N, high : Nat],
           \A e \in ran : e.id < x, NEW requests
    PROVE  HighIn(T, ran, requests) = 0
<1>1. PICK m \in 1 .. N : m = Max(T) /\ x <= m
  BY Greatest
<1>2. ASSUME NEW e \in ran PROVE e.id # m
  <2>1. e.id \in 1 .. N /\ e.id < x
    OBVIOUS
  <2>2. QED
    BY <1>1, <2>1
<1>3. QED
  BY <1>1, <1>2 DEF HighIn

\* What is kept depends on the requests it is made of alone.
Agree(T, ran, more, requests, others) ==
    /\ T # {} => Max(T) \in T
    /\ \A x \in T : (\E e \in ran : e.id = x) <=> (\E e \in more : e.id = x)
    /\ \A x \in T : others[x] = requests[x]

LEMMA SameKept ==
    ASSUME NEW T, NEW ran, NEW more, NEW requests, NEW others, Agree(T, ran, more, requests, others)
    PROVE  HighIn(T, more, others) = HighIn(T, ran, requests)
<1>1. CASE T = {}
  BY <1>1 DEF HighIn
<1>2. CASE T # {}
  <2>1. PICK m \in T : m = Max(T)
    BY <1>2 DEF Agree
  <2>2. others[m] = requests[m] /\ ((\E e \in ran : e.id = m) <=> (\E e \in more : e.id = m))
    BY <2>1 DEF Agree
  <2>3. QED
    BY <1>2, <2>1, <2>2 DEF HighIn
<1>3. QED
  BY <1>1, <1>2

\* The last request is an ARG_HIGH that was executed, or another.
LEMMA LastKept ==
    ASSUME NEW N \in Nat, NEW T \in SUBSET (1 .. N), NEW x \in T, \A y \in T : y <= x,
           NEW ran, \E e \in ran : e.id = x, NEW requests
    PROVE  HighIn(T, ran, requests) = IF requests[x].op = "high" THEN x ELSE 0
<1>1. Max(T) = x
  BY MaxIs
<1>2. QED
  BY <1>1 DEF HighIn

LEMMA NoHigh ==
    ASSUME NEW N \in Nat, NEW T \in SUBSET (1 .. N), NEW ran, NEW requests, \A x \in 1 .. N : requests[x].op # "high"
    PROVE  HighIn(T, ran, requests) = 0
<1>1. T # {} => Max(T) \in 1 .. N
  BY Greatest
<1>2. QED
  BY <1>1 DEF HighIn

-----------------------------------------------------------------------------
(* The lines of a state.                                                   *)
LEMMA Fields ==
    ASSUME CtlTypeOK
    PROVE  /\ port.phase \in Phases /\ port.sequence \in Nat /\ port.written \in Nat /\ port.frame \in Seq(Bytes)
           /\ port.waiting \in {0} \cup Ids /\ port.then \in {0} \cup Ids /\ port.buffer \in Seq(Bytes)
           /\ asked \in Seq(Asked) /\ Len(asked) \in Nat
           /\ toDevice \in Seq(Bytes) /\ toHost \in Seq(Bytes) /\ request \in Seq(Bytes)
           /\ pending \in Nat /\ executing \in Nat
<1>1. asked \in Seq(Asked) /\ Len(asked) \in Nat
  BY DEF CtlTypeOK
<1>2. pending \in Nat /\ executing \in Nat
  BY <1>1 DEF CtlTypeOK, Ids
<1>3. QED
  BY <1>1, <1>2 DEF CtlTypeOK

LEMMA Lines ==
    ASSUME CtlTypeOK, PortOK
    PROVE  /\ Unsent \in Seq(Bytes) /\ Ahead \in Seq(Bytes) /\ ToHost \in Seq(Bytes)
           /\ Len(Unsent) = IF port.phase = "writing" THEN FrameBytes - port.written ELSE 0
           /\ Len(Ahead) = Len(request) + Len(toDevice) + Len(Unsent)
           /\ Len(ToHost) = Len(port.buffer) + Len(toHost)
<1>0. /\ toDevice \in Seq(Bytes) /\ request \in Seq(Bytes)
      /\ ToHost \in Seq(Bytes) /\ Len(ToHost) = Len(port.buffer) + Len(toHost)
  BY Fields, CatIs DEF ToHost
<1>1. CASE port.phase = "writing"
  <2>1. port.frame \in Seq(Bytes) /\ Len(port.frame) = FrameBytes /\ port.written \in 0 .. FrameBytes /\ FrameBytes \in Nat
    BY <1>1, Fields, FrameLength DEF PortOK
  <2>2. Unsent \in Seq(Bytes) /\ Len(Unsent) = FrameBytes - port.written
    <3>1. FrameBytes \in port.written .. FrameBytes
      BY <2>1
    <3>2. QED
      BY <1>1, <2>1, <3>1, PartIs DEF Unsent
  <2>3. request \o toDevice \in Seq(Bytes) /\ Len(request \o toDevice) = Len(request) + Len(toDevice)
    BY <1>0, CatIs
  <2>4. Ahead \in Seq(Bytes) /\ Len(Ahead) = Len(request) + Len(toDevice) + Len(Unsent)
    BY <2>2, <2>3, CatIs DEF Ahead
  <2>5. QED
    BY <1>0, <1>1, <2>2, <2>4
<1>2. CASE port.phase # "writing"
  <2>1. Unsent \in Seq(Bytes) /\ Len(Unsent) = 0
    BY <1>2 DEF Unsent
  <2>3. request \o toDevice \in Seq(Bytes) /\ Len(request \o toDevice) = Len(request) + Len(toDevice)
    BY <1>0, CatIs
  <2>4. Ahead \in Seq(Bytes) /\ Len(Ahead) = Len(request) + Len(toDevice) + Len(Unsent)
    BY <2>1, <2>3, CatIs DEF Ahead
  <2>5. QED
    BY <1>0, <1>2, <2>1, <2>4
<1>3. QED
  BY <1>1, <1>2

\* The host leaves what the device knows alone.
LEMMA HostKeeps ==
    ASSUME ControlInv, UNCHANGED <<device, asked, request, arg_high, pending, executing, seen, executed>>,
           IsPrefixOf(Ahead', Ahead), Within(ToHost', ToHost), Chain(ToHost')
    PROVE  LinesOK' /\ InOrder' /\ KeptRight' /\ ArgumentsWhole'
<1>1. CtlTypeOK /\ PortOK /\ LinesOK /\ InOrder /\ KeptRight /\ ArgumentsWhole
  BY DEF ControlInv
<1>2. Ahead \in Seq(Bytes) /\ Ahead' \in Seq(Bytes) /\ Within(Ahead', Ahead)
  <2>1. Ahead \in Seq(Bytes)
    BY <1>1, Lines
  <2>2. QED
    BY <2>1, PrefixWithin DEF IsPrefixOf
<1>3. LinesOK'
  <2>1. Chain(Ahead')
    BY <1>1, PrefixChain DEF LinesOK
  <2>2. UpTo(Ahead', Len(asked)) /\ UpTo(ToHost', Len(asked))
    BY <1>1, <1>2, WithinBounds DEF LinesOK
  <2>3. ASSUME request = <<>>, Ahead' # <<>> PROVE Ahead'[1].place = 1
    <3>1. 1 \in 1 .. Len(Ahead') /\ Ahead # <<>> /\ Ahead'[1] = Ahead[1]
      <4>1. Len(Ahead') \in Nat /\ Len(Ahead') # 0 /\ Len(Ahead) \in Nat
        BY <1>2, <2>3, EmptySeq
      <4>2. QED
        BY <4>1 DEF IsPrefixOf
    <3>2. QED
      BY <1>1, <2>3, <3>1 DEF LinesOK
  <2>4. QED
    BY <1>1, <2>1, <2>2, <2>3 DEF LinesOK
<1>4. InOrder'
  <2>1. \A i \in 1 .. Len(ToHost') : Above(Ahead', ToHost'[i].of)
    <3> TAKE i \in 1 .. Len(ToHost')
    <3>1. PICK j \in 1 .. Len(ToHost) : ToHost'[i] = ToHost[j]
      BY DEF Within
    <3>2. Above(Ahead, ToHost[j].of)
      BY <1>1 DEF InOrder
    <3>3. QED
      BY <1>2, <3>1, <3>2, WithinBounds
  <2>2. \A id : (Above(Ahead, id) => Above(Ahead', id)) /\ (Below(ToHost, id) => Below(ToHost', id))
    BY <1>2, WithinBounds
  <2>3. QED
    BY <1>1, <2>1, <2>2 DEF InOrder
<1>5. KeptRight'
  BY <1>1 DEF KeptRight
<1>6. ArgumentsWhole'
  BY <1>1 DEF ArgumentsWhole, HighBefore
<1>7. QED
  BY <1>3, <1>4, <1>5, <1>6

-----------------------------------------------------------------------------
(* The host.                                                               *)
LEMMA LineKept == ASSUME NEW s \in Seq(Bytes) PROVE IsPrefixOf(s, s) /\ Within(s, s) /\ IsDrop(s, 0, s)
<1>1. Len(s) \in Nat /\ \A i \in 1 .. Len(s) : 0 + i = i
  OBVIOUS
<1>2. QED
  BY <1>1 DEF IsPrefixOf, Within, IsDrop

LEMMA DropDrop ==
    ASSUME NEW s \in Seq(Bytes), NEW a \in 0 .. Len(s), NEW t, IsDrop(s, a, t), NEW b \in 0 .. Len(t), NEW u, IsDrop(t, b, u)
    PROVE  a + b \in 0 .. Len(s) /\ IsDrop(s, a + b, u)
<1>1. /\ t \in Seq(Bytes) /\ u \in Seq(Bytes) /\ Len(s) \in Nat /\ Len(t) \in Nat /\ Len(u) \in Nat
      /\ Len(t) = Len(s) - a /\ Len(u) = Len(t) - b
  BY DEF IsDrop
<1>2. ASSUME NEW i \in 1 .. Len(u) PROVE u[i] = s[(a + b) + i]
  <2>1. b + i \in 1 .. Len(t) /\ a + (b + i) = (a + b) + i
    BY <1>1
  <2>2. QED
    BY <2>1 DEF IsDrop
<1>3. QED
  BY <1>1, <1>2 DEF IsDrop

LEMMA DropCat ==
    ASSUME NEW x \in Seq(Bytes), NEW y \in Seq(Bytes), NEW m \in 0 .. Len(x), NEW t \in Seq(Bytes), IsDrop(x, m, t)
    PROVE  m \in 0 .. Len(x \o y) /\ IsDrop(x \o y, m, t \o y)
<1>1. /\ t \in Seq(Bytes) /\ Len(x) \in Nat /\ Len(t) \in Nat /\ Len(y) \in Nat /\ Len(t) = Len(x) - m
  BY DEF IsDrop
<1>2. PICK s \in Seq(Bytes) :
          /\ s = x \o y /\ Len(s) = Len(x) + Len(y) /\ \A i \in 1 .. Len(x) : s[i] = x[i]
          /\ \A i \in 1 .. Len(y) : s[Len(x) + i] = y[i]
  BY Joined, Zenon
<1>3. PICK u \in Seq(Bytes) :
          /\ u = t \o y /\ Len(u) = Len(t) + Len(y) /\ \A i \in 1 .. Len(t) : u[i] = t[i]
          /\ \A i \in 1 .. Len(y) : u[Len(t) + i] = y[i]
  BY Joined, Zenon
<1>4. ASSUME NEW i \in 1 .. Len(u) PROVE u[i] = s[m + i]
  <2>1. CASE i <= Len(t)
    <3>1. i \in 1 .. Len(t) /\ m + i \in 1 .. Len(x)
      BY <1>1, <2>1
    <3>2. QED
      BY <1>2, <1>3, <3>1 DEF IsDrop
  <2>2. CASE i > Len(t)
    <3>1. i - Len(t) \in 1 .. Len(y) /\ Len(t) + (i - Len(t)) = i /\ Len(x) + (i - Len(t)) = m + i
      BY <1>1, <1>3, <2>2
    <3>2. QED
      BY <1>2, <1>3, <3>1
  <2>3. QED
    BY <1>1, <2>1, <2>2
<1>5. m \in 0 .. Len(s) /\ Len(u) = Len(s) - m
  BY <1>1, <1>2, <1>3
<1>6. QED
  BY <1>2, <1>3, <1>4, <1>5 DEF IsDrop

LEMMA SplitAt ==
    ASSUME NEW s \in Seq(Bytes), NEW n \in 0 .. Len(s)
    PROVE  /\ SubSeq(s, 1, n) \in Seq(Bytes) /\ SubSeq(s, n + 1, Len(s)) \in Seq(Bytes)
           /\ SubSeq(s, 1, n) \o SubSeq(s, n + 1, Len(s)) = s
           /\ IsDrop(s, n, SubSeq(s, n + 1, Len(s))) /\ IsPrefixOf(SubSeq(s, 1, n), s)
<1>1. Len(s) \in Nat /\ n \in Nat /\ n <= Len(s) /\ 0 \in 0 .. Len(s) /\ n \in 0 .. Len(s) /\ Len(s) \in n .. Len(s) /\ 0 + 1 = 1
  OBVIOUS
<1>2. PICK p \in Seq(Bytes) : p = SubSeq(s, 1, n) /\ Len(p) = n /\ \A i \in 1 .. n : p[i] = s[i]
  <2>1. /\ SubSeq(s, 0 + 1, n) \in Seq(Bytes) /\ Len(SubSeq(s, 0 + 1, n)) = n - 0
        /\ \A i \in 1 .. n - 0 : SubSeq(s, 0 + 1, n)[i] = s[0 + i]
    BY <1>1, PartIs
  <2>2. n - 0 = n /\ \A i \in 1 .. n : 0 + i = i
    BY <1>1
  <2>3. QED
    BY <1>1, <2>1, <2>2
<1>3. PICK q \in Seq(Bytes) : q = SubSeq(s, n + 1, Len(s)) /\ Len(q) = Len(s) - n /\ \A i \in 1 .. Len(s) - n : q[i] = s[n + i]
  BY <1>1, PartIs
<1>4. p \o q = s
  <2>1. PICK t \in Seq(Bytes) :
            /\ t = p \o q /\ Len(t) = Len(p) + Len(q) /\ \A i \in 1 .. Len(p) : t[i] = p[i]
            /\ \A i \in 1 .. Len(q) : t[Len(p) + i] = q[i]
    BY Joined, Zenon
  <2>2. /\ Len(t) = Len(s) /\ \A i \in 1 .. n : t[i] = p[i]
        /\ \A i \in 1 .. Len(s) - n : t[n + i] = q[i]
    <3>1. Len(p) = n /\ Len(q) = Len(s) - n
      BY <1>2, <1>3
    <3>2. Len(p) + Len(q) = Len(s)
      BY <1>1, <3>1
    <3>3. QED
      BY ONLY <2>1, <3>1, <3>2
  <2>3. ASSUME NEW i \in 1 .. Len(t) PROVE t[i] = s[i]
    <3>1. CASE i <= n
      BY <1>1, <1>2, <2>2, <3>1
    <3>2. CASE i > n
      <4>1. i - n \in 1 .. Len(s) - n /\ n + (i - n) = i
        BY <1>1, <2>2, <3>2
      <4>2. QED
        BY <1>3, <2>2, <4>1
    <3>3. QED
      BY <1>1, <3>1, <3>2
  <2>4. QED
    BY <2>1, <2>2, <2>3, SeqEqual
<1>5. QED
  BY <1>1, <1>2, <1>3, <1>4 DEF IsDrop, IsPrefixOf

\* A process that awaits another reply than its first has had its first.
LEMMA LaterWaits ==
    ASSUME ControlInv, port.waiting # 0, asked[port.waiting].op # "info"
    PROVE  /\ port.sequence >= 2 /\ \E b \in answers : b.to = Base + 1
<1>1. /\ port.sequence \in Nat /\ Len(asked) \in Nat /\ port.waiting \in Nat /\ port.waiting <= Len(asked)
      /\ port.sequence <= Len(asked) /\ port.waiting > Base /\ (port.sequence > 0 => asked[Base + 1].op = "info")
  BY Fields DEF ControlInv, ProcessKnown, OfProcess, Ids
<1>2. port.sequence >= 2
  <2>1. CASE port.sequence = 0
    BY <1>1, <2>1 DEF Base
  <2>2. CASE port.sequence = 1
    BY <1>1, <2>2 DEF Base
  <2>3. QED
    BY <1>1, <2>1, <2>2
<1>3. QED
  BY <1>2 DEF ControlInv, ProcessKnown

\* What is known of the process stays known when nothing is asked or answered.
LEMMA ProcessKeeps ==
    ASSUME ControlInv, UNCHANGED <<asked, answers, pending, executing>>, port'.sequence = port.sequence,
           port'.waiting # 0 => port'.waiting > Base, port'.then # 0 => port'.then > Base,
           port'.phase = "writing" => port.phase = "writing",
           port'.phase = "idle" => port.phase = "idle" \/ \E b \in answers : b.to = Base + 1,
           Within(Ahead', Ahead), Within(ToHost', ToHost)
    PROVE  ProcessKnown' /\ OwnReply'
<1>1. ProcessKnown /\ OwnReply
  BY DEF ControlInv
<1>2. Base' = Base
  BY DEF Base
<1>3. OfProcess'
  BY <1>1, <1>2 DEF ProcessKnown, OfProcess
<1>4. OwnFirst' <=> OwnFirst
  BY <1>2 DEF OwnFirst
<1>5. Above(Ahead, Base + 1) => Above(Ahead', Base + 1)
  BY WithinBounds
<1>6. Above(ToHost, Base + 1) => Above(ToHost', Base + 1)
  BY WithinBounds
<1>7. ProcessKnown'
  BY <1>1, <1>2, <1>3, <1>4, <1>5, <1>6 DEF ProcessKnown
<1>8. OwnReply'
  BY <1>1 DEF OwnReply, First
<1>9. QED
  BY <1>7, <1>8

LEMMA StopUnansweredKeeps == ASSUME ControlInv, StopUnanswered PROVE ControlInv'
<1>1. CtlTypeOK /\ PortOK /\ LinesOK /\ TidyOK /\ InOrder /\ AwaitedThere
  BY DEF ControlInv
<1>2. /\ port.phase = "waiting" /\ port.waiting # 0 /\ port.then = 0 /\ port.sequence > 0
      /\ asked[port.waiting].op = "stop" /\ port' = [port EXCEPT !.phase = "idle", !.waiting = 0]
      /\ UNCHANGED <<device, asked, opens, toDevice, toHost, request, arg_high, pending, executing, seen, executed, answers>>
  BY <1>1 DEF StopUnanswered, PortOK
<1>3. /\ port'.phase = "idle" /\ port'.waiting = 0 /\ port'.then = 0 /\ port'.sequence = port.sequence
      /\ port'.buffer = port.buffer
  BY <1>1, <1>2 DEF CtlTypeOK
<1>4. CtlTypeOK'
  BY <1>1, <1>2 DEF CtlTypeOK, Ids, Phases
<1>5. Ahead' = Ahead /\ ToHost' = ToHost
  BY <1>2, <1>3 DEF Ahead, Unsent, ToHost
<1>6. PortOK'
  BY <1>3 DEF PortOK
<1>7. IsPrefixOf(Ahead', Ahead) /\ Within(Ahead', Ahead) /\ Within(ToHost', ToHost) /\ Chain(ToHost')
  BY <1>1, <1>5, Lines, LineKept DEF LinesOK
<1>8. LinesOK' /\ InOrder' /\ KeptRight' /\ ArgumentsWhole'
  BY <1>2, <1>7, HostKeeps
<1>9. TidyOK'
  BY <1>1, <1>2, <1>3, <1>5 DEF TidyOK
<1>10. AwaitedThere'
  BY <1>3 DEF AwaitedThere
<1>11. ProcessKnown' /\ OwnReply'
  BY <1>2, <1>3, <1>7, LaterWaits, ProcessKeeps
<1>12. QED
  BY <1>4, <1>6, <1>8, <1>9, <1>10, <1>11 DEF ControlInv

LEMMA CatParts ==
    ASSUME NEW p \in Seq(Bytes), NEW q \in Seq(Bytes)
    PROVE  IsPrefixOf(p, p \o q) /\ Len(p) \in 0 .. Len(p \o q) /\ IsDrop(p \o q, Len(p), q)
<1>1. PICK s \in Seq(Bytes) :
          /\ s = p \o q /\ Len(s) = Len(p) + Len(q) /\ \A i \in 1 .. Len(p) : s[i] = p[i]
          /\ \A i \in 1 .. Len(q) : s[Len(p) + i] = q[i]
  BY Joined, Zenon
<1>2. Len(p) \in Nat /\ Len(q) \in Nat
  OBVIOUS
<1>3. Len(p) \in 0 .. Len(s) /\ Len(q) = Len(s) - Len(p) /\ Len(p) <= Len(s)
  BY <1>1, <1>2
<1>4. QED
  BY <1>1, <1>3 DEF IsPrefixOf, IsDrop

LEMMA CatPrefix ==
    ASSUME NEW p \in Seq(Bytes), NEW q \in Seq(Bytes), NEW t \in Seq(Bytes), IsPrefixOf(t, q)
    PROVE  IsPrefixOf(p \o t, p \o q)
<1>1. PICK s \in Seq(Bytes) :
          /\ s = p \o q /\ Len(s) = Len(p) + Len(q) /\ \A i \in 1 .. Len(p) : s[i] = p[i]
          /\ \A i \in 1 .. Len(q) : s[Len(p) + i] = q[i]
  BY Joined, Zenon
<1>2. PICK u \in Seq(Bytes) :
          /\ u = p \o t /\ Len(u) = Len(p) + Len(t) /\ \A i \in 1 .. Len(p) : u[i] = p[i]
          /\ \A i \in 1 .. Len(t) : u[Len(p) + i] = t[i]
  <2>1. /\ p \o t \in Seq(Bytes) /\ Len(p \o t) = Len(p) + Len(t) /\ \A i \in 1 .. Len(p) : (p \o t)[i] = p[i]
        /\ \A i \in 1 .. Len(t) : (p \o t)[Len(p) + i] = t[i]
    BY CatIs, Zenon
  <2>2. QED
    BY <2>1, Zenon
<1>3. Len(p) \in Nat /\ Len(q) \in Nat /\ Len(t) \in Nat /\ Len(t) <= Len(q)
  BY DEF IsPrefixOf
<1>4. ASSUME NEW i \in 1 .. Len(u) PROVE u[i] = s[i]
  <2>1. CASE i <= Len(p)
    BY <1>1, <1>2, <1>3, <2>1
  <2>2. CASE i > Len(p)
    <3>1. i - Len(p) \in 1 .. Len(t) /\ i - Len(p) \in 1 .. Len(q) /\ Len(p) + (i - Len(p)) = i
      BY <1>2, <1>3, <2>2
    <3>2. QED
      BY <1>1, <1>2, <3>1 DEF IsPrefixOf
  <2>3. QED
    BY <1>3, <2>1, <2>2
<1>5. Len(u) <= Len(s)
  BY <1>1, <1>2, <1>3
<1>6. QED
  BY <1>1, <1>2, <1>4, <1>5 DEF IsPrefixOf

\* A process that has asked nothing yet, or none at all.
LEMMA FreshProcess ==
    ASSUME ControlInv, UNCHANGED <<asked, answers>>, port' = [Closed EXCEPT !.phase = port'.phase],
           port'.phase \in {"closed", "idle"}
    PROVE  ProcessKnown' /\ OwnReply' /\ AwaitedThere' /\ PortOK'
<1>1. /\ port'.sequence = 0 /\ port'.waiting = 0 /\ port'.then = 0 /\ Len(asked) \in Nat
      /\ (port'.phase = "closed" => port' = Closed)
  BY Fields DEF Closed, ControlInv
<1>2. OfProcess'
  BY <1>1 DEF OfProcess
<1>3. ProcessKnown'
  BY <1>1, <1>2 DEF ProcessKnown
<1>4. OwnReply'
  BY DEF OwnReply, First, ControlInv
<1>5. QED
  BY <1>1, <1>3, <1>4 DEF AwaitedThere, PortOK

LEMMA CloseKeeps == ASSUME ControlInv, Close PROVE ControlInv'
<1>1. CtlTypeOK /\ PortOK /\ LinesOK /\ TidyOK
  BY DEF ControlInv
<1>2. /\ port' = Closed
      /\ UNCHANGED <<device, asked, opens, toDevice, toHost, request, arg_high, pending, executing, seen, executed, answers>>
  BY DEF Close
<1>3. port'.phase = "closed" /\ port'.buffer = <<>> /\ port' = [Closed EXCEPT !.phase = port'.phase]
  BY <1>2 DEF Closed
<1>4. CtlTypeOK'
  <2>1. <<>> \in Seq(Bytes)
    OBVIOUS
  <2>2. QED
    BY <1>1, <1>2, <2>1 DEF CtlTypeOK, Ids, Phases, Closed
<1>5. Ahead' = request \o toDevice /\ ToHost' = toHost /\ toHost \in Seq(Bytes) /\ request \o toDevice \in Seq(Bytes)
  BY <1>1, <1>2, <1>3, Fields, CatIs, ConcatEmptySeq DEF Ahead, Unsent, ToHost
<1>6. IsPrefixOf(Ahead', Ahead) /\ Ahead \in Seq(Bytes)
  BY <1>1, <1>5, Lines, CatParts DEF Ahead
<1>7. Within(ToHost', ToHost) /\ Chain(ToHost')
  <2>1. PICK m \in 0 .. Len(ToHost) : IsDrop(ToHost, m, ToHost')
    BY <1>1, <1>5, Fields, CatParts DEF ToHost
  <2>2. QED
    BY <1>1, <2>1, Lines, DropWithin, DropChain DEF LinesOK
<1>8. LinesOK' /\ InOrder' /\ KeptRight' /\ ArgumentsWhole'
  BY <1>2, <1>6, <1>7, HostKeeps
<1>9. TidyOK'
  BY <1>1, <1>2, <1>3, <1>6, TidyPrefix DEF TidyOK
<1>10. ProcessKnown' /\ OwnReply' /\ AwaitedThere' /\ PortOK'
  BY <1>2, <1>3, FreshProcess
<1>11. QED
  BY <1>4, <1>8, <1>9, <1>10 DEF ControlInv

LEMMA OpenKeeps == ASSUME ControlInv, Open PROVE ControlInv'
<1>1. CtlTypeOK /\ PortOK /\ LinesOK /\ TidyOK
  BY DEF ControlInv
<1>2. /\ port.phase = "closed" /\ port = Closed /\ port' = [Closed EXCEPT !.phase = "idle"] /\ opens' = opens + 1
      /\ (device = "fpga" => toDevice = <<>> /\ request = <<>>)
      /\ UNCHANGED <<device, asked, request, arg_high, pending, executing, seen, executed, answers>>
  BY <1>1 DEF Open, PortOK
<1>3. PICK n \in 0 .. Len(toDevice) : toDevice' = SubSeq(toDevice, 1, n)
  BY DEF Open
<1>4. PICK h \in 0 .. Len(toHost) : toHost' = SubSeq(toHost, h + 1, Len(toHost))
  BY DEF Open
<1>5. toDevice \in Seq(Bytes) /\ toHost \in Seq(Bytes) /\ request \in Seq(Bytes)
  BY <1>1, Fields
<1>6. /\ toDevice' \in Seq(Bytes) /\ toHost' \in Seq(Bytes)
      /\ IsPrefixOf(toDevice', toDevice) /\ IsDrop(toHost, h, toHost')
  BY <1>3, <1>4, <1>5, SplitAt
<1>7. /\ port'.phase = "idle" /\ port'.buffer = <<>> /\ port.buffer = <<>>
      /\ port' = [Closed EXCEPT !.phase = port'.phase]
  BY <1>2 DEF Closed
<1>8. CtlTypeOK'
  <2>1. <<>> \in Seq(Bytes)
    OBVIOUS
  <2>2. port' \in [phase : Phases, sequence : Nat, written : Nat, frame : Seq(Bytes), waiting : {0} \cup Ids',
                    then : {0} \cup Ids', buffer : Seq(Bytes)]
    BY <1>2, <2>1 DEF Ids, Phases, Closed
  <2>3. opens' \in Nat /\ toDevice' \in Seq(Bytes) /\ toHost' \in Seq(Bytes)
    BY <1>1, <1>2, <1>6 DEF CtlTypeOK
  <2>4. UNCHANGED <<device, asked, request, arg_high, pending, executing, seen, executed, answers>>
    BY <1>2
  <2>5. QED
    BY ONLY <1>1, <2>2, <2>3, <2>4 DEF CtlTypeOK, Ids
<1>9. /\ Ahead' = request \o toDevice' /\ ToHost' = toHost' /\ ToHost = toHost /\ Ahead = request \o toDevice
      /\ request \o toDevice' \in Seq(Bytes)
  BY <1>2, <1>5, <1>6, <1>7, CatIs, ConcatEmptySeq DEF Ahead, Unsent, ToHost
<1>10. IsPrefixOf(Ahead', Ahead) /\ Ahead \in Seq(Bytes)
  BY <1>1, <1>5, <1>6, <1>9, Lines, CatPrefix
<1>11. Within(ToHost', ToHost) /\ Chain(ToHost')
  BY <1>1, <1>5, <1>6, <1>9, DropWithin, DropChain DEF LinesOK
<1>12. LinesOK' /\ InOrder' /\ KeptRight' /\ ArgumentsWhole'
  BY <1>2, <1>10, <1>11, HostKeeps
<1>13. TidyOK'
  <2>1. ASSUME device = "fpga" PROVE Ahead' = <<>>
    <3>1. Ahead = <<>>
      BY <1>2, <1>9, <2>1
    <3>2. Len(Ahead') = 0
      BY <1>9, <1>10, <3>1 DEF IsPrefixOf
    <3>3. QED
      BY <1>9, <3>2
  <2>2. QED
    BY <1>1, <1>2, <1>10, <2>1, TidyPrefix DEF TidyOK
<1>14. ProcessKnown' /\ OwnReply' /\ AwaitedThere' /\ PortOK'
  BY <1>2, <1>7, FreshProcess
<1>15. QED
  BY <1>8, <1>12, <1>13, <1>14 DEF ControlInv

\* Bytes of a frame, cut twice.
LEMMA CutTwice ==
    ASSUME NEW s \in Seq(Bytes), NEW a \in 0 .. Len(s), NEW b \in a .. Len(s), NEW c \in b .. Len(s)
    PROVE  SubSeq(s, a + 1, c) = SubSeq(s, a + 1, b) \o SubSeq(s, b + 1, c)
<1>0. /\ a \in Nat /\ b \in Nat /\ c \in Nat /\ a <= b /\ b <= c /\ c <= Len(s) /\ Len(s) \in Nat
      /\ b \in 0 .. Len(s) /\ c \in a .. Len(s)
  OBVIOUS
<1>1. PICK t \in Seq(Bytes) : t = SubSeq(s, a + 1, c) /\ Len(t) = c - a /\ \A i \in 1 .. c - a : t[i] = s[a + i]
  BY <1>0, PartIs
<1>2. PICK p \in Seq(Bytes) : p = SubSeq(s, a + 1, b) /\ Len(p) = b - a /\ \A i \in 1 .. b - a : p[i] = s[a + i]
  BY <1>0, PartIs
<1>3. PICK q \in Seq(Bytes) : q = SubSeq(s, b + 1, c) /\ Len(q) = c - b /\ \A i \in 1 .. c - b : q[i] = s[b + i]
  BY <1>0, PartIs
<1>4. PICK u \in Seq(Bytes) :
          /\ u = p \o q /\ Len(u) = Len(p) + Len(q) /\ \A i \in 1 .. Len(p) : u[i] = p[i]
          /\ \A i \in 1 .. Len(q) : u[Len(p) + i] = q[i]
  BY Joined, Zenon
<1>5. Len(p) = b - a /\ Len(q) = c - b /\ Len(t) = c - a
  BY <1>1, <1>2, <1>3
<1>6. Len(u) = Len(t)
  BY ONLY <1>0, <1>4, <1>5
<1>7. ASSUME NEW i \in 1 .. Len(u) PROVE u[i] = t[i]
  <2>0. i \in 1 .. c - a
    BY <1>5, <1>6
  <2>1. t[i] = s[a + i]
    BY <1>1, <2>0
  <2>2. CASE i <= b - a
    <3>1. i \in 1 .. b - a
      BY <1>0, <2>0, <2>2
    <3>2. u[i] = p[i]
      BY <1>4, <1>5, <3>1
    <3>3. p[i] = s[a + i]
      BY <1>2, <3>1
    <3>4. QED
      BY <2>1, <3>2, <3>3
  <2>3. CASE i > b - a
    <3>1. PICK j \in Nat : j = i - (b - a) /\ j \in 1 .. c - b /\ (b - a) + j = i /\ b + j = a + i
      BY <1>0, <2>0, <2>3
    <3>2. u[i] = q[j]
      BY <1>4, <1>5, <3>1
    <3>3. q[j] = s[b + j]
      BY <1>3, <3>1
    <3>4. QED
      BY <2>1, <3>1, <3>2, <3>3
  <2>4. QED
    BY <1>0, <2>0, <2>2, <2>3
<1>8. u = t
  BY <1>6, <1>7, SeqEqual
<1>9. QED
  BY <1>1, <1>2, <1>3, <1>4, <1>8

\* Joining lines either way.
LEMMA CatAssociates ==
    ASSUME NEW r \in Seq(Bytes), NEW x \in Seq(Bytes), NEW y \in Seq(Bytes)
    PROVE  (r \o x) \o y = r \o (x \o y)
BY ConcatAssociative

LEMMA WriteKeeps == ASSUME ControlInv, Write PROVE ControlInv'
<1>1. CtlTypeOK /\ PortOK /\ LinesOK /\ TidyOK /\ AwaitedThere /\ ProcessKnown
  BY DEF ControlInv
<1>2. /\ port.phase = "writing"
      /\ UNCHANGED <<device, asked, opens, toHost, request, arg_high, pending, executing, seen, executed, answers>>
  BY DEF Write
<1>3. PICK n \in port.written + 1 .. FrameBytes :
        /\ toDevice' = toDevice \o SubSeq(port.frame, port.written + 1, n)
        /\ IF n < FrameBytes THEN port' = [port EXCEPT !.written = n]
           ELSE LET id   == Len(asked)
                    done == [port EXCEPT !.phase = "waiting", !.written = 0, !.frame = <<>>]
                IN  \/ port' = [done EXCEPT !.waiting = id]
                    \/ asked[id].op = "stop" /\ port' = [done EXCEPT !.then = id]
  BY DEF Write
<1> DEFINE w == port.written
           f == port.frame
<1>4. /\ w \in Nat /\ w < FrameBytes /\ f \in Seq(Bytes) /\ Len(f) = FrameBytes /\ port.sequence \in Nat /\ port.sequence > 0
      /\ port.then = 0 /\ EndsWith(Ahead, Len(asked), FrameBytes) /\ FrameBytes \in Nat /\ Len(asked) \in Nat
      /\ IF asked[Len(asked)].op = "stop" THEN port.waiting # 0 /\ asked[port.waiting].op = "run"
         ELSE port.waiting = 0
  BY <1>1, <1>2, Fields, FrameLength DEF PortOK
<1>5. n \in Nat /\ w < n /\ n <= FrameBytes
  BY <1>4
<1>7. Len(asked) \in Ids
  <2>1. Ahead \in Seq(Bytes) /\ Len(Ahead) \in Nat /\ FrameBytes > 0
    BY <1>1, <1>4, Lines, FrameLength
  <2>2. PICK k \in Nat : k = Len(Ahead) - FrameBytes /\ k + 1 \in 1 .. Len(Ahead) /\ Ahead[k + 1].of = Len(asked)
    BY <1>4, <2>1 DEF EndsWith, At
  <2>3. Len(asked) > 0
    BY <2>1, <2>2, Elements
  <2>4. QED
    BY <1>4, <2>3 DEF Ids
<1>6. /\ port'.sequence = port.sequence /\ port'.buffer = port.buffer
      /\ port' \in [phase : Phases, sequence : Nat, written : Nat, frame : Seq(Bytes), waiting : {0} \cup Ids,
                    then : {0} \cup Ids, buffer : Seq(Bytes)]
      /\ n < FrameBytes => /\ port'.phase = "writing" /\ port'.written = n /\ port'.frame = f
                           /\ port'.waiting = port.waiting /\ port'.then = 0
      /\ ~(n < FrameBytes) => /\ port'.phase = "waiting"
                              /\ \/ port'.waiting = Len(asked) /\ port'.then = 0
                                 \/ /\ asked[Len(asked)].op = "stop" /\ port'.waiting = port.waiting
                                    /\ port'.then = Len(asked)
  <2>1. port \in [phase : Phases, sequence : Nat, written : Nat, frame : Seq(Bytes), waiting : {0} \cup Ids,
                  then : {0} \cup Ids, buffer : Seq(Bytes)]
    BY <1>1 DEF CtlTypeOK
  <2>2. <<>> \in Seq(Bytes) /\ "waiting" \in Phases
    BY DEF Phases
  <2>3. CASE n < FrameBytes
    BY <1>2, <1>3, <1>4, <1>5, <2>1, <2>3
  <2>4. CASE ~(n < FrameBytes)
    <3> DEFINE done == [port EXCEPT !.phase = "waiting", !.written = 0, !.frame = <<>>]
    <3>1. CASE port' = [done EXCEPT !.waiting = Len(asked)]
      BY <1>4, <1>7, <2>1, <2>2, <2>4, <3>1
    <3>2. CASE asked[Len(asked)].op = "stop" /\ port' = [done EXCEPT !.then = Len(asked)]
      BY <1>4, <1>7, <2>1, <2>2, <2>4, <3>2
    <3>3. QED
      BY <1>3, <2>4, <3>1, <3>2
  <2>5. QED
    BY <2>3, <2>4
<1>8. /\ SubSeq(f, w + 1, n) \in Seq(Bytes)
      /\ Unsent = SubSeq(f, w + 1, FrameBytes) /\ Unsent \in Seq(Bytes)
      /\ Unsent' \in Seq(Bytes) /\ Unsent = SubSeq(f, w + 1, n) \o Unsent'
  <2>1. w \in 0 .. Len(f) /\ n \in w .. Len(f) /\ FrameBytes \in n .. Len(f) /\ FrameBytes \in w .. Len(f) /\ n \in 0 .. Len(f)
    BY <1>4, <1>5
  <2>2. SubSeq(f, w + 1, n) \in Seq(Bytes) /\ SubSeq(f, w + 1, FrameBytes) \in Seq(Bytes)
        /\ SubSeq(f, n + 1, FrameBytes) \in Seq(Bytes)
    BY <1>4, <2>1, PartIs
  <2>3. Unsent = SubSeq(f, w + 1, FrameBytes)
    BY <1>2 DEF Unsent
  <2>4. CASE n < FrameBytes
    <3>1. Unsent' = SubSeq(f, n + 1, FrameBytes)
      BY <1>6, <2>4 DEF Unsent
    <3>2. SubSeq(f, w + 1, FrameBytes) = SubSeq(f, w + 1, n) \o SubSeq(f, n + 1, FrameBytes)
      BY <1>4, <2>1, CutTwice
    <3>3. QED
      BY <2>2, <2>3, <3>1, <3>2
  <2>5. CASE ~(n < FrameBytes)
    <3>1. Unsent' = <<>> /\ n = FrameBytes
      BY <1>4, <1>5, <1>6, <2>5 DEF Unsent
    <3>2. QED
      BY <2>2, <2>3, <3>1, ConcatEmptySeq, EmptySeq
  <2>6. QED
    BY <2>4, <2>5
<1> HIDE DEF w, f
<1>9. toDevice \in Seq(Bytes) /\ request \in Seq(Bytes) /\ toDevice' = toDevice \o SubSeq(f, w + 1, n) /\ toDevice' \in Seq(Bytes)
  <2>1. toDevice \in Seq(Bytes) /\ request \in Seq(Bytes) /\ toDevice' = toDevice \o SubSeq(f, w + 1, n)
    BY <1>1, <1>3, Fields DEF f, w
  <2>2. QED
    BY <1>8, <2>1, CatIs, Zenon
<1>10. Ahead' = Ahead
  <2>1. Ahead' = (request \o (toDevice \o SubSeq(f, w + 1, n))) \o Unsent'
    BY <1>2, <1>9 DEF Ahead
  <2>2. Ahead = (request \o toDevice) \o (SubSeq(f, w + 1, n) \o Unsent')
    BY <1>8 DEF Ahead
  <2>3. (request \o (toDevice \o SubSeq(f, w + 1, n))) \o Unsent' = (request \o toDevice) \o (SubSeq(f, w + 1, n) \o Unsent')
    <3>1. PICK r \in Seq(Bytes), d \in Seq(Bytes), x \in Seq(Bytes), y \in Seq(Bytes) :
              r = request /\ d = toDevice /\ x = SubSeq(f, w + 1, n) /\ y = Unsent'
      BY <1>8, <1>9, Zenon
    <3>2. PICK z \in Seq(Bytes) : z = r \o d
      BY CatIs, Zenon
    <3>3. (r \o d) \o x = r \o (d \o x)
      BY CatAssociates, Zenon
    <3>4. (z \o x) \o y = z \o (x \o y)
      BY CatAssociates, Zenon
    <3>5. QED
      BY <3>1, <3>2, <3>3, <3>4, Zenon
  <2>4. QED
    BY <2>1, <2>2, <2>3, Zenon
<1>11. ToHost' = ToHost
  BY <1>2, <1>6 DEF ToHost
<1>12. IsPrefixOf(Ahead', Ahead) /\ Within(Ahead', Ahead) /\ Within(ToHost', ToHost) /\ Chain(ToHost')
  BY <1>1, <1>10, <1>11, Lines, LineKept DEF LinesOK
<1>13. CtlTypeOK'
  <2>1. port' \in [phase : Phases, sequence : Nat, written : Nat, frame : Seq(Bytes), waiting : {0} \cup Ids,
                   then : {0} \cup Ids, buffer : Seq(Bytes)]
    BY <1>6
  <2>2. QED
    BY <1>1, <1>2, <1>9, <2>1 DEF CtlTypeOK, Ids
<1>14. PortOK'
  <2>1. CASE n < FrameBytes
    BY <1>2, <1>4, <1>5, <1>6, <1>10, <2>1 DEF PortOK, f, w
  <2>2. CASE ~(n < FrameBytes)
    <3>1. Len(asked) # 0
      BY <1>7 DEF Ids
    <3>2. QED
      BY <1>2, <1>4, <1>6, <2>2, <3>1 DEF PortOK
  <2>3. QED
    BY <2>1, <2>2
<1>15. LinesOK' /\ InOrder' /\ KeptRight' /\ ArgumentsWhole'
  BY <1>2, <1>12, HostKeeps
<1>16. TidyOK'
  BY <1>1, <1>2, <1>6, <1>10 DEF TidyOK
<1>17. AwaitedThere'
  <2>1. \A id : Where(id)' <=> Where(id)
    BY <1>2, <1>10, <1>11 DEF Where
  <2>2. Where(Len(asked))
    BY <1>1, <1>4, Lines, EndIsWhole DEF Where
  <2>3. port'.waiting \in {0, port.waiting, Len(asked)} /\ port'.then \in {0, Len(asked)}
    BY <1>6
  <2>4. device = "fpga" => asked[Len(asked)].op # "stop"
    BY <1>1, <1>7 DEF CtlTypeOK
  <2>5. device = "fpga" /\ port'.phase = "waiting" => port'.waiting = Len(asked)
    BY <1>6, <2>4
  <2>6. port.waiting # 0 => Where(port.waiting)
    BY <1>1 DEF AwaitedThere
  <2>7. QED
    BY <1>2, <2>1, <2>2, <2>3, <2>5, <2>6 DEF AwaitedThere
<1>18. ProcessKnown' /\ OwnReply'
  <2>1. Len(asked) > Base
    BY <1>4 DEF Base
  <2>2. (port.waiting # 0 => port.waiting > Base) /\ (port.then # 0 => port.then > Base)
    BY <1>1 DEF ProcessKnown, OfProcess
  <2>3. /\ port'.waiting # 0 => port'.waiting > Base
        /\ port'.then # 0 => port'.then > Base
        /\ port'.phase # "idle"
    BY <1>6, <2>1, <2>2
  <2>4. QED
    BY <1>2, <1>6, <1>12, <2>3, ProcessKeeps
<1>19. QED
  BY <1>13, <1>14, <1>15, <1>16, <1>17, <1>18 DEF ControlInv

\* Reading moves bytes to the buffer, and drops what no frame begins with.
LEMMA ReadKeeps == ASSUME ControlInv, Read PROVE ControlInv'
<1>1. CtlTypeOK /\ PortOK /\ LinesOK /\ TidyOK /\ AwaitedThere /\ ProcessKnown
  BY DEF ControlInv
<1>2. /\ port.phase = "waiting"
      /\ UNCHANGED <<device, asked, opens, toDevice, request, arg_high, pending, executing, seen, executed, answers>>
  BY DEF Read
<1>3. PICK n \in 1 .. Len(toHost) :
        /\ port' = [port EXCEPT !.buffer = FromMagic(@ \o SubSeq(toHost, 1, n))]
        /\ toHost' = SubSeq(toHost, n + 1, Len(toHost))
  BY DEF Read
<1>4. port.buffer \in Seq(Bytes) /\ toHost \in Seq(Bytes) /\ n \in 0 .. Len(toHost)
  BY <1>1, Fields
<1>5. PICK x \in Seq(Bytes), y \in Seq(Bytes) : x = port.buffer \o SubSeq(toHost, 1, n) /\ y = toHost' /\ ToHost = x \o y
  <2>1. /\ SubSeq(toHost, 1, n) \in Seq(Bytes) /\ toHost' \in Seq(Bytes)
        /\ SubSeq(toHost, 1, n) \o toHost' = toHost
    BY <1>3, <1>4, SplitAt
  <2>2. port.buffer \o SubSeq(toHost, 1, n) \in Seq(Bytes)
    BY <1>4, <2>1, CatIs, Zenon
  <2>3. ToHost = (port.buffer \o SubSeq(toHost, 1, n)) \o toHost'
    <3>1. (port.buffer \o SubSeq(toHost, 1, n)) \o toHost' = port.buffer \o (SubSeq(toHost, 1, n) \o toHost')
      BY <1>4, <2>1, CatAssociates, Zenon
    <3>2. QED
      BY <2>1, <3>1 DEF ToHost
  <2>4. QED
    BY <2>1, <2>2, <2>3, Zenon
<1>6. PICK m \in 0 .. Len(x) : IsDrop(x, m, FromMagic(x)) /\ \A j \in 1 .. m : ~x[j].magic
  BY FromMagicIs
<1>7. FromMagic(x) \in Seq(Bytes)
  BY <1>6 DEF IsDrop
<1>8. port' = [port EXCEPT !.buffer = FromMagic(x)]
  BY <1>3, <1>5
<1>9. /\ port'.phase = "waiting" /\ port'.waiting = port.waiting /\ port'.then = port.then
      /\ port'.sequence = port.sequence /\ port'.buffer = FromMagic(x)
  BY <1>1, <1>2, <1>8 DEF CtlTypeOK
<1>10. Ahead' = Ahead /\ ToHost' = FromMagic(x) \o y
  BY <1>2, <1>5, <1>9 DEF Ahead, Unsent, ToHost
<1>11. m \in 0 .. Len(ToHost) /\ IsDrop(ToHost, m, ToHost')
  BY <1>5, <1>6, <1>7, <1>10, DropCat
<1>12. \A j \in 1 .. m : ~ToHost[j].magic
  <2>1. \A j \in 1 .. Len(x) : ToHost[j] = x[j]
    BY <1>5, CatIs
  <2>2. QED
    BY <1>6, <2>1
<1>13. ToHost \in Seq(Bytes) /\ Chain(ToHost) /\ Ahead \in Seq(Bytes)
  BY <1>1, Lines DEF LinesOK
<1>14. IsPrefixOf(Ahead', Ahead) /\ Within(Ahead', Ahead) /\ Within(ToHost', ToHost) /\ Chain(ToHost')
  BY <1>10, <1>11, <1>13, LineKept, DropWithin, DropChain
<1>15. CtlTypeOK'
  <2>1. port' \in [phase : Phases, sequence : Nat, written : Nat, frame : Seq(Bytes), waiting : {0} \cup Ids,
                   then : {0} \cup Ids, buffer : Seq(Bytes)]
    BY <1>1, <1>7, <1>8 DEF CtlTypeOK
  <2>2. toHost' \in Seq(Bytes)
    BY <1>5
  <2>3. QED
    BY <1>1, <1>2, <2>1, <2>2 DEF CtlTypeOK, Ids
<1>16. PortOK'
  BY <1>1, <1>2, <1>9 DEF PortOK
<1>17. LinesOK' /\ InOrder' /\ KeptRight' /\ ArgumentsWhole'
  BY <1>2, <1>14, HostKeeps
<1>18. TidyOK'
  BY <1>1, <1>2, <1>9, <1>10 DEF TidyOK
<1>19. AwaitedThere'
  <2>1. ASSUME NEW id, WholeIn(ToHost, id) PROVE WholeIn(ToHost', id)
    <3>1. \A k \in 0 .. Len(ToHost) - FrameBytes : At(ToHost, k, id, FrameBytes) => k >= m
      <4>1. \A j \in 1 .. m : ~ToHost[j].magic
        BY <1>12
      <4>2. 1 \in 1 .. 2 /\ (1 = 2 => Len(ToHost) >= FrameBytes /\ ~Intact(ToHost))
        OBVIOUS
      <4>3. QED
        BY <1>11, <1>13, <4>1, <4>2, NoneSkipped
    <3>2. QED
      BY <1>11, <1>13, <2>1, <3>1, WholeKept
  <2>2. \A id : Where(id) => Where(id)'
    BY <1>2, <1>10, <2>1 DEF Where
  <2>3. QED
    BY <1>1, <1>2, <1>9, <2>2 DEF AwaitedThere
<1>20. ProcessKnown' /\ OwnReply'
  <2>1. (port.waiting # 0 => port.waiting > Base) /\ (port.then # 0 => port.then > Base)
    BY <1>1 DEF ProcessKnown, OfProcess
  <2>2. QED
    BY <1>2, <1>9, <1>14, <2>1, ProcessKeeps
<1>21. QED
  BY <1>15, <1>16, <1>17, <1>18, <1>19, <1>20 DEF ControlInv

\* Where a buffer that holds a whole frame goes on.
LEMMA TailIs == ASSUME NEW s \in Seq(Bytes), Len(s) >= 1 PROVE Tail(s) \in Seq(Bytes) /\ IsDrop(s, 1, Tail(s))
<1>1. Len(s) \in Nat /\ s # <<>>
  OBVIOUS
<1>2. Tail(s) \in Seq(Bytes) /\ Len(Tail(s)) = Len(s) - 1
  BY <1>1
<1>3. ASSUME NEW i \in 1 .. Len(Tail(s)) PROVE Tail(s)[i] = s[1 + i]
  BY <1>1, <1>2
<1>4. QED
  BY <1>2, <1>3 DEF IsDrop

LEMMA IntactCat ==
    ASSUME NEW b \in Seq(Bytes), NEW h \in Seq(Bytes), Len(b) >= FrameBytes
    PROVE  /\ Len(b \o h) >= FrameBytes /\ (b \o h)[1] = b[1]
           /\ Intact(b) <=> Intact(b \o h)
<1>1. PICK s \in Seq(Bytes) : s = b \o h /\ Len(s) = Len(b) + Len(h) /\ \A i \in 1 .. Len(b) : s[i] = b[i]
  BY CatIs
<1>2. FrameBytes \in Nat /\ FrameBytes > 0 /\ Len(b) \in Nat /\ Len(h) \in Nat
  BY FrameLength
<1>3. Len(s) >= FrameBytes /\ \A i \in 1 .. FrameBytes : s[i] = b[i]
  BY <1>1, <1>2
<1>4. s[1] = b[1]
  BY <1>2, <1>3
<1>5. QED
  BY <1>1, <1>3, <1>4 DEF Intact

LEMMA SkipBroken ==
    ASSUME NEW b \in Seq(Bytes), NEW h \in Seq(Bytes), Chain(b \o h), Len(b) >= FrameBytes, ~Intact(b)
    PROVE  \E m \in 1 .. Len(b) :
               /\ IsDrop(b, m, FromMagic(Tail(b))) /\ m \in 0 .. Len(b \o h)
               /\ IsDrop(b \o h, m, FromMagic(Tail(b)) \o h) /\ \A j \in 2 .. m : ~b[j].magic
               /\ \A id : /\ WholeIn(b \o h, id) => WholeIn(FromMagic(Tail(b)) \o h, id)
                          /\ EndsWith(b \o h, id, FrameBytes) => EndsWith(FromMagic(Tail(b)) \o h, id, FrameBytes)
<1>1. Len(b) \in Nat /\ Len(b) >= 1 /\ FrameBytes \in Nat
  BY FrameLength
<1>2. Tail(b) \in Seq(Bytes) /\ IsDrop(b, 1, Tail(b)) /\ 1 \in 0 .. Len(b)
  BY <1>1, TailIs
<1>3. PICK n \in 0 .. Len(Tail(b)) : IsDrop(Tail(b), n, FromMagic(Tail(b))) /\ \A j \in 1 .. n : ~Tail(b)[j].magic
  BY <1>2, FromMagicIs
<1>4. 1 + n \in 0 .. Len(b) /\ IsDrop(b, 1 + n, FromMagic(Tail(b)))
  BY <1>2, <1>3, DropDrop
<1>5. PICK m \in 1 .. Len(b) : m = 1 + n
  BY <1>1, <1>4
<1>6. FromMagic(Tail(b)) \in Seq(Bytes)
  BY <1>4 DEF IsDrop
<1>7. m \in 0 .. Len(b \o h) /\ IsDrop(b \o h, m, FromMagic(Tail(b)) \o h)
  <2>1. m \in 0 .. Len(b) /\ IsDrop(b, m, FromMagic(Tail(b)))
    BY <1>4, <1>5
  <2>2. QED
    BY <1>6, <2>1, DropCat
<1>8. ASSUME NEW j \in 2 .. m PROVE ~b[j].magic
  <2>1. PICK i \in 1 .. n : j = 1 + i /\ i \in 1 .. Len(Tail(b))
    <3>1. j - 1 \in 1 .. n /\ j = 1 + (j - 1) /\ Len(Tail(b)) \in Nat /\ n <= Len(Tail(b))
      BY <1>2, <1>5
    <3>2. j - 1 \in 1 .. Len(Tail(b))
      BY <3>1
    <3>3. QED
      BY <3>1, <3>2
  <2>2. Tail(b)[i] = b[1 + i]
    BY <1>2, <2>1 DEF IsDrop
  <2>3. QED
    BY <1>3, <2>1, <2>2
<1>9. PICK s \in Seq(Bytes) : s = b \o h
  BY CatIs, Zenon
<1>10. /\ Chain(s) /\ Len(s) >= FrameBytes /\ ~Intact(s) /\ m \in 0 .. Len(s)
       /\ IsDrop(s, m, FromMagic(Tail(b)) \o h)
  BY <1>7, <1>9, IntactCat
<1>11. \A j \in 2 .. m : ~s[j].magic
  <2>1. \A j \in 1 .. Len(b) : s[j] = b[j]
    BY <1>9, CatIs
  <2>2. QED
    BY <1>8, <2>1
<1>12. ASSUME NEW id
       PROVE  /\ WholeIn(s, id) => WholeIn(FromMagic(Tail(b)) \o h, id)
              /\ EndsWith(s, id, FrameBytes) => EndsWith(FromMagic(Tail(b)) \o h, id, FrameBytes)
  <2>1. 2 \in 1 .. 2
    OBVIOUS
  <2>2. \A k \in 0 .. Len(s) - FrameBytes : At(s, k, id, FrameBytes) => k >= m
    BY <1>10, <1>11, <2>1, NoneSkipped
  <2>3. QED
    BY <1>10, <2>2, WholeKept
<1>13. QED
  BY <1>4, <1>5, <1>7, <1>8, <1>9, <1>12

LEMMA SkipFrame ==
    ASSUME NEW b \in Seq(Bytes), NEW h \in Seq(Bytes), Chain(b \o h), Len(b) >= FrameBytes, Intact(b)
    PROVE  /\ At(b \o h, 0, b[1].of, FrameBytes) /\ FromMagic(SubSeq(b, FrameBytes + 1, Len(b))) \in Seq(Bytes)
           /\ \E m \in 0 .. Len(b \o h) :
                /\ m >= FrameBytes /\ IsDrop(b \o h, m, FromMagic(SubSeq(b, FrameBytes + 1, Len(b))) \o h)
                /\ \A id : WholeIn(b \o h, id)
                           => id = b[1].of \/ WholeIn(FromMagic(SubSeq(b, FrameBytes + 1, Len(b))) \o h, id)
<1>1. Len(b) \in Nat /\ FrameBytes \in Nat /\ FrameBytes \in 0 .. Len(b)
  BY FrameLength
<1>2. PICK u \in Seq(Bytes) : u = SubSeq(b, FrameBytes + 1, Len(b)) /\ IsDrop(b, FrameBytes, u)
  BY <1>1, SplitAt
<1>3. PICK n \in 0 .. Len(u) : IsDrop(u, n, FromMagic(u)) /\ \A j \in 1 .. n : ~u[j].magic
  BY FromMagicIs
<1>4. PICK t \in Seq(Bytes) : t = FromMagic(u)
  BY <1>3 DEF IsDrop
<1>5. PICK s \in Seq(Bytes), v \in Seq(Bytes), w \in Seq(Bytes) : s = b \o h /\ v = u \o h /\ w = t \o h
  <2>1. b \o h \in Seq(Bytes) /\ u \o h \in Seq(Bytes) /\ t \o h \in Seq(Bytes)
    BY CatIs, Zenon
  <2>2. QED
    BY <2>1, Zenon
<1>6. FrameBytes \in 0 .. Len(s) /\ IsDrop(s, FrameBytes, v)
  BY <1>1, <1>2, <1>5, DropCat
<1>7. n \in 0 .. Len(v) /\ IsDrop(v, n, w)
  BY <1>3, <1>4, <1>5, DropCat
<1>8. Chain(s) /\ Chain(v) /\ Len(s) >= FrameBytes
  BY <1>1, <1>5, <1>6, IntactCat, DropChain
<1>9. At(s, 0, b[1].of, FrameBytes)
  BY <1>5, <1>8, IntactCat, IntactIs
<1>10. FrameBytes + n \in 0 .. Len(s) /\ IsDrop(s, FrameBytes + n, w) /\ FrameBytes + n >= FrameBytes
  <2>1. FrameBytes + n \in 0 .. Len(s) /\ IsDrop(s, FrameBytes + n, w)
    BY <1>6, <1>7, DropDrop
  <2>2. QED
    BY <1>1, <2>1
<1>11. ASSUME NEW id, WholeIn(s, id), id # b[1].of PROVE WholeIn(w, id)
  <2>1. WholeIn(v, id)
    BY <1>6, <1>8, <1>9, <1>11, FrameLost
  <2>2. \A j \in 1 .. n : ~v[j].magic
    <3>1. \A j \in 1 .. Len(u) : v[j] = u[j]
      BY <1>5, CatIs
    <3>2. \A j \in 1 .. n : j \in 1 .. Len(u)
      OBVIOUS
    <3>3. QED
      BY <1>3, <3>1, <3>2
  <2>3. 1 \in 1 .. 2 /\ (1 = 2 => Len(v) >= FrameBytes /\ ~Intact(v))
    OBVIOUS
  <2>4. \A k \in 0 .. Len(v) - FrameBytes : At(v, k, id, FrameBytes) => k >= n
    BY <1>7, <1>8, <2>2, <2>3, NoneSkipped
  <2>5. QED
    BY <1>7, <2>1, <2>4, WholeKept
<1>12. QED
  BY <1>2, <1>4, <1>5, <1>9, <1>10, <1>11

\* The frame at the front is of the earliest request there is.
LEMMA FrontIsFirst ==
    ASSUME ControlInv, NEW r, At(ToHost, 0, r, FrameBytes), Len(ToHost) >= FrameBytes
    PROVE  /\ r \in Ids /\ Above(Ahead, r) /\ (pending # 0 => r < pending) /\ (executing # 0 => r < executing)
           /\ \A i \in FrameBytes + 1 .. Len(ToHost) : r < ToHost[i].of
           /\ \A id : Where(id) => id = r \/ id > r \/ id = 0
           /\ ToHost[1].of = r
<1>1. /\ CtlTypeOK /\ PortOK /\ LinesOK /\ InOrder /\ FrameBytes \in Nat /\ FrameBytes > 0 /\ ToHost \in Seq(Bytes)
      /\ Ahead \in Seq(Bytes) /\ Chain(ToHost) /\ Len(ToHost) \in Nat /\ Len(asked) \in Nat
  BY Lines, Fields, FrameLength DEF ControlInv, LinesOK
<1>2. 1 \in 1 .. FrameBytes /\ 1 \in 1 .. Len(ToHost) /\ 0 + 1 = 1
  BY <1>1
<1>3. ToHost[1].of = r
  BY <1>2 DEF At
<1>4. r \in Ids
  <2>1. r <= Len(asked) /\ r \in Nat /\ r > 0
    BY <1>1, <1>2, <1>3, Elements DEF LinesOK, UpTo
  <2>2. QED
    BY <1>1, <2>1 DEF Ids
<1>5. /\ Above(Ahead, r) /\ (pending # 0 => r < pending) /\ (executing # 0 => r < executing)
  BY <1>1, <1>2, <1>3 DEF InOrder, Below
<1>6. \A i \in FrameBytes + 1 .. Len(ToHost) : r < ToHost[i].of
  <2>1. 0 \in 0 .. Len(ToHost) - FrameBytes
    BY <1>1
  <2>2. \A i \in 0 + FrameBytes + 1 .. Len(ToHost) : ToHost[i].of > r
    BY <1>1, <2>1, Behind
  <2>3. QED
    BY <1>1, <2>2
<1>7. ASSUME NEW id, WholeIn(Ahead, id) PROVE id > r
  <2>1. PICK k \in 0 .. Len(Ahead) - FrameBytes : At(Ahead, k, id, FrameBytes)
    BY <1>7 DEF WholeIn
  <2>2. k + 1 \in 1 .. Len(Ahead) /\ Ahead[k + 1].of = id
    BY <1>1, <1>2, <2>1 DEF At
  <2>3. QED
    BY <1>5, <2>2 DEF Above
<1>8. ASSUME NEW id, WholeIn(ToHost, id), id # r PROVE id > r
  <2>1. PICK k \in 0 .. Len(ToHost) - FrameBytes : At(ToHost, k, id, FrameBytes)
    BY <1>8 DEF WholeIn
  <2>2. k >= FrameBytes /\ k \in Nat
    BY <1>1, <1>8, <2>1, FrameStarts
  <2>3. k + 1 \in FrameBytes + 1 .. Len(ToHost) /\ ToHost[k + 1].of = id
    BY <1>1, <1>2, <2>1, <2>2 DEF At
  <2>4. QED
    BY <1>6, <2>3
<1>9. \A id : Where(id) => id = r \/ id > r \/ id = 0
  BY <1>5, <1>7, <1>8 DEF Where
<1>10. QED
  BY <1>3, <1>4, <1>5, <1>6, <1>9

LEMMA ParseKeeps == ASSUME ControlInv, Parse PROVE ControlInv'
<1>1. CtlTypeOK /\ PortOK /\ LinesOK /\ TidyOK /\ AwaitedThere /\ ProcessKnown /\ OwnReply
  BY DEF ControlInv
<1> DEFINE b == port.buffer
           r == port.buffer[1].of
           rest == FromMagic(SubSeq(port.buffer, FrameBytes + 1, Len(port.buffer)))
           matched == Intact(port.buffer) /\ Matches(asked[r], asked[port.waiting])
<1>2. /\ port.phase = "waiting" /\ Len(b) >= FrameBytes
      /\ UNCHANGED <<device, asked, opens, toDevice, toHost, request, arg_high, pending, executing, seen, executed>>
      /\ ~Intact(b) => port' = [port EXCEPT !.buffer = FromMagic(Tail(b))] /\ answers' = answers
      /\ Intact(b) /\ ~matched => port' = [port EXCEPT !.buffer = rest] /\ answers' = answers
      /\ matched => /\ answers' = answers \cup {[to |-> port.waiting, reply |-> r]}
                    /\ port' = [port EXCEPT !.buffer = rest, !.waiting = port.then, !.then = 0,
                                            !.phase = IF port.then = 0 THEN "idle" ELSE "waiting"]
  BY DEF Parse, DropByte
<1>3. /\ b \in Seq(Bytes) /\ toHost \in Seq(Bytes) /\ Chain(b \o toHost) /\ ToHost = b \o toHost
      /\ port.waiting \in Ids /\ port.then \in {0} \cup Ids /\ port.sequence \in Nat /\ port.sequence > 0
      /\ Len(asked) \in Nat /\ 0 \notin Ids
  BY <1>1, <1>2, Fields DEF PortOK, LinesOK, ToHost, Ids
<1>4. PICK t \in Seq(Bytes) :
        /\ t = IF Intact(b) THEN rest ELSE FromMagic(Tail(b))
        /\ \E m \in 0 .. Len(ToHost) :
             /\ IsDrop(ToHost, m, t \o toHost) /\ (Intact(b) => m >= FrameBytes)
             /\ \A id : WholeIn(ToHost, id) => (Intact(b) /\ id = r) \/ WholeIn(t \o toHost, id)
  <2>1. CASE Intact(b)
    <3>1. rest \in Seq(Bytes) /\ \E m \in 0 .. Len(b \o toHost) :
             /\ m >= FrameBytes /\ IsDrop(b \o toHost, m, rest \o toHost)
             /\ \A id : WholeIn(b \o toHost, id) => id = b[1].of \/ WholeIn(rest \o toHost, id)
      BY <1>2, <1>3, <2>1, SkipFrame
    <3>2. QED
      BY <1>3, <2>1, <3>1
  <2>2. CASE ~Intact(b)
    <3>1. PICK m \in 1 .. Len(b) :
               /\ IsDrop(b, m, FromMagic(Tail(b))) /\ m \in 0 .. Len(b \o toHost)
               /\ IsDrop(b \o toHost, m, FromMagic(Tail(b)) \o toHost)
               /\ \A id : WholeIn(b \o toHost, id) => WholeIn(FromMagic(Tail(b)) \o toHost, id)
      BY <1>2, <1>3, <2>2, SkipBroken
    <3>2. FromMagic(Tail(b)) \in Seq(Bytes)
      BY <3>1 DEF IsDrop
    <3>3. QED
      BY <1>3, <2>2, <3>1, <3>2
  <2>3. QED
    BY <2>1, <2>2
<1>5. /\ port'.sequence = port.sequence /\ port'.buffer = t
      /\ port' \in [phase : Phases, sequence : Nat, written : Nat, frame : Seq(Bytes), waiting : {0} \cup Ids,
                    then : {0} \cup Ids, buffer : Seq(Bytes)]
      /\ ~matched => port'.phase = "waiting" /\ port'.waiting = port.waiting /\ port'.then = port.then
      /\ matched => /\ port'.phase = (IF port.then = 0 THEN "idle" ELSE "waiting")
                    /\ port'.waiting = port.then /\ port'.then = 0
  <2>1. port \in [phase : Phases, sequence : Nat, written : Nat, frame : Seq(Bytes), waiting : {0} \cup Ids,
                  then : {0} \cup Ids, buffer : Seq(Bytes)]
    BY <1>1 DEF CtlTypeOK
  <2>2. "idle" \in Phases /\ "waiting" \in Phases
    BY DEF Phases
  <2>3. CASE ~matched
    <3>1. port' = [port EXCEPT !.buffer = t]
      BY <1>2, <1>4, <2>3
    <3>2. QED
      BY ONLY <1>2, <2>1, <2>3, <3>1
  <2>4. CASE matched
    <3>1. port' = [port EXCEPT !.buffer = t, !.waiting = port.then, !.then = 0,
                               !.phase = IF port.then = 0 THEN "idle" ELSE "waiting"]
      BY <1>2, <1>4, <2>4
    <3>2. QED
      BY ONLY <1>3, <2>1, <2>2, <2>4, <3>1, t \in Seq(Bytes)
  <2>5. QED
    BY <2>3, <2>4
<1> HIDE DEF rest
<1>6. /\ Intact(b) => At(ToHost, 0, r, FrameBytes)
      /\ Len(ToHost) >= FrameBytes
  BY <1>2, <1>3, SkipFrame, IntactCat
<1>7. ToHost' = t \o toHost /\ Ahead' = Ahead
  BY <1>2, <1>5 DEF ToHost, Ahead, Unsent
<1>8. PICK m \in 0 .. Len(ToHost) :
        /\ IsDrop(ToHost, m, ToHost') /\ (Intact(b) => m >= FrameBytes)
        /\ \A id : WholeIn(ToHost, id) => (Intact(b) /\ id = r) \/ WholeIn(ToHost', id)
  BY <1>4, <1>7
<1>9. ToHost \in Seq(Bytes) /\ Chain(ToHost) /\ Ahead \in Seq(Bytes) /\ Chain(Ahead)
  BY <1>1, Lines DEF LinesOK
<1>10. IsPrefixOf(Ahead', Ahead) /\ Within(Ahead', Ahead) /\ Within(ToHost', ToHost) /\ Chain(ToHost')
  BY <1>7, <1>8, <1>9, LineKept, DropWithin, DropChain
<1>11. ASSUME Intact(b)
       PROVE  /\ r \in Ids /\ Above(Ahead, r) /\ (pending # 0 => r < pending) /\ (executing # 0 => r < executing)
              /\ Above(ToHost', r) /\ \A id : Where(id) => id = r \/ id > r \/ id = 0
              /\ ToHost[1].of = r /\ 1 \in 1 .. Len(ToHost)
  <2>1. At(ToHost, 0, r, FrameBytes) /\ Len(ToHost) >= FrameBytes /\ FrameBytes \in Nat /\ FrameBytes > 0
    BY <1>6, <1>11, FrameLength
  <2>2. /\ r \in Ids /\ Above(Ahead, r) /\ (pending # 0 => r < pending) /\ (executing # 0 => r < executing)
        /\ \A i \in FrameBytes + 1 .. Len(ToHost) : r < ToHost[i].of
        /\ \A id : Where(id) => id = r \/ id > r \/ id = 0
        /\ ToHost[1].of = r
    BY <2>1, FrontIsFirst
  <2>3. ASSUME NEW i \in 1 .. Len(ToHost') PROVE r < ToHost'[i].of
    <3>1. Len(ToHost') \in Nat /\ Len(ToHost) \in Nat /\ Len(ToHost') = Len(ToHost) - m /\ m >= FrameBytes
      BY <1>8, <1>9, <1>11 DEF IsDrop
    <3>2. m + i \in FrameBytes + 1 .. Len(ToHost)
      BY <2>1, <3>1
    <3>3. ToHost'[i] = ToHost[m + i]
      BY <1>8 DEF IsDrop
    <3>4. QED
      BY <2>2, <3>2, <3>3
  <2>4. 1 \in 1 .. Len(ToHost)
    BY <1>9, <2>1
  <2>5. QED
    BY <2>2, <2>3, <2>4 DEF Above
<1>12. CtlTypeOK'
  <2>1. answers' \in SUBSET [to : Ids, reply : Ids]
    <3>1. answers \in SUBSET [to : Ids, reply : Ids]
      BY <1>1 DEF CtlTypeOK
    <3>2. CASE matched
      BY <1>2, <1>3, <1>11, <3>1, <3>2
    <3>3. CASE ~matched
      BY <1>2, <3>1, <3>3
    <3>4. QED
      BY <3>2, <3>3
  <2>2. QED
    BY <1>1, <1>2, <1>5, <2>1 DEF CtlTypeOK, Ids
<1>13. PortOK'
  BY <1>1, <1>2, <1>3, <1>5 DEF PortOK
<1>14. LinesOK' /\ InOrder' /\ KeptRight' /\ ArgumentsWhole'
  BY <1>2, <1>10, HostKeeps
<1>15. TidyOK'
  BY <1>1, <1>2, <1>5, <1>7 DEF TidyOK
<1>16. AwaitedThere'
  <2>1. \A id : Where(id) => (Intact(b) /\ id = r) \/ Where(id)'
    BY <1>2, <1>7, <1>8 DEF Where
  <2>2. Where(port.waiting) /\ (port.then # 0 => Where(port.then) /\ asked[port.waiting].op = "run"
                                                   /\ asked[port.then].op = "stop" /\ port.then = Len(asked))
    BY <1>1, <1>3 DEF AwaitedThere, PortOK
  <2>3. CASE matched
    <3>1. port.then # 0 => asked[r].op = "run"
      BY <2>2, <2>3 DEF Matches
    <3>2. port.then # 0 => r # port.then
      BY <2>2, <3>1
    <3>3. device = "fpga" => port.then = 0
      BY <1>1, <1>3, <2>2 DEF CtlTypeOK
    <3>4. QED
      BY <1>2, <1>5, <2>1, <2>2, <2>3, <3>2, <3>3 DEF AwaitedThere
  <2>4. CASE ~matched
    <3>1. Intact(b) => r # port.waiting
      BY <2>4 DEF Matches
    <3>2. ASSUME Intact(b), port.then # 0 PROVE r # port.then
      <4>1. port.waiting > r
        BY <1>3, <1>11, <2>2, <3>1, <3>2
      <4>2. QED
        BY <1>3, <2>2, <3>2, <4>1 DEF Ids
    <3>3. QED
      BY <1>1, <1>2, <1>5, <2>1, <2>2, <2>4, <3>1, <3>2 DEF AwaitedThere
  <2>5. QED
    BY <2>3, <2>4
<1>17. ASSUME ~matched PROVE ProcessKnown' /\ OwnReply'
  <2>1. (port.waiting # 0 => port.waiting > Base) /\ (port.then # 0 => port.then > Base)
    BY <1>1 DEF ProcessKnown, OfProcess
  <2>2. answers' = answers
    BY <1>2, <1>17
  <2>3. QED
    BY <1>2, <1>5, <1>10, <1>17, <2>1, <2>2, ProcessKeeps
<1>18. ASSUME matched PROVE ProcessKnown' /\ OwnReply'
  <2> DEFINE new == [to |-> port.waiting, reply |-> r]
  <2>1. /\ answers' = answers \cup {new} /\ asked' = asked /\ Base' = Base /\ pending' = pending /\ executing' = executing
        /\ Intact(b) /\ Matches(asked[r], asked[port.waiting])
    BY <1>2, <1>5, <1>18 DEF Base
  <2>2. /\ OfProcess /\ port.waiting > Base /\ (port.then # 0 => port.then > Base)
        /\ (port.sequence >= 2 => \E x \in answers : x.to = Base + 1)
        /\ \A i \in 1 .. port.sequence : asked[Base + i].seq = i
    BY <1>1, <1>3 DEF ProcessKnown, OfProcess
  <2>3. OfProcess'
    BY <1>5, <1>18, <2>1, <2>2 DEF OfProcess
  <2>4. Base \in Int /\ port.waiting - Base \in 1 .. port.sequence /\ Base + (port.waiting - Base) = port.waiting
        /\ asked[port.waiting].seq = port.waiting - Base
    <3>1. Base \in Int /\ port.waiting - Base \in 1 .. port.sequence /\ Base + (port.waiting - Base) = port.waiting
      BY <1>3, <2>2 DEF Base, Ids
    <3>2. QED
      BY <2>2, <3>1
  <2>5. port.waiting = Base + 1 \/ port.sequence >= 2
    BY <1>3, <2>2, <2>4
  <2>6. \E x \in answers' : x.to = Base + 1
    <3>1. CASE port.waiting = Base + 1
      <4>1. new \in answers' /\ new.to = Base + 1
        BY <2>1, <3>1
      <4>2. QED
        BY <4>1
    <3>2. CASE port.sequence >= 2
      BY <2>1, <2>2, <3>2
    <3>3. QED
      BY <2>5, <3>1, <3>2
  <2>7. ASSUME OwnFirst'
        PROVE  /\ Above(Ahead', Base + 1) /\ Above(ToHost', Base + 1)
               /\ pending # 0 => pending > Base + 1
               /\ executing # 0 => executing > Base + 1
    <3>1. CASE OwnFirst
      <4>1. /\ Above(Ahead, Base + 1) /\ Above(ToHost, Base + 1)
            /\ pending # 0 => pending > Base + 1
            /\ executing # 0 => executing > Base + 1
        BY <1>1, <1>3, <3>1 DEF ProcessKnown
      <4>2. QED
        BY <1>10, <4>1, WithinBounds
    <3>2. CASE ~OwnFirst
      <4>1. new.to = Base + 1 /\ new.reply = new.to
        BY <2>1, <2>7, <3>2 DEF OwnFirst
      <4>2. r = Base + 1
        BY <4>1
      <4>3. /\ r \in Int /\ Above(Ahead, r) /\ Above(ToHost', r) /\ (pending # 0 => r < pending)
            /\ (executing # 0 => r < executing)
        BY <1>11, <2>1 DEF Ids
      <4>4. QED
        BY <1>7, <4>2, <4>3
    <3>3. QED
      BY <3>1, <3>2
  <2>8. ProcessKnown'
    <3>1. port'.phase # "writing"
      BY <1>5, <1>18
    <3>2. QED
      BY <2>1, <2>3, <2>6, <2>7, <3>1 DEF ProcessKnown
  <2>9. ASSUME r # port.waiting
        PROVE  \E x \in answers' : x.to = First(port.waiting) /\ x.reply # x.to
    <3>1. First(port.waiting) = Base + 1
      <4>1. port.waiting \in Int
        BY <1>3 DEF Ids
      <4>2. QED
        BY <2>4, <4>1 DEF First
    <3>2. CASE port.waiting = Base + 1
      <4>1. new \in answers' /\ new.to = Base + 1 /\ new.reply # new.to
        BY <2>1, <2>9, <3>2
      <4>2. QED
        BY <3>1, <4>1
    <3>3. CASE port.waiting # Base + 1
      <4>1. PICK x \in answers : x.to = Base + 1
        BY <2>2, <2>5, <3>3
      <4>2. ASSUME x.reply = x.to PROVE FALSE
        <5>1. Above(ToHost, Base + 1)
          BY <1>1, <1>3, <4>1, <4>2 DEF ProcessKnown, OwnFirst
        <5>2. Base + 1 < r /\ r \in Ids
          BY <1>11, <2>1, <5>1 DEF Above
        <5>0. PICK q \in Nat, v \in Int, n \in Nat : q = r /\ v = Base /\ n = port.waiting
                 /\ q <= Len(asked) /\ Len(asked) = v + port.sequence
          <6>1. port.sequence \in Nat /\ Len(asked) \in Nat /\ port.waiting \in Ids
            BY <1>3
          <6>2. r \in Nat /\ r <= Len(asked)
            BY ONLY <5>2, <6>1 DEF Ids
          <6>3. port.waiting \in Nat /\ Len(asked) = Base + port.sequence
            BY ONLY <6>1 DEF Ids, Base
          <6>4. Base \in Int
            BY <2>4
          <6>5. QED
            BY ONLY <6>2, <6>3, <6>4
        <5>3. r - Base \in 1 .. port.sequence /\ Base + (r - Base) = r
          <6>1. v + 1 < q
            BY <5>0, <5>2
          <6>2. q - v \in 1 .. port.sequence /\ v + (q - v) = q
            <7>1. PICK k \in Nat : k = port.sequence
              BY <1>3
            <7>2. q <= v + k
              BY <5>0, <7>1
            <7>3. q - v \in 1 .. k /\ v + (q - v) = q
              BY ONLY <6>1, <7>2, q \in Nat, v \in Int, k \in Nat
            <7>4. QED
              BY <7>1, <7>3
          <6>3. QED
            BY <5>0, <6>2
        <5>4. asked[r].seq = r - Base
          BY <2>2, <5>3
        <5>5. r - Base = port.waiting - Base
          BY <2>1, <2>4, <5>4 DEF Matches
        <5>6. QED
          <6>1. q - v = n - v
            BY <5>0, <5>5
          <6>2. q = n
            BY ONLY <6>1, q \in Nat, v \in Int, n \in Nat
          <6>3. QED
            BY <2>9, <5>0, <6>2
      <4>3. QED
        BY <2>1, <3>1, <4>1, <4>2
    <3>4. QED
      BY <3>2, <3>3
  <2>10. OwnReply'
    <3>1. \A id : First(id)' = First(id)
      BY <2>1 DEF First
    <3>2. ASSUME NEW a \in answers', a.reply # a.to
          PROVE  \E x \in answers' : x.to = First(a.to) /\ x.reply # x.to
      <4>1. CASE a \in answers
        BY <1>1, <2>1, <3>2, <4>1 DEF OwnReply
      <4>2. CASE a = new
        BY <2>9, <3>2, <4>2
      <4>3. QED
        BY <2>1, <4>1, <4>2
    <3>3. QED
      BY <3>1, <3>2 DEF OwnReply
  <2>11. QED
    BY <2>8, <2>10
<1>19. QED
  BY <1>12, <1>13, <1>14, <1>15, <1>16, <1>17, <1>18 DEF ControlInv

\* A request is begun: its frame comes behind all that is on the way.
LEMMA SendKeeps ==
    ASSUME ControlInv, NEW op \in {"info", "set", "high", "run", "stop"}, Send(op),
           port.phase \in {"idle", "waiting"}, port.then = 0,
           port.sequence = 0 => op = "info", device = "fpga" => op \in {"info", "set"},
           IF op = "stop" THEN port.waiting # 0 /\ asked[port.waiting].op = "run" ELSE port.waiting = 0,
           port.sequence > 0 => \E b \in answers : b.to = Base + 1
    PROVE  ControlInv'
<1>1. CtlTypeOK /\ PortOK /\ LinesOK /\ TidyOK /\ InOrder /\ AwaitedThere /\ KeptRight /\ ProcessKnown
      /\ ArgumentsWhole /\ OwnReply
  BY DEF ControlInv
<1> DEFINE n == Len(asked)
<1>2. /\ asked' = Append(asked, [op |-> op, seq |-> port.sequence + 1])
      /\ UNCHANGED <<device, opens, toDevice, toHost, request, arg_high, pending, executing, seen, executed, answers>>
  BY DEF Send
<1>3. PICK inner \in InnerMagic :
           port' = [port EXCEPT !.phase = "writing", !.sequence = @ + 1, !.written = 0, !.frame = Frame(n + 1, inner)]
  BY DEF Send
<1>4. /\ asked \in Seq(Asked) /\ n \in Nat /\ n + 1 \in Nat \ {0} /\ port.sequence \in Nat /\ port.buffer \in Seq(Bytes)
      /\ port.waiting \in {0} \cup Ids /\ request \in Seq(Bytes) /\ toDevice \in Seq(Bytes) /\ toHost \in Seq(Bytes)
  BY <1>1, Fields
<1>5. PICK f \in Seq(Bytes) : /\ f = Frame(n + 1, inner) /\ Len(f) = FrameBytes /\ Chain(f) /\ At(f, 0, n + 1, FrameBytes)
                              /\ Tidy(f)
  <2>1. /\ Chain(Frame(n + 1, inner)) /\ Len(Frame(n + 1, inner)) = FrameBytes
        /\ At(Frame(n + 1, inner), 0, n + 1, FrameBytes) /\ Tidy(Frame(n + 1, inner))
    BY <1>4, FrameIs
  <2>2. QED
    BY <2>1 DEF Chain
<1>6. /\ asked' \in Seq(Asked) /\ Len(asked') = n + 1 /\ \A i \in 1 .. n : asked'[i] = asked[i]
      /\ asked'[n + 1].op = op /\ asked'[n + 1].seq = port.sequence + 1
  <2>1. [op |-> op, seq |-> port.sequence + 1] \in Asked
    BY <1>4 DEF Asked
  <2>2. QED
    BY <1>2, <1>4, <2>1
<1> HIDE DEF n
<1>7. /\ port'.phase = "writing" /\ port'.sequence = port.sequence + 1 /\ port'.written = 0 /\ port'.frame = f
      /\ port'.waiting = port.waiting /\ port'.then = 0 /\ port'.buffer = port.buffer
      /\ port' \in [phase : Phases, sequence : Nat, written : Nat, frame : Seq(Bytes), waiting : {0} \cup Ids,
                    then : {0} \cup Ids, buffer : Seq(Bytes)]
  <2>1. port \in [phase : Phases, sequence : Nat, written : Nat, frame : Seq(Bytes), waiting : {0} \cup Ids,
                  then : {0} \cup Ids, buffer : Seq(Bytes)]
    BY <1>1 DEF CtlTypeOK
  <2>2. "writing" \in Phases /\ port.then = 0
    BY DEF Phases
  <2>3. port' = [port EXCEPT !.phase = "writing", !.sequence = port.sequence + 1, !.written = 0, !.frame = f]
    BY <1>3, <1>5
  <2>4. port.sequence + 1 \in Nat /\ f \in Seq(Bytes) /\ 0 \in Nat
    BY <1>4
  <2>5. QED
    BY ONLY <2>1, <2>2, <2>3, <2>4
<1>8. Ids \subseteq Ids' /\ Ids = 1 .. n /\ n + 1 \in Ids' /\ (\A id \in Ids : id < n + 1 /\ id \in Nat)
  BY <1>4, <1>6 DEF Ids, n
<1>9. CtlTypeOK'
  <2>1. /\ device \in {"esp", "fpga"} /\ opens \in Nat /\ arg_high \in Nat /\ seen \in SUBSET Ids
        /\ pending \in {0} \cup Ids /\ executing \in {0} \cup Ids
        /\ executed \in SUBSET [id : Ids, high : Nat] /\ answers \in SUBSET [to : Ids, reply : Ids]
        /\ (device = "esp" => pending = 0) /\ (device = "fpga" => \A id \in Ids : asked[id].op \in {"info", "set"})
    BY <1>1 DEF CtlTypeOK
  <2>2. /\ seen' \in SUBSET Ids' /\ pending' \in {0} \cup Ids' /\ executing' \in {0} \cup Ids'
        /\ executed' \in SUBSET [id : Ids', high : Nat] /\ answers' \in SUBSET [to : Ids', reply : Ids']
    BY ONLY <1>2, <1>8, <2>1
  <2>3. port' \in [phase : Phases, sequence : Nat, written : Nat, frame : Seq(Bytes), waiting : {0} \cup Ids',
                   then : {0} \cup Ids', buffer : Seq(Bytes)]
    BY <1>7, <1>8
  <2>4. device' = "fpga" => \A id \in Ids' : asked'[id].op \in {"info", "set"}
    <3> SUFFICES ASSUME device = "fpga", NEW id \in Ids' PROVE asked'[id].op \in {"info", "set"}
      BY <1>2
    <3>1. id \in 1 .. n + 1
      BY <1>6 DEF Ids
    <3>2. id \in 1 .. n \/ id = n + 1
      BY <1>4, <3>1 DEF n
    <3>3. QED
      BY <1>6, <1>8, <2>1, <3>2
  <2>5. QED
    BY <1>2, <1>4, <1>6, <2>1, <2>2, <2>3, <2>4 DEF CtlTypeOK
<1>10. Ahead \in Seq(Bytes) /\ ToHost \in Seq(Bytes) /\ Chain(Ahead) /\ UpTo(Ahead, n) /\ FrameBytes \in Nat /\ FrameBytes > 0
  BY <1>1, Lines, FrameLength DEF LinesOK, n
<1>11. Ahead' = Ahead \o f /\ ToHost' = ToHost
  <2>1. request \o toDevice \in Seq(Bytes)
    BY <1>4, CatIs, Zenon
  <2>2. Unsent = <<>>
    BY DEF Unsent
  <2>3. Ahead = request \o toDevice
    BY <2>1, <2>2, ConcatEmptySeq DEF Ahead
  <2>4. Unsent' = f
    <3>1. Unsent' = SubSeq(f, 0 + 1, FrameBytes)
      BY <1>7 DEF Unsent
    <3>2. 0 \in 0 .. Len(f) /\ FrameBytes \in 0 .. Len(f) /\ FrameBytes - 0 = FrameBytes /\ \A i \in 1 .. FrameBytes : 0 + i = i
      BY <1>5, <1>10
    <3>3. /\ SubSeq(f, 0 + 1, FrameBytes) \in Seq(Bytes) /\ Len(SubSeq(f, 0 + 1, FrameBytes)) = FrameBytes
          /\ \A i \in 1 .. FrameBytes : SubSeq(f, 0 + 1, FrameBytes)[i] = f[i]
      <4>1. /\ SubSeq(f, 0 + 1, FrameBytes) \in Seq(Bytes) /\ Len(SubSeq(f, 0 + 1, FrameBytes)) = FrameBytes - 0
            /\ \A i \in 1 .. FrameBytes - 0 : SubSeq(f, 0 + 1, FrameBytes)[i] = f[0 + i]
        BY <3>2, PartIs
      <4>2. QED
        BY <3>2, <4>1
    <3>4. PICK g \in Seq(Bytes) : g = SubSeq(f, 0 + 1, FrameBytes) /\ Len(g) = FrameBytes /\ \A i \in 1 .. FrameBytes : g[i] = f[i]
      BY <3>3
    <3>5. g = f
      BY <1>5, <3>4, SeqEqual
    <3>6. QED
      BY <3>1, <3>4, <3>5
  <2>5. Ahead' = (request \o toDevice) \o f
    BY <1>2, <2>4 DEF Ahead
  <2>6. ToHost' = ToHost
    BY <1>2, <1>7 DEF ToHost
  <2>7. QED
    BY <2>3, <2>5, <2>6
<1>12. /\ Above(f, 0) /\ (\A id \in Ids : Above(f, id)) /\ UpTo(f, n + 1) /\ f[1].place = 1 /\ f[1].of = n + 1
       /\ f[Len(f)].place = FrameBytes /\ f # <<>>
  <2>1. \A i \in 1 .. FrameBytes : f[i].of = n + 1 /\ f[i].place = i
    <3>1. \A i \in 1 .. FrameBytes : 0 + i = i
      BY <1>10
    <3>2. QED
      BY <1>5, <3>1 DEF At
  <2>2. 1 \in 1 .. FrameBytes /\ FrameBytes \in 1 .. FrameBytes /\ f # <<>>
    BY <1>5, <1>10
  <2>3. n \in Nat
    BY <1>4
  <2>4. QED
    BY <1>5, <1>8, <2>1, <2>2, <2>3 DEF Above, UpTo
<1>13. /\ EndsWith(Ahead', n + 1, FrameBytes)
       /\ \A id : WholeIn(Ahead, id) => WholeIn(Ahead', id)
  BY <1>5, <1>10, <1>11, WholeCat
<1>14. PortOK'
  <2>1. port.waiting # 0 => asked'[port.waiting] = asked[port.waiting]
    BY <1>4, <1>6, <1>8
  <2>2. port'.sequence > 0 /\ port'.written < FrameBytes
    BY <1>4, <1>7, <1>10
  <2>3. QED
    BY <1>5, <1>6, <1>7, <1>13, <2>1, <2>2 DEF PortOK
<1>15. LinesOK'
  <2>1. Chain(Ahead')
    <3>1. ASSUME Ahead # <<>> PROVE Follows(Ahead[Len(Ahead)], f[1])
      <4>1. Len(Ahead) \in 1 .. Len(Ahead)
        BY <1>10, <3>1
      <4>2. Ahead[Len(Ahead)].of <= n /\ Ahead[Len(Ahead)].of \in Nat
        BY <1>10, <4>1, Elements DEF UpTo
      <4>3. n < n + 1 /\ n \in Nat
        BY <1>4
      <4>4. QED
        BY <1>12, <4>2, <4>3 DEF Follows
    <3>2. QED
      BY <1>5, <1>10, <1>11, <3>1, CatChain
  <2>2. \A s \in Seq(Bytes) : UpTo(s, n) => UpTo(s, n + 1)
    <3> TAKE s \in Seq(Bytes)
    <3>1. n \in Nat /\ \A i \in 1 .. Len(s) : s[i].of \in Nat
      BY <1>4, Elements
    <3>2. QED
      BY <3>1 DEF UpTo
  <2>3. UpTo(Ahead', n + 1) /\ UpTo(ToHost', n + 1)
    <3>1. UpTo(Ahead, n + 1) /\ UpTo(ToHost, n + 1)
      BY <1>1, <1>10, <2>2 DEF LinesOK, n
    <3>2. QED
      BY <1>10, <1>11, <1>12, <3>1, CatBounds
  <2>4. Ahead' # <<>> /\ (Ahead # <<>> => Ahead'[1] = Ahead[1]) /\ (Ahead = <<>> => Ahead'[1] = f[1])
    <3>1. PICK s \in Seq(Bytes) :
          /\ s = Ahead \o f /\ Len(s) = Len(Ahead) + Len(f) /\ \A i \in 1 .. Len(Ahead) : s[i] = Ahead[i]
          /\ \A i \in 1 .. Len(f) : s[Len(Ahead) + i] = f[i]
      BY <1>10, Joined, Zenon
    <3>2. Len(s) > 0
      BY <1>5, <1>10, <3>1
    <3>3. Ahead # <<>> => s[1] = Ahead[1]
      <4>1. Ahead # <<>> => 1 \in 1 .. Len(Ahead)
        BY <1>10
      <4>2. QED
        BY <3>1, <4>1
    <3>4. Ahead = <<>> => s[1] = f[1]
      <4>1. ASSUME Ahead = <<>> PROVE Len(Ahead) + 1 = 1 /\ 1 \in 1 .. Len(f)
        BY <1>5, <1>10, <4>1
      <4>2. QED
        BY <3>1, <4>1
    <3>5. QED
      BY <1>11, <3>1, <3>2, <3>3, <3>4
  <2>5. QED
    BY <1>1, <1>2, <1>6, <1>11, <1>12, <2>1, <2>3, <2>4 DEF LinesOK
<1>16. TidyOK'
  <2> SUFFICES ASSUME device = "fpga" PROVE Tidy(Ahead') /\ Ahead'[Len(Ahead')].place = FrameBytes
    BY <1>2 DEF TidyOK
  <2>1. Tidy(Ahead) /\ (Ahead # <<>> => Ahead[Len(Ahead)].place = FrameBytes)
    BY <1>1 DEF TidyOK
  <2>2. Tidy(Ahead')
    BY <1>5, <1>10, <1>11, <2>1, TidyCat
  <2>3. Ahead'[Len(Ahead')].place = FrameBytes
    <3>1. PICK s \in Seq(Bytes) :
          /\ s = Ahead \o f /\ Len(s) = Len(Ahead) + Len(f) /\ \A i \in 1 .. Len(Ahead) : s[i] = Ahead[i]
          /\ \A i \in 1 .. Len(f) : s[Len(Ahead) + i] = f[i]
      BY <1>10, Joined, Zenon
    <3>2. Len(f) \in 1 .. Len(f)
      BY <1>5, <1>10
    <3>3. QED
      BY <1>11, <1>12, <3>1, <3>2
  <2>4. QED
    BY <2>2, <2>3
<1>17. \A id \in {0} \cup Ids : Above(Ahead, id) => Above(Ahead', id)
  BY <1>5, <1>10, <1>11, <1>12, CatBounds
<1>18. InOrder'
  <2>1. \A i \in 1 .. Len(ToHost) : ToHost[i].of \in Ids
    <3> TAKE i \in 1 .. Len(ToHost)
    <3>1. ToHost[i].of <= n /\ ToHost[i].of \in Nat /\ ToHost[i].of > 0
      BY <1>1, <1>10, Elements DEF LinesOK, UpTo, n
    <3>2. QED
      BY <1>4, <1>8, <3>1
  <2>2. /\ seen \in SUBSET Ids /\ pending \in {0} \cup Ids /\ executing \in {0} \cup Ids
        /\ \A e \in executed : e.id \in Ids
    BY <1>1 DEF CtlTypeOK
  <2>3. QED
    BY <1>1, <1>2, <1>11, <1>17, <2>1, <2>2 DEF InOrder
<1>19. AwaitedThere'
  <2>1. \A id : Where(id) => Where(id)'
    BY <1>2, <1>11, <1>13 DEF Where
  <2>2. QED
    BY <1>1, <1>2, <1>7, <2>1 DEF AwaitedThere
<1>20. KeptRight' /\ ArgumentsWhole'
  <2>1. ASSUME NEW T \in SUBSET Ids PROVE HighIn(T, executed', asked') = HighIn(T, executed, asked)
    <3>1. T \in SUBSET (1 .. n) /\ n \in Nat /\ executed' = executed /\ \A x \in 1 .. n : asked'[x] = asked[x]
      BY <1>2, <1>4, <1>6, <1>8
    <3>2. T # {} => Max(T) \in T
      BY <3>1, Greatest
    <3>3. \A x \in T : asked'[x] = asked[x]
      BY <3>1
    <3>4. \A x \in T : (\E e \in executed : e.id = x) <=> (\E e \in executed' : e.id = x)
      BY <3>1
    <3>5. Agree(T, executed, executed', asked, asked')
      BY <3>2, <3>3, <3>4 DEF Agree
    <3>6. QED
      BY <3>5, SameKept
  <2>2. seen \in SUBSET Ids /\ \A id : Earlier(seen, id) \in SUBSET Ids
    BY <1>1 DEF CtlTypeOK, Earlier
  <2>3. KeptRight'
    BY <1>1, <1>2, <2>1, <2>2 DEF KeptRight
  <2>4. \A id : HighBefore(id)' = HighIn(Earlier(seen', id), executed', asked')
    BY DEF HighBefore, HighIn, Earlier
  <2>5. ArgumentsWhole'
    BY <1>1, <1>2, <2>1, <2>2, <2>4, HighIsOf DEF ArgumentsWhole
  <2>6. QED
    BY <2>3, <2>5
<1>21. Base' = Base /\ Base \in Int /\ Base + port.sequence = n /\ (port.sequence = 0 => Base = n)
  <2>1. PICK k \in Nat, l \in Nat : k = port.sequence /\ l = n
    BY <1>4
  <2>2. Base = l - k
    BY <2>1 DEF Base, n
  <2>3. Base' = (l + 1) - (k + 1)
    BY <1>6, <1>7, <2>1 DEF Base
  <2>4. (l + 1) - (k + 1) = l - k /\ l - k \in Int /\ (l - k) + k = l /\ (k = 0 => l - k = l)
    OBVIOUS
  <2>5. QED
    BY <2>1, <2>2, <2>3, <2>4
<1>22. \A b \in answers : b.to \in Ids /\ b.to # n + 1
  <2>1. \A b \in answers : b.to \in Ids
    BY <1>1 DEF CtlTypeOK
  <2>2. QED
    BY <1>4, <1>8, <2>1
<1>23. ProcessKnown'
  <2>1. /\ OfProcess /\ port.sequence <= n /\ \A i \in 1 .. port.sequence : asked[Base + i].seq = i
        /\ (port.sequence > 0 => asked[Base + 1].op = "info") /\ (port.waiting # 0 => port.waiting > Base)
    BY <1>1 DEF ProcessKnown, OfProcess, n
  <2>2. ASSUME NEW i \in 1 .. port.sequence + 1 PROVE asked'[Base + i].seq = i
    <3>1. CASE i \in 1 .. port.sequence
      <4>1. Base + i \in 1 .. n
        BY <1>4, <1>21, <2>1, <3>1
      <4>2. QED
        BY <1>6, <2>1, <3>1, <4>1
    <3>2. CASE i = port.sequence + 1
      <4>1. Base + i = n + 1
        <5>1. PICK k \in Nat, l \in Nat, b \in Int : k = port.sequence /\ l = n /\ b = Base /\ b + k = l
          BY <1>4, <1>21
        <5>2. b + (k + 1) = l + 1
          BY ONLY <5>1, k \in Nat, l \in Nat, b \in Int
        <5>3. QED
          BY <3>2, <5>1, <5>2
      <4>2. QED
        BY <1>6, <3>2, <4>1
    <3>3. QED
      BY <1>4, <3>1, <3>2
  <2>3. asked'[Base + 1].op = "info"
    <3>1. CASE port.sequence = 0
      BY <1>6, <1>21, <3>1
    <3>2. CASE port.sequence > 0
      <4>1. Base + 1 \in 1 .. n
        BY <1>4, <1>21, <2>1, <3>2
      <4>2. QED
        BY <1>6, <2>1, <3>2, <4>1
    <3>3. QED
      BY <1>4, <3>1, <3>2
  <2>4. OfProcess'
    <3>1. port'.sequence <= Len(asked')
      BY <1>4, <1>6, <1>7, <2>1
    <3>2. QED
      BY <1>6, <1>7, <1>21, <2>1, <2>2, <2>3, <3>1 DEF OfProcess
  <2>5. \A b \in answers' : b.to < Len(asked')
    BY <1>2, <1>6, <1>8, <1>22
  <2>6. port'.sequence >= 2 => \E b \in answers' : b.to = Base' + 1
    BY <1>2, <1>4, <1>7, <1>21
  <2>7. ASSUME OwnFirst'
        PROVE  /\ Above(Ahead', Base + 1) /\ Above(ToHost', Base + 1)
               /\ pending # 0 => pending > Base + 1
               /\ executing # 0 => executing > Base + 1
    <3>1. OwnFirst
      BY <1>2, <1>21, <2>7 DEF OwnFirst
    <3>2. Base + 1 \in Ids
      BY <1>2, <1>21, <1>22, <2>7 DEF OwnFirst
    <3>3. port.sequence > 0
      BY <1>4, <1>8, <1>21, <3>2
    <3>4. /\ Above(Ahead, Base + 1) /\ Above(ToHost, Base + 1)
          /\ pending # 0 => pending > Base + 1
          /\ executing # 0 => executing > Base + 1
      BY <1>1, <3>1, <3>3 DEF ProcessKnown
    <3>5. QED
      BY <1>11, <1>17, <3>2, <3>4
  <2>8. QED
    BY <1>2, <1>7, <1>21, <2>4, <2>5, <2>6, <2>7 DEF ProcessKnown
<1>24. OwnReply'
  <2>1. ASSUME NEW a \in answers PROVE First(a.to)' = First(a.to)
    <3>1. a.to \in 1 .. n
      BY <1>8, <1>22
    <3>2. QED
      BY <1>6, <3>1 DEF First
  <2>2. QED
    BY <1>1, <1>2, <2>1 DEF OwnReply
<1>25. QED
  BY <1>9, <1>14, <1>15, <1>16, <1>18, <1>19, <1>20, <1>23, <1>24 DEF ControlInv

LEMMA AskKeeps == ASSUME ControlInv, Ask PROVE ControlInv'
<1>1. CtlTypeOK /\ PortOK /\ LinesOK /\ TidyOK /\ InOrder /\ AwaitedThere /\ KeptRight /\ ProcessKnown
  BY DEF ControlInv
<1>2. PICK op \in Operations : Send(op) /\ port.phase = "idle"
  BY DEF Ask
<1>3. /\ op \in {"info", "set", "high", "run"} /\ (port.sequence = 0 => op = "info")
      /\ (device = "fpga" => op \in {"info", "set"})
  BY <1>1, <1>2 DEF Operations, CtlTypeOK
<1>4. port.then = 0 /\ port.waiting = 0 /\ (port.sequence > 0 => \E b \in answers : b.to = Base + 1)
  BY <1>1, <1>2 DEF PortOK, ProcessKnown
<1>5. op \in {"info", "set", "high", "run", "stop"} /\ op # "stop"
  BY <1>3
<1>6. QED
  BY <1>2, <1>3, <1>4, <1>5, SendKeeps

LEMMA StopRunKeeps == ASSUME ControlInv, StopRun PROVE ControlInv'
<1>1. CtlTypeOK /\ PortOK
  BY DEF ControlInv
<1>2. port.phase = "waiting" /\ asked[port.waiting].op = "run" /\ port.then = 0 /\ Send("stop")
  BY DEF StopRun
<1>3. port.waiting # 0 /\ port.sequence > 0 /\ port.waiting \in Ids
  BY <1>1, <1>2, Fields DEF PortOK
<1>4. device # "fpga"
  BY <1>1, <1>2, <1>3 DEF CtlTypeOK
<1>5. \E b \in answers : b.to = Base + 1
  BY <1>2, <1>3, LaterWaits
<1>6. "stop" \in {"info", "set", "high", "run", "stop"} /\ port.phase \in {"idle", "waiting"} /\ ~(port.sequence = 0)
  BY <1>2, <1>3
<1>7. QED
  BY <1>2, <1>3, <1>4, <1>5, <1>6, SendKeeps

-----------------------------------------------------------------------------
(* The device.                                                             *)
LEMMA DeviceKeeps ==
    ASSUME ControlInv, UNCHANGED <<device, asked, port, answers>>,
           NEW m \in 0 .. Len(Ahead), IsDrop(Ahead, m, Ahead'), Ahead' # <<>> /\ m > 0 /\ device = "fpga" => Ahead'[1].place = 1,
           port.phase = "writing" => EndsWith(Ahead', Len(asked), FrameBytes),
           port.phase # "closed" => \A id \in Ids \cap {port.waiting, port.then} : Where(id) => Where(id)',
           \A c : Above(Ahead, c) /\ Above(ToHost, c) /\ (pending # 0 => pending > c) /\ (executing # 0 => executing > c)
                  => Above(ToHost', c) /\ (pending' # 0 => pending' > c) /\ (executing' # 0 => executing' > c)
    PROVE  PortOK' /\ TidyOK' /\ AwaitedThere' /\ ProcessKnown' /\ OwnReply'
<1>1. /\ CtlTypeOK /\ PortOK /\ TidyOK /\ AwaitedThere /\ ProcessKnown /\ OwnReply /\ Ahead \in Seq(Bytes)
      /\ Len(Ahead) \in Nat
  BY Lines DEF ControlInv
<1>2. PortOK'
  BY <1>1 DEF PortOK
<1>3. TidyOK'
  <2> SUFFICES ASSUME device = "fpga"
               PROVE  /\ Tidy(Ahead')
                      /\ port.phase # "closed" /\ Ahead' # <<>> => Ahead'[Len(Ahead')].place = FrameBytes
    BY DEF TidyOK
  <2>1. Tidy(Ahead) /\ (port.phase # "closed" /\ Ahead # <<>> => Ahead[Len(Ahead)].place = FrameBytes)
    BY <1>1 DEF TidyOK
  <2>2. CASE m = 0
    <3>1. Ahead' \in Seq(Bytes) /\ Len(Ahead') = Len(Ahead) /\ \A i \in 1 .. Len(Ahead') : Ahead'[i] = Ahead[i]
      <4>1. Ahead' \in Seq(Bytes) /\ Len(Ahead') = Len(Ahead) - 0 /\ \A i \in 1 .. Len(Ahead') : Ahead'[i] = Ahead[0 + i]
        BY <2>2 DEF IsDrop
      <4>2. \A i \in 1 .. Len(Ahead') : 0 + i = i
        BY <1>1, <4>1
      <4>3. QED
        BY <1>1, <4>1, <4>2
    <3>2. Ahead' = Ahead
      BY <1>1, <3>1, SeqEqual
    <3>3. QED
      BY <2>1, <3>2
  <2>3. CASE m > 0
    <3>1. Ahead' # <<>> => Ahead'[1].place = 1
      BY <2>3
    <3>2. QED
      BY <1>1, <2>1, <3>1, TidyDrop
  <2>4. QED
    BY <2>2, <2>3
<1>4. AwaitedThere'
  <2>1. port.phase = "closed" => port.waiting = 0 /\ port.then = 0
    BY <1>1 DEF PortOK, Closed
  <2>2. port.waiting \in {0} \cup Ids /\ port.then \in {0} \cup Ids
    BY <1>1, Fields
  <2>3. QED
    BY <1>1, <2>1, <2>2 DEF AwaitedThere
<1>5. ProcessKnown'
  <2>1. Base' = Base /\ (OwnFirst' <=> OwnFirst) /\ (OfProcess' <=> OfProcess)
    BY DEF Base, OwnFirst, OfProcess
  <2>2. Above(Ahead, Base + 1) => Above(Ahead', Base + 1)
    BY <1>1, DropWithin, WithinBounds
  <2>3. /\ Above(Ahead, Base + 1) /\ Above(ToHost, Base + 1) /\ (pending # 0 => pending > Base + 1)
           /\ (executing # 0 => executing > Base + 1)
        => Above(ToHost', Base + 1) /\ (pending' # 0 => pending' > Base + 1) /\ (executing' # 0 => executing' > Base + 1)
    OBVIOUS
  <2>4. QED
    BY <1>1, <2>1, <2>2, <2>3 DEF ProcessKnown
<1>6. OwnReply'
  BY <1>1 DEF OwnReply, First
<1>7. QED
  BY <1>2, <1>3, <1>4, <1>5, <1>6

\* What a device has when it has taken the byte at the head of the line.
LEMMA TakesIs ==
    ASSUME ControlInv, toDevice # <<>>
    PROVE  /\ Received \in Seq(Bytes) /\ Tail(toDevice) \in Seq(Bytes) /\ Unsent \in Seq(Bytes)
           /\ Len(Received) = Len(request) + 1 /\ Received # <<>>
           /\ Ahead = (Received \o Tail(toDevice)) \o Unsent
           /\ Ahead = Received \o (Tail(toDevice) \o Unsent) /\ Tail(toDevice) \o Unsent \in Seq(Bytes)
           /\ Len(Received) <= Len(Ahead) /\ \A i \in 1 .. Len(Received) : Received[i] = Ahead[i]
           /\ \A i \in 1 .. Len(request) : Received[i] = request[i]
           /\ Received[Len(Received)] = Head(toDevice) /\ Head(toDevice).of \in Ids
           /\ \A i \in 1 .. Len(Received) : Received[i].of \in seen \cup {Head(toDevice).of}
           /\ \A j \in seen \cup {Head(toDevice).of} :
                  Above(Ahead, j) \/ \E i \in 1 .. Len(Received) : Received[i].of = j
           /\ \A e \in executed : \A i \in 1 .. Len(Received) : e.id < Received[i].of
<1>1. /\ CtlTypeOK /\ LinesOK /\ InOrder /\ PortOK /\ request \in Seq(Bytes) /\ toDevice \in Seq(Bytes) /\ Unsent \in Seq(Bytes)
      /\ Ahead \in Seq(Bytes) /\ Len(asked) \in Nat
  BY Fields, Lines DEF ControlInv
<1>2. PICK h \in Bytes, t \in Seq(Bytes) : h = Head(toDevice) /\ t = Tail(toDevice)
  <2>1. Head(toDevice) \in Bytes /\ Tail(toDevice) \in Seq(Bytes)
    BY <1>1
  <2>2. QED
    BY <2>1
<1>3. PICK b \in Seq(Bytes) : /\ b = Received /\ Len(b) = Len(request) + 1 /\ b[Len(b)] = h
                              /\ \A i \in 1 .. Len(request) : b[i] = request[i]
  <2>1. Append(request, h) \in Seq(Bytes) /\ Len(Append(request, h)) = Len(request) + 1
        /\ Append(request, h)[Len(request) + 1] = h /\ \A i \in 1 .. Len(request) : Append(request, h)[i] = request[i]
    BY <1>1
  <2>2. Received = Append(request, h)
    BY <1>2 DEF Received
  <2>3. QED
    BY <2>1, <2>2
<1>4. request \o toDevice = b \o t
  <2>1. PICK p \in Seq(Bytes) :
          /\ p = request \o toDevice /\ Len(p) = Len(request) + Len(toDevice)
          /\ \A i \in 1 .. Len(request) : p[i] = request[i]
          /\ \A i \in 1 .. Len(toDevice) : p[Len(request) + i] = toDevice[i]
    <3>1. PICK r \in Seq(Bytes), d \in Seq(Bytes) : r = request /\ d = toDevice
      BY <1>1
    <3>2. /\ r \o d \in Seq(Bytes) /\ Len(r \o d) = Len(r) + Len(d) /\ \A i \in 1 .. Len(r) : (r \o d)[i] = r[i]
          /\ \A i \in 1 .. Len(d) : (r \o d)[Len(r) + i] = d[i]
      BY CatIs, Zenon
    <3>3. QED
      BY <3>1, <3>2, Zenon
  <2>2. PICK q \in Seq(Bytes) :
          /\ q = b \o t /\ Len(q) = Len(b) + Len(t) /\ \A i \in 1 .. Len(b) : q[i] = b[i]
          /\ \A i \in 1 .. Len(t) : q[Len(b) + i] = t[i]
    BY Joined, Zenon
  <2>3. Len(t) = Len(toDevice) - 1 /\ Len(toDevice) \in Nat /\ Len(request) \in Nat /\ toDevice[1] = h /\ Len(toDevice) >= 1
        /\ \A i \in 1 .. Len(t) : t[i] = toDevice[1 + i]
    <3>1. Len(toDevice) \in Nat /\ Len(toDevice) >= 1 /\ Len(request) \in Nat /\ toDevice[1] = Head(toDevice)
      BY <1>1
    <3>2. IsDrop(toDevice, 1, t)
      BY <1>1, <1>2, <3>1, TailIs
    <3>3. QED
      BY <1>2, <3>1, <3>2 DEF IsDrop
  <2>4. Len(p) = Len(q)
    BY <1>3, <2>1, <2>2, <2>3
  <2>5. ASSUME NEW i \in 1 .. Len(p) PROVE p[i] = q[i]
    <3>1. CASE i <= Len(request)
      <4>1. i \in 1 .. Len(request) /\ i \in 1 .. Len(b)
        BY <1>3, <2>3, <3>1
      <4>2. QED
        BY <1>3, <2>1, <2>2, <4>1
    <3>2. CASE i = Len(request) + 1
      <4>1. 1 \in 1 .. Len(toDevice) /\ i \in 1 .. Len(b) /\ i = Len(b)
        BY <1>3, <2>3, <3>2
      <4>2. p[i] = toDevice[1] /\ q[i] = b[i]
        BY <2>1, <2>2, <3>2, <4>1
      <4>3. QED
        BY <1>3, <2>3, <4>1, <4>2
    <3>3. CASE i > Len(request) + 1
      <4>1. PICK j \in Nat : j = i - Len(request) - 1 /\ j \in 1 .. Len(t) /\ i = Len(b) + j /\ 1 + j \in 1 .. Len(toDevice)
                             /\ i = Len(request) + (1 + j)
        <5>1. PICK k \in Nat, l \in Nat : k = Len(request) /\ l = Len(t) /\ Len(toDevice) = l + 1 /\ Len(p) = k + (l + 1)
                                          /\ Len(b) = k + 1
          <6>1. Len(t) \in Nat /\ Len(toDevice) = Len(t) + 1
            BY <2>3
          <6>2. QED
            BY <1>3, <2>1, <2>3, <6>1
        <5>2. PICK j \in Nat : j = i - k - 1 /\ j \in 1 .. l /\ i = (k + 1) + j /\ 1 + j \in 1 .. l + 1 /\ i = k + (1 + j)
          <6>1. i \in Nat /\ i <= k + (l + 1) /\ i > k + 1
            BY <3>3, <5>1
          <6>2. QED
            BY ONLY <6>1, k \in Nat, l \in Nat
        <5>3. QED
          BY <5>1, <5>2
      <4>2. p[i] = toDevice[1 + j] /\ q[i] = t[j]
        BY <2>1, <2>2, <4>1
      <4>3. QED
        BY <2>3, <4>1, <4>2
    <3>4. i \in Nat /\ Len(request) \in Nat
      BY <2>3
    <3>5. i <= Len(request) \/ i = Len(request) + 1 \/ i > Len(request) + 1
      BY ONLY <3>4
    <3>6. QED
      BY ONLY <3>1, <3>2, <3>3, <3>5
  <2>6. p = q
    BY <2>4, <2>5, SeqEqual
  <2>7. QED
    BY <2>1, <2>2, <2>6
<1>5. PICK u \in Seq(Bytes), v \in Seq(Bytes) : u = Unsent /\ v = t \o u
  <2>1. PICK u \in Seq(Bytes) : u = Unsent
    BY <1>1
  <2>2. t \o u \in Seq(Bytes)
    BY CatIs, Zenon
  <2>3. QED
    BY <2>1, <2>2
<1>6. Ahead = (b \o t) \o u /\ Ahead = b \o v
  <2>1. Ahead = (b \o t) \o u
    BY <1>4, <1>5 DEF Ahead
  <2>2. (b \o t) \o u = b \o (t \o u)
    BY CatAssociates, Zenon
  <2>3. QED
    BY <1>5, <2>1, <2>2
<1>7. Len(b) \in Nat /\ Len(b) >= 1 /\ Len(b) <= Len(Ahead) /\ \A i \in 1 .. Len(b) : b[i] = Ahead[i]
  <2>1. Len(Ahead) = Len(b) + Len(v) /\ \A i \in 1 .. Len(b) : Ahead[i] = b[i]
    BY <1>6, CatIs
  <2>2. Len(b) \in Nat /\ Len(v) \in Nat /\ Len(request) \in Nat
    BY <1>1
  <2>3. QED
    BY <1>3, <2>1, <2>2
<1>8. h.of \in Ids /\ Len(b) \in 1 .. Len(b) /\ Len(b) \in 1 .. Len(Ahead)
  <2>1. Len(b) \in 1 .. Len(b) /\ Len(b) \in 1 .. Len(Ahead) /\ Len(Ahead) \in Nat
    BY <1>1, <1>7
  <2>2. Ahead[Len(b)] = h
    BY <1>3, <1>7, <2>1
  <2>3. h.of <= Len(asked) /\ h.of \in Nat /\ h.of > 0
    BY <1>1, <2>1, <2>2, ByteIs DEF LinesOK, UpTo
  <2>4. QED
    BY <1>1, <2>1, <2>3 DEF Ids
<1>9. \A i \in 1 .. Len(b) : i \in 1 .. Len(request) \/ i = Len(b)
  <2>1. Len(request) \in Nat
    BY <1>1
  <2>2. QED
    BY <1>3, <2>1
<1>10. \A i \in 1 .. Len(b) : b[i].of \in seen \cup {h.of}
  BY <1>1, <1>3, <1>9 DEF InOrder
<1>11. \A j \in seen \cup {h.of} : Above(Ahead, j) \/ \E i \in 1 .. Len(b) : b[i].of = j
  <2>1. \A i \in 1 .. Len(request) : i \in 1 .. Len(b)
    <3>1. Len(request) \in Nat
      BY <1>1
    <3>2. QED
      BY <1>3, <3>1
  <2>2. ASSUME NEW j \in seen PROVE Above(Ahead, j) \/ \E i \in 1 .. Len(b) : b[i].of = j
    <3>1. Above(Ahead, j) \/ \E i \in 1 .. Len(request) : request[i].of = j
      BY <1>1 DEF InOrder
    <3>2. QED
      BY <1>3, <2>1, <3>1
  <2>3. \E i \in 1 .. Len(b) : b[i].of = h.of
    BY <1>3, <1>8
  <2>4. QED
    BY <2>2, <2>3
<1>12. \A e \in executed : \A i \in 1 .. Len(b) : e.id < b[i].of
  <2>1. \A i \in 1 .. Len(b) : i \in 1 .. Len(Ahead)
    <3>1. Len(Ahead) \in Nat
      BY <1>1
    <3>2. QED
      BY <1>7, <3>1
  <2>2. QED
    BY <1>1, <1>7, <2>1 DEF InOrder, Above
<1>13. b # <<>>
  BY <1>7
<1>14. QED
  BY <1>2, <1>3, <1>5, <1>6, <1>7, <1>8, <1>10, <1>11, <1>12, <1>13

\* On an FPGA nothing is kept, and nothing asked for.
LEMMA FpgaArguments ==
    ASSUME ControlInv, device = "fpga", UNCHANGED <<device, asked, arg_high>>, seen' \in SUBSET Ids,
           \A e \in executed' : e \in executed \/ e.high = 0
    PROVE  KeptRight' /\ ArgumentsWhole'
<1>1. CtlTypeOK /\ KeptRight /\ ArgumentsWhole /\ Len(asked) \in Nat
  BY Fields DEF ControlInv
<1>2. \A x \in 1 .. Len(asked) : asked[x].op # "high"
  BY <1>1 DEF CtlTypeOK, Ids
<1>3. ASSUME NEW T \in SUBSET Ids, NEW ran PROVE HighIn(T, ran, asked) = 0
  BY <1>1, <1>2, NoHigh DEF Ids
<1>4. \A id : Earlier(seen, id) \in SUBSET Ids /\ Earlier(seen', id) \in SUBSET Ids
  BY <1>1 DEF Earlier, CtlTypeOK
<1>5. \A id : HighBefore(id) = 0
  BY <1>3, <1>4, HighIsOf
<1>6. \A id : HighBefore(id)' = 0
  <2>1. \A id : HighBefore(id)' = HighIn(Earlier(seen', id), executed', asked')
    BY DEF HighBefore, HighIn, Earlier
  <2>2. QED
    BY <1>3, <1>4, <2>1
<1>7. KeptRight'
  BY <1>1 DEF KeptRight
<1>8. ArgumentsWhole'
  BY <1>1, <1>5, <1>6 DEF ArgumentsWhole
<1>9. QED
  BY <1>7, <1>8

\* A later request seen changes nothing for those executed.
LEMMA SeenMore ==
    ASSUME ControlInv, UNCHANGED <<asked, executed>>, NEW x \in Ids, seen' = seen \cup {x}, \A e \in executed : e.id < x
    PROVE  ArgumentsWhole'
<1>1. CtlTypeOK /\ ArgumentsWhole /\ Len(asked) \in Nat
  BY Fields DEF ControlInv
<1>2. ASSUME NEW e \in executed PROVE Earlier(seen', e.id) = Earlier(seen, e.id)
  <2>1. e.id \in Nat /\ x \in Nat /\ e.id < x
    BY <1>1 DEF CtlTypeOK, Ids
  <2>2. ~(x < e.id)
    BY <2>1
  <2>3. QED
    BY <2>2 DEF Earlier
<1>3. \A id : HighBefore(id)' = HighIn(Earlier(seen', id), executed', asked')
  BY DEF HighBefore, HighIn, Earlier
<1>4. QED
  BY <1>1, <1>2, <1>3, HighIsOf DEF ArgumentsWhole

LEMMA ByteKeeps == ASSUME ControlInv, Byte PROVE ControlInv'
<1>1. CtlTypeOK /\ PortOK /\ LinesOK /\ TidyOK /\ InOrder /\ AwaitedThere /\ KeptRight /\ FrameBytes \in Nat
      /\ Ahead \in Seq(Bytes) /\ ToHost \in Seq(Bytes) /\ request \in Seq(Bytes) /\ toDevice \in Seq(Bytes) /\ Len(asked) \in Nat
  BY Fields, Lines, FrameLength DEF ControlInv
<1> DEFINE h == Head(toDevice)
<1>2. /\ toDevice # <<>> /\ toDevice' = Tail(toDevice) /\ seen' = seen \cup {h.of} /\ Len(Received) < FrameBytes
      /\ request' = (IF request = <<>> /\ ~h.magic THEN <<>> ELSE Received)
      /\ UNCHANGED <<device, asked, opens, port, answers, toHost, arg_high, pending, executing, executed>>
  BY DEF Byte, Takes
<1>3. /\ Received \in Seq(Bytes) /\ Tail(toDevice) \in Seq(Bytes) /\ Len(Received) = Len(request) + 1 /\ Received # <<>>
      /\ Ahead = (Received \o Tail(toDevice)) \o Unsent
      /\ Len(Received) <= Len(Ahead) /\ \A i \in 1 .. Len(Received) : Received[i] = Ahead[i]
      /\ \A i \in 1 .. Len(request) : Received[i] = request[i]
      /\ Received[Len(Received)] = h /\ h.of \in Ids
      /\ \A i \in 1 .. Len(Received) : Received[i].of \in seen \cup {h.of}
      /\ \A j \in seen \cup {h.of} : Above(Ahead, j) \/ \E i \in 1 .. Len(Received) : Received[i].of = j
      /\ \A e \in executed : \A i \in 1 .. Len(Received) : e.id < Received[i].of
  BY <1>2, TakesIs
<1> HIDE DEF h
<1>4. Len(request) \in Nat /\ Len(Received) \in Nat /\ Len(Ahead) \in Nat /\ Len(Received) \in 1 .. Len(Received)
      /\ 1 \in 1 .. Len(Received) /\ 1 \in 1 .. Len(Ahead) /\ Ahead # <<>>
  <2>1. Len(request) \in Nat /\ Len(Received) \in Nat /\ Len(Ahead) \in Nat
    BY <1>1, <1>3
  <2>2. Len(Received) \in 1 .. Len(Received) /\ 1 \in 1 .. Len(Received) /\ 1 \in 1 .. Len(Ahead)
    BY <1>3, <2>1
  <2>3. Ahead # <<>>
    BY <1>1, <2>2
  <2>4. QED
    BY <2>1, <2>2, <2>3
<1>5. request = <<>> => h = Ahead[1] /\ h.place = 1 /\ h.magic /\ Len(Received) = 1
  <2> SUFFICES ASSUME request = <<>> PROVE h = Ahead[1] /\ h.place = 1 /\ h.magic /\ Len(Received) = 1
    OBVIOUS
  <2>1. Len(Received) = 1
    BY <1>3
  <2>2. h = Ahead[1]
    BY <1>3, <1>4, <2>1
  <2>3. Ahead[1].place = 1 /\ Chain(Ahead)
    BY <1>1, <1>4 DEF LinesOK
  <2>4. QED
    BY <1>4, <2>1, <2>2, <2>3 DEF Chain
<1>6. request' = Received
  BY <1>2, <1>5
<1>7. Ahead' = Ahead /\ ToHost' = ToHost
  BY <1>2, <1>3, <1>6 DEF Ahead, Unsent, ToHost
<1>8. CtlTypeOK'
  BY <1>1, <1>2, <1>3, <1>6 DEF CtlTypeOK, Ids
<1>9. LinesOK'
  BY <1>1, <1>2, <1>3, <1>6, <1>7 DEF LinesOK
<1>10. InOrder'
  BY <1>1, <1>2, <1>3, <1>6, <1>7 DEF InOrder
<1>11. PortOK' /\ TidyOK' /\ AwaitedThere' /\ ProcessKnown' /\ OwnReply'
  <2>1. 0 \in 0 .. Len(Ahead) /\ IsDrop(Ahead, 0, Ahead') /\ ~(0 > 0)
    BY <1>1, <1>4, <1>7, LineKept
  <2>2. port.phase = "writing" => EndsWith(Ahead', Len(asked), FrameBytes)
    BY <1>1, <1>7 DEF PortOK
  <2>3. \A id : Where(id) => Where(id)'
    BY <1>2, <1>7 DEF Where
  <2>4. QED
    BY <1>2, <1>7, <2>1, <2>2, <2>3, DeviceKeeps
<1>12. \A e \in executed : e.id < h.of
  BY <1>3, <1>4
<1>13. ArgumentsWhole'
  BY <1>2, <1>3, <1>12, SeenMore
<1>14. KeptRight'
  <2>1. CASE device = "fpga"
    BY <1>1, <1>2, <2>1 DEF KeptRight
  <2>2. CASE device # "fpga"
    <3> SUFFICES ASSUME Received[1].place = 1, \A i \in 1 .. Len(Received) : Received[i].of = Received[1].of
                 PROVE  arg_high = HighIn(Earlier(seen', Received[1].of), executed, asked)
      BY <1>2, <1>3, <1>6, <2>2 DEF KeptRight
    <3>1. h.of = Received[1].of /\ h.of \in Nat
      BY <1>3, <1>4 DEF Ids
    <3>2. Earlier(seen', h.of) = Earlier(seen, h.of)
      BY <1>2, <3>1 DEF Earlier
    <3>3. CASE request = <<>>
      <4>1. \A j \in seen : j < h.of
        BY <1>1, <1>4, <1>5, <3>3 DEF InOrder, Above
      <4>2. Earlier(seen, h.of) = seen
        BY <4>1 DEF Earlier
      <4>3. QED
        BY <1>1, <2>2, <3>1, <3>2, <3>3, <4>2 DEF KeptRight
    <3>4. CASE request # <<>>
      <4>1. 1 \in 1 .. Len(request) /\ \A i \in 1 .. Len(request) : i \in 1 .. Len(Received)
        BY <1>1, <1>3, <1>4, <3>4
      <4>2. request[1].place = 1 /\ request[1].of = h.of /\ \A i \in 1 .. Len(request) : request[i].of = request[1].of
        BY <1>3, <3>1, <4>1
      <4>3. QED
        BY <1>1, <2>2, <3>1, <3>2, <3>4, <4>2 DEF KeptRight
    <3>5. QED
      BY <3>3, <3>4
  <2>3. QED
    BY <2>1, <2>2
<1>15. QED
  BY <1>8, <1>9, <1>10, <1>11, <1>13, <1>14 DEF ControlInv

LEMMA EspResyncsKeeps == ASSUME ControlInv, EspResyncs PROVE ControlInv'
<1>1. CtlTypeOK /\ PortOK /\ LinesOK /\ TidyOK /\ InOrder /\ AwaitedThere /\ KeptRight /\ FrameBytes \in Nat /\ FrameBytes > 0
      /\ Ahead \in Seq(Bytes) /\ ToHost \in Seq(Bytes) /\ Chain(Ahead) /\ Len(asked) \in Nat
  BY Fields, Lines, FrameLength DEF ControlInv, LinesOK
<1> DEFINE x == Head(toDevice).of
<1>2. /\ toDevice # <<>> /\ toDevice' = Tail(toDevice) /\ seen' = seen \cup {x} /\ Len(Received) = FrameBytes
      /\ request' = FromMagic(Tail(Received)) /\ arg_high' = 0 /\ ~Intact(Received) /\ device = "esp"
      /\ UNCHANGED <<device, asked, opens, port, answers, toHost, pending, executing, executed>>
  BY DEF EspResyncs, Takes, ResyncHigh
<1>3. PICK b \in Seq(Bytes), h \in Seq(Bytes) :
      /\ b = Received /\ Len(b) = FrameBytes /\ ~Intact(b) /\ Tail(toDevice) \in Seq(Bytes) /\ Unsent \in Seq(Bytes)
      /\ Ahead = b \o h /\ h = Tail(toDevice) \o Unsent
      /\ Len(b) <= Len(Ahead) /\ (\A i \in 1 .. Len(b) : b[i] = Ahead[i])
      /\ b[Len(b)].of = x /\ x \in Ids
      /\ (\A i \in 1 .. Len(b) : b[i].of \in seen')
      /\ (\A j \in seen' : Above(Ahead, j) \/ \E i \in 1 .. Len(b) : b[i].of = j)
      /\ (\A e \in executed : \A i \in 1 .. Len(b) : e.id < b[i].of)
      /\ Chain(b \o h) /\ Len(b) >= FrameBytes
  <2>1. PICK b \in Seq(Bytes), h \in Seq(Bytes) : b = Received /\ h = Tail(toDevice) \o Unsent
    BY <1>2, TakesIs
  <2>2. Ahead = b \o h
    BY <1>2, <2>1, TakesIs
  <2>3. Len(b) >= FrameBytes /\ Len(b) = FrameBytes
    BY <1>1, <1>2, <2>1
  <2>4. Chain(b \o h)
    BY <1>1, <2>2
  <2>5. QED
    BY <1>2, <2>1, <2>2, <2>3, <2>4, TakesIs
<1> HIDE DEF x
<1>4. PICK m \in 1 .. Len(b) :
               /\ IsDrop(b, m, FromMagic(Tail(b))) /\ m \in 0 .. Len(b \o h)
               /\ IsDrop(b \o h, m, FromMagic(Tail(b)) \o h) /\ (\A j \in 2 .. m : ~b[j].magic)
               /\ \A id : /\ WholeIn(b \o h, id) => WholeIn(FromMagic(Tail(b)) \o h, id)
                          /\ EndsWith(b \o h, id, FrameBytes) => EndsWith(FromMagic(Tail(b)) \o h, id, FrameBytes)
  BY <1>3, SkipBroken
<1>5. PICK t \in Seq(Bytes) : t = request' /\ t = FromMagic(Tail(b)) /\ IsDrop(b, m, t)
  <2>1. FromMagic(Tail(b)) \in Seq(Bytes)
    BY <1>4 DEF IsDrop
  <2>2. QED
    BY <1>2, <1>3, <1>4, <2>1
<1>6. Ahead' = t \o h /\ ToHost' = ToHost
  <2>1. Unsent' = Unsent /\ ToHost' = ToHost
    BY <1>2 DEF Unsent, ToHost
  <2>2. Ahead' = (t \o Tail(toDevice)) \o Unsent
    BY <1>2, <1>5, <2>1 DEF Ahead
  <2>3. PICK r \in Seq(Bytes), u \in Seq(Bytes) : r = Tail(toDevice) /\ u = Unsent
    BY <1>3
  <2>4. (t \o r) \o u = t \o (r \o u)
    BY CatAssociates, Zenon
  <2>5. r \o u = h
    BY <1>3, <2>3, Zenon
  <2>6. Ahead' = t \o h
    BY <2>2, <2>3, <2>4, <2>5, Zenon
  <2>7. QED
    BY <2>1, <2>6
<1>7. /\ m \in 0 .. Len(Ahead) /\ IsDrop(Ahead, m, Ahead')
      /\ \A id : /\ WholeIn(Ahead, id) => WholeIn(Ahead', id)
                 /\ EndsWith(Ahead, id, FrameBytes) => EndsWith(Ahead', id, FrameBytes)
  BY <1>3, <1>4, <1>5, <1>6
<1>8. /\ Len(t) \in Nat /\ Len(t) = FrameBytes - m /\ m \in Nat /\ m >= 1 /\ Len(Ahead) \in Nat /\ FrameBytes <= Len(Ahead)
      /\ Len(Ahead') \in Nat /\ Len(Ahead') = Len(Ahead) - m /\ Ahead' \in Seq(Bytes)
  <2>1. Ahead' \in Seq(Bytes) /\ Len(Ahead') = Len(Ahead) - m /\ t \in Seq(Bytes) /\ Len(t) = Len(b) - m
    BY <1>5, <1>7 DEF IsDrop
  <2>2. Len(t) \in Nat /\ Len(Ahead') \in Nat /\ Len(Ahead) \in Nat
    BY <1>1, <2>1
  <2>3. m \in Nat /\ m >= 1 /\ Len(b) = FrameBytes /\ FrameBytes <= Len(Ahead)
    BY <1>1, <1>3
  <2>4. QED
    BY <2>1, <2>2, <2>3
<1>9. Len(t) >= 1
  <2>1. ~Intact(b \o h) /\ Len(b \o h) >= FrameBytes
    BY <1>3, IntactCat
  <2>2. PICK j \in 2 .. FrameBytes : Ahead[j].place = 1
    <3>1. PICK z \in Seq(Bytes) : z = b \o h /\ Chain(z) /\ ~Intact(z) /\ Len(z) >= FrameBytes /\ z = Ahead
      BY <1>1, <1>3, <2>1
    <3>2. \E j \in 2 .. FrameBytes : z[j].place = 1
      BY <3>1, Broken
    <3>3. QED
      BY <3>1, <3>2
  <2>3. j \in 1 .. Len(b) /\ j \in 1 .. Len(Ahead) /\ j \in Nat
    BY <1>1, <1>3, <1>8
  <2>4. b[j].magic
    BY <1>1, <1>3, <2>2, <2>3 DEF Chain
  <2>5. ~(j <= m)
    BY <1>4, <2>3, <2>4
  <2>6. QED
    BY <1>1, <1>8, <2>3, <2>5
<1>10. \A i \in 1 .. Len(t) : t[i] = b[m + i] /\ m + i \in 1 .. Len(b) /\ t[i] = Ahead[m + i] /\ m + i \in 1 .. Len(Ahead)
  <2> TAKE i \in 1 .. Len(t)
  <2>1. m + i \in 1 .. Len(b) /\ m + i \in 1 .. Len(Ahead)
    BY <1>1, <1>3, <1>8
  <2>2. QED
    BY <1>3, <1>5, <2>1 DEF IsDrop
<1>11. Within(Ahead', Ahead) /\ Chain(Ahead') /\ t # <<>>
  <2>1. t # <<>>
    BY <1>9
  <2>2. QED
    BY <1>1, <1>7, <2>1, DropWithin, DropChain
<1>12. CtlTypeOK'
  BY <1>1, <1>2, <1>3, <1>5 DEF CtlTypeOK, Ids
<1>13. LinesOK'
  <2>1. UpTo(Ahead', Len(asked))
    BY <1>1, <1>11, WithinBounds DEF LinesOK
  <2>2. Len(t) < FrameBytes
    BY <1>1, <1>8
  <2>3. QED
    BY <1>1, <1>2, <1>5, <1>6, <1>11, <2>1, <2>2 DEF LinesOK
<1>14. InOrder'
  <2>1. \A c : Above(Ahead, c) => Above(Ahead', c)
    BY <1>11, WithinBounds
  <2>2. ASSUME NEW j \in seen' PROVE Above(Ahead', j) \/ \E i \in 1 .. Len(t) : t[i].of = j
    <3>1. CASE Above(Ahead, j)
      BY <2>1, <3>1
    <3>2. CASE ~Above(Ahead, j)
      <4>1. PICK i \in 1 .. Len(b) : b[i].of = j
        BY <1>3, <3>2
      <4>2. CASE i > m
        <5>1. i - m \in 1 .. Len(t) /\ m + (i - m) = i
          BY <1>1, <1>3, <1>8, <4>2
        <5>2. QED
          BY <1>10, <4>1, <5>1
      <4>3. CASE i <= m
        <5>1. 1 \in 1 .. Len(t) /\ m + 1 \in 1 .. Len(Ahead) /\ i \in 1 .. Len(Ahead) /\ m + 1 \in i .. Len(Ahead)
              /\ Ahead[i].of = j /\ t[1] = Ahead[m + 1]
          <6>1. 1 \in 1 .. Len(t)
            BY <1>8, <1>9
          <6>2. m + 1 \in 1 .. Len(Ahead) /\ t[1] = Ahead[m + 1]
            BY <1>10, <6>1
          <6>3. i \in 1 .. Len(Ahead) /\ m + 1 \in i .. Len(Ahead)
            BY <1>1, <1>3, <1>8, <4>3, <6>2
          <6>4. QED
            BY <1>3, <4>1, <6>1, <6>2, <6>3
        <5>2. j <= Ahead[m + 1].of
          BY <1>1, <5>1, Rising
        <5>3. ASSUME Ahead[m + 1].of # j PROVE Above(Ahead', j)
          <6>1. SUFFICES ASSUME NEW y \in 1 .. Len(Ahead') PROVE j < Ahead'[y].of
            BY DEF Above
          <6>2. m + y \in 1 .. Len(Ahead) /\ m + y \in m + 1 .. Len(Ahead) /\ Ahead'[y] = Ahead[m + y]
            <7>1. m + y \in 1 .. Len(Ahead) /\ m + y \in m + 1 .. Len(Ahead)
              BY <1>8
            <7>2. QED
              BY <1>7, <7>1 DEF IsDrop
          <6>3. Ahead[m + 1].of <= Ahead[m + y].of
            BY <1>1, <5>1, <6>2, Rising
          <6>4. PICK p \in Nat, q \in Nat, z \in Nat : p = j /\ q = Ahead[m + 1].of /\ z = Ahead[m + y].of
            <7>1. j \in Nat /\ Ahead[m + 1].of \in Nat /\ Ahead[m + y].of \in Nat
              BY <1>1, <5>1, <6>2, Elements
            <7>2. QED
              BY <7>1
          <6>5. p < z
            <7>1. p <= q /\ p # q /\ q <= z
              BY <5>2, <5>3, <6>3, <6>4
            <7>2. QED
              BY ONLY <7>1, p \in Nat, q \in Nat, z \in Nat
          <6>6. QED
            BY <6>2, <6>4, <6>5
        <5>4. QED
          BY <5>1, <5>3
      <4>4. i \in Nat
        BY <1>1, <1>3
      <4>5. i > m \/ i <= m
        BY ONLY <4>4, <1>8
      <4>6. QED
        BY <4>2, <4>3, <4>5
    <3>3. QED
      BY <3>1, <3>2
  <2>3. \A i \in 1 .. Len(t) : t[i].of \in seen'
    BY <1>3, <1>10
  <2>4. QED
    BY <1>1, <1>2, <1>5, <1>6, <2>1, <2>2, <2>3 DEF InOrder
<1>15. PortOK' /\ TidyOK' /\ AwaitedThere' /\ ProcessKnown' /\ OwnReply'
  <2>1. port.phase = "writing" => EndsWith(Ahead', Len(asked), FrameBytes)
    BY <1>1, <1>7 DEF PortOK
  <2>2. \A id : Where(id) => Where(id)'
    BY <1>2, <1>6, <1>7 DEF Where
  <2>3. device # "fpga"
    BY <1>2
  <2>4. QED
    BY <1>2, <1>6, <1>7, <2>1, <2>2, <2>3, DeviceKeeps
<1>16. \A e \in executed : e.id < x
  <2>1. Len(b) \in 1 .. Len(b)
    BY <1>1, <1>3
  <2>2. QED
    BY <1>3, <2>1
<1>17. ArgumentsWhole'
  BY <1>2, <1>3, <1>16, SeenMore
<1>18. KeptRight'
  <2> SUFFICES ASSUME t[1].place = 1
               PROVE  HighIn(Earlier(seen', t[1].of), executed, asked) = 0
    BY <1>2, <1>5, <1>11 DEF KeptRight
  <2>1. 1 \in 1 .. Len(t) /\ 1 \in 1 .. Len(b) /\ 1 \in 1 .. Len(Ahead) /\ m + 1 \in 1 + 1 .. Len(Ahead) /\ t[1] = Ahead[m + 1]
    <3>1. 1 \in 1 .. Len(t)
      BY <1>8, <1>9
    <3>2. m + 1 \in 1 .. Len(Ahead) /\ t[1] = Ahead[m + 1]
      BY <1>10, <3>1
    <3>3. QED
      BY <1>1, <1>3, <1>8, <3>1, <3>2
  <2>2. Ahead[1].of < t[1].of
    BY <1>1, <2>1, StartIsLater
  <2>3. PICK y \in Earlier(seen', t[1].of) : y = b[1].of
    BY <1>3, <2>1, <2>2 DEF Earlier
  <2>4. Earlier(seen', t[1].of) \in SUBSET (1 .. Len(asked))
    BY <1>12, <1>2 DEF CtlTypeOK, Ids, Earlier
  <2>5. executed \in SUBSET [id : 1 .. Len(asked), high : Nat] /\ \A e \in executed : e.id < y
    BY <1>1, <1>3, <2>1, <2>3 DEF CtlTypeOK, Ids
  <2>6. QED
    BY <1>1, <2>3, <2>4, <2>5, NoneKept
<1>19. QED
  BY <1>12, <1>13, <1>14, <1>15, <1>17, <1>18 DEF ControlInv

\* The device has taken the last byte of a whole request.
LEMMA FrameTaken ==
    ASSUME ControlInv, Takes, Len(Received) = FrameBytes, Intact(Received), request' = <<>>
    PROVE  \E id \in Ids :
             /\ id = Received[1].of /\ id = Head(toDevice).of
             /\ FrameBytes \in 0 .. Len(Ahead) /\ IsDrop(Ahead, FrameBytes, Ahead')
             /\ (Ahead' # <<>> => Ahead'[1].place = 1) /\ Above(Ahead', id)
             /\ (\A x : WholeIn(Ahead, x) => x = id \/ WholeIn(Ahead', x))
             /\ (port.phase = "writing" => EndsWith(Ahead', Len(asked), FrameBytes))
             /\ (\A c : Above(Ahead, c) => c < id)
             /\ (\A j \in seen' : j \in Nat /\ j <= id)
<1>1. /\ CtlTypeOK /\ PortOK /\ LinesOK /\ FrameBytes \in Nat /\ FrameBytes > 0 /\ Ahead \in Seq(Bytes) /\ Chain(Ahead)
      /\ Len(Ahead) \in Nat /\ Len(asked) \in Nat /\ toDevice \in Seq(Bytes) /\ request \in Seq(Bytes)
      /\ Len(Ahead) = Len(request) + Len(toDevice) + Len(Unsent)
      /\ Len(Unsent) = (IF port.phase = "writing" THEN FrameBytes - port.written ELSE 0) /\ port.written \in Nat
  BY Fields, Lines, FrameLength DEF ControlInv, LinesOK
<1>2. toDevice # <<>> /\ toDevice' = Tail(toDevice) /\ seen' = seen \cup {Head(toDevice).of} /\ UNCHANGED <<device, asked, opens, port, answers>>
  BY DEF Takes
<1>3. PICK b \in Seq(Bytes), r \in Seq(Bytes), u \in Seq(Bytes) :
         b = Received /\ r = Tail(toDevice) /\ u = Unsent /\ Ahead = b \o (r \o u) /\ r \o u \in Seq(Bytes)
  BY <1>2, TakesIs
<1>4. PICK h \in Seq(Bytes) : h = r \o u
  BY <1>3
<1>5. Ahead = b \o h
  BY <1>3, <1>4, Zenon
<1>6. Ahead' = h
  <2>1. Unsent' = u
    BY <1>2, <1>3 DEF Unsent
  <2>2. Ahead' = (<<>> \o r) \o u
    BY <1>2, <1>3, <2>1 DEF Ahead
  <2>3. <<>> \o r = r
    BY ConcatEmptySeq
  <2>4. QED
    BY <1>4, <2>2, <2>3, Zenon
<1>7. Len(b) = FrameBytes /\ Intact(b) /\ Len(b) >= FrameBytes /\ 1 \in 1 .. Len(b)
  BY <1>1, <1>3
<1>8. Len(b) \in 0 .. Len(b \o h) /\ IsDrop(b \o h, Len(b), h)
  BY CatParts
<1>9. FrameBytes \in 0 .. Len(Ahead) /\ IsDrop(Ahead, FrameBytes, Ahead')
  BY <1>5, <1>6, <1>7, <1>8
<1>10. PICK id \in Ids : id = b[1].of /\ id = Head(toDevice).of /\ b[Len(b)] = Head(toDevice)
  <2>1. b[Len(b)] = Head(toDevice) /\ Head(toDevice).of \in Ids
    BY <1>2, <1>3, TakesIs
  <2>2. FrameBytes \in 1 .. FrameBytes /\ FrameBytes = Len(b)
    BY <1>1, <1>7
  <2>3. b[Len(b)].of = b[1].of
    BY <1>7, <2>2 DEF Intact
  <2>4. QED
    BY <2>1, <2>3
<1>11. id \in Nat /\ 1 \in 1 .. Len(Ahead) /\ Len(Ahead) >= FrameBytes /\ Ahead[1] = b[1]
  <2>1. id \in Nat /\ 1 \in 1 .. Len(Ahead) /\ Len(Ahead) >= FrameBytes
    BY <1>1, <1>9 DEF Ids
  <2>2. QED
    BY <1>2, <1>3, <1>7, <2>1, TakesIs
<1>12. At(Ahead, 0, id, FrameBytes)
  <2>1. Intact(b \o h)
    BY <1>7, IntactCat
  <2>2. Intact(Ahead)
    BY <1>5, <2>1
  <2>3. At(Ahead, 0, Ahead[1].of, FrameBytes)
    BY <1>1, <1>11, <2>2, IntactIs
  <2>4. QED
    BY <1>10, <1>11, <2>3
<1>13. /\ \A i \in 0 + FrameBytes + 1 .. Len(Ahead) : Ahead[i].of > id
       /\ Len(Ahead) > 0 + FrameBytes => Ahead[0 + FrameBytes + 1].place = 1
  <2>1. 0 \in 0 .. Len(Ahead) - FrameBytes
    BY <1>1, <1>11
  <2>2. QED
    BY <1>1, <1>12, <2>1, Behind
<1>14. PICK a \in Seq(Bytes) : a = Ahead' /\ Len(a) = Len(Ahead) - FrameBytes /\ (\A i \in 1 .. Len(a) : a[i] = Ahead[FrameBytes + i])
  BY <1>9 DEF IsDrop
<1>15. Ahead' # <<>> => Ahead'[1].place = 1
  <2> SUFFICES ASSUME a # <<>> PROVE a[1].place = 1
    BY <1>14
  <2>1. 1 \in 1 .. Len(a)
    OBVIOUS
  <2>2. Len(Ahead) > 0 + FrameBytes /\ 0 + FrameBytes + 1 = FrameBytes + 1
    BY <1>1, <1>14, <2>1
  <2>3. QED
    BY <1>13, <1>14, <2>1, <2>2
<1>16. Above(Ahead', id)
  <2> SUFFICES ASSUME NEW i \in 1 .. Len(a) PROVE id < a[i].of
    BY <1>14 DEF Above
  <2>1. FrameBytes + i \in 0 + FrameBytes + 1 .. Len(Ahead) /\ FrameBytes + i \in 1 .. Len(Ahead)
    <3>1. PICK k \in Nat, l \in Nat : k = Len(a) /\ l = Len(Ahead) /\ k = l - FrameBytes
      <4>1. Len(a) \in Nat
        OBVIOUS
      <4>2. Len(a) = Len(Ahead) - FrameBytes /\ Len(Ahead) \in Nat
        BY <1>1, <1>14
      <4>3. QED
        BY <4>1, <4>2
    <3>2. i \in 1 .. k
      BY <3>1
    <3>3. FrameBytes + i \in 0 + FrameBytes + 1 .. l /\ FrameBytes + i \in 1 .. l
      BY ONLY <1>1, <3>1, <3>2
    <3>4. QED
      BY <3>1, <3>3
  <2>2. Ahead[FrameBytes + i].of > id /\ Ahead[FrameBytes + i].of \in Nat
    BY <1>1, <1>13, <2>1, Elements
  <2>3. QED
    BY <1>11, <1>14, <2>2
<1>17. \A x : /\ WholeIn(Ahead, x) => x = id \/ WholeIn(Ahead', x)
              /\ EndsWith(Ahead, x, FrameBytes) /\ Len(Ahead) > FrameBytes => EndsWith(Ahead', x, FrameBytes)
  BY <1>1, <1>9, <1>11, <1>12, FrameLost
<1>18. port.phase = "writing" => EndsWith(Ahead', Len(asked), FrameBytes)
  <2> SUFFICES ASSUME port.phase = "writing" PROVE EndsWith(Ahead', Len(asked), FrameBytes)
    OBVIOUS
  <2>1. EndsWith(Ahead, Len(asked), FrameBytes) /\ port.written < FrameBytes
    BY <1>1 DEF PortOK
  <2>2. Len(b) = Len(request) + 1 /\ Len(request) \in Nat /\ Len(toDevice) \in Nat /\ Len(toDevice) >= 1
    BY <1>1, <1>2, <1>3, TakesIs
  <2>3. Len(Ahead) > FrameBytes
    <3>1. PICK k \in Nat, l \in Nat, w \in Nat : k = Len(request) /\ l = Len(toDevice) /\ w = port.written
      BY <1>1, <2>2
    <3>2. Len(Ahead) = k + l + (FrameBytes - w) /\ w < FrameBytes /\ l >= 1 /\ FrameBytes = k + 1
      BY <1>1, <1>3, <1>7, <2>1, <2>2, <3>1
    <3>3. k + l + (FrameBytes - w) > FrameBytes
      BY ONLY <1>1, <3>2, k \in Nat, l \in Nat, w \in Nat
    <3>4. QED
      BY <3>2, <3>3
  <2>4. QED
    BY <1>17, <2>1, <2>3
<1>19. \A c : Above(Ahead, c) => c < id
  BY <1>10, <1>11 DEF Above
<1>20. \A j \in seen' : j \in Nat /\ j <= id
  <2> TAKE j \in seen'
  <2>1. j \in Nat
    <3>1. j \in seen \/ j = id
      BY <1>2, <1>10
    <3>2. CASE j = id
      BY <1>11, <3>2
    <3>3. CASE j \in seen
      BY <1>1, <3>3 DEF CtlTypeOK, Ids
    <3>4. QED
      BY <3>1, <3>2, <3>3
  <2>2. Above(Ahead, j) \/ \E i \in 1 .. Len(b) : b[i].of = j
    BY <1>2, <1>3, TakesIs
  <2>3. \A i \in 1 .. Len(b) : b[i].of = id
    BY <1>7, <1>10 DEF Intact
  <2>4. j < id \/ j = id
    BY <1>19, <2>2, <2>3
  <2>5. QED
    BY <1>11, <2>1, <2>4
<1>21. QED
  BY <1>3, <1>9, <1>10, <1>15, <1>16, <1>17, <1>18, <1>19, <1>20

\* The bytes of an answer follow all that is on the way to the host.
LEMMA AnswerIs ==
    ASSUME ControlInv, NEW id \in Ids, Answer(id), port' = port, Below(ToHost, id)
    PROVE  /\ toHost' \in Seq(Bytes) /\ ToHost' \in Seq(Bytes) /\ Chain(ToHost') /\ UpTo(ToHost', id)
           /\ \A x : WholeIn(ToHost, x) => WholeIn(ToHost', x)
           /\ port.phase # "closed" => WholeIn(ToHost', id)
           /\ \A c : Above(ToHost, c) /\ c < id => Above(ToHost', c)
           /\ \A i \in 1 .. Len(ToHost') : ToHost'[i].of = id \/ \E j \in 1 .. Len(ToHost) : ToHost'[i].of = ToHost[j].of
<1>1. /\ CtlTypeOK /\ LinesOK /\ FrameBytes \in Nat /\ FrameBytes > 0 /\ Len(asked) \in Nat /\ id \in Nat /\ id \in Nat \ {0}
      /\ Chain(ToHost)
  BY Fields, FrameLength DEF ControlInv, LinesOK, Ids
<1>2. PICK inner \in InnerMagic, n \in 0 .. FrameBytes :
         /\ toHost' = toHost \o SubSeq(Frame(id, inner), 1, n)
         /\ (port.phase # "closed" => n = FrameBytes)
  <2>1. FrameBytes \in 0 .. FrameBytes
    BY <1>1
  <2>2. QED
    BY <2>1 DEF Answer
<1>3. PICK g \in Seq(Bytes) :
         /\ g = Frame(id, inner) /\ Chain(g) /\ Len(g) = FrameBytes /\ At(g, 0, id, FrameBytes)
  <2>1. Chain(Frame(id, inner)) /\ Len(Frame(id, inner)) = FrameBytes /\ At(Frame(id, inner), 0, id, FrameBytes)
    BY <1>1, FrameIs
  <2>2. QED
    BY <2>1 DEF Chain
<1>4. PICK f \in Seq(Bytes) : /\ f = SubSeq(g, 1, n) /\ IsPrefixOf(f, g) /\ Len(f) = n
                              /\ \A i \in 1 .. Len(f) : f[i] = g[i]
  <2>1. n \in 0 .. Len(g)
    BY <1>3
  <2>2. SubSeq(g, 1, n) \in Seq(Bytes) /\ IsPrefixOf(SubSeq(g, 1, n), g)
    BY <2>1, SplitAt
  <2>3. 0 \in 0 .. Len(g) /\ n \in 0 .. Len(g) /\ 0 + 1 = 1 /\ n - 0 = n
    BY <1>1, <1>3
  <2>4. Len(SubSeq(g, 1, n)) = n
    BY <2>3, PartIs
  <2>5. QED
    BY <2>2, <2>4 DEF IsPrefixOf
<1>5. Chain(f)
  BY <1>3, <1>4, PrefixChain
<1>6. \A i \in 1 .. Len(f) : f[i].of = id /\ f[i].place = i
  <2> TAKE i \in 1 .. Len(f)
  <2>1. i \in 1 .. FrameBytes /\ 0 + i = i
    BY <1>1, <1>4
  <2>2. QED
    BY <1>3, <1>4, <2>1 DEF At
<1>7. PICK p \in Seq(Bytes), q \in Seq(Bytes) : p = port.buffer /\ q = toHost
  BY <1>1, Fields
<1>8. PICK h \in Seq(Bytes) : h = ToHost /\ h = p \o q
  BY <1>7, Lines DEF ToHost, ControlInv
<1>9. toHost' = q \o f /\ q \o f \in Seq(Bytes)
  <2>1. toHost' = q \o f
    BY <1>2, <1>3, <1>4, <1>7, Zenon
  <2>2. q \o f \in Seq(Bytes)
    BY CatIs, Zenon
  <2>3. QED
    BY <2>1, <2>2
<1>10. ToHost' = h \o f
  <2>1. ToHost' = p \o (q \o f)
    BY <1>7, <1>9, Zenon DEF ToHost
  <2>2. (p \o q) \o f = p \o (q \o f)
    BY CatAssociates, Zenon
  <2>3. QED
    BY <1>8, <2>1, <2>2, Zenon
<1>11. PICK s \in Seq(Bytes) : /\ s = ToHost' /\ s = h \o f /\ Len(s) = Len(h) + Len(f)
                               /\ (\A i \in 1 .. Len(h) : s[i] = h[i]) /\ \A i \in 1 .. Len(f) : s[Len(h) + i] = f[i]
  <2>1. /\ h \o f \in Seq(Bytes) /\ Len(h \o f) = Len(h) + Len(f)
        /\ (\A i \in 1 .. Len(h) : (h \o f)[i] = h[i]) /\ \A i \in 1 .. Len(f) : (h \o f)[Len(h) + i] = f[i]
    BY CatIs, Zenon
  <2>2. QED
    BY <1>10, <2>1, Zenon
<1>12. \A i \in 1 .. Len(s) : s[i].of = id \/ \E j \in 1 .. Len(h) : s[i] = h[j]
  <2> TAKE i \in 1 .. Len(s)
  <2>0. PICK k \in Nat, l \in Nat : k = Len(h) /\ l = Len(f) /\ Len(s) = k + l
    BY <1>11
  <2>1. CASE i <= Len(h)
    <3>1. i \in 1 .. Len(h)
      BY <2>1, <2>0
    <3>2. QED
      BY <1>11, <3>1
  <2>2. CASE i > Len(h)
    <3>1. PICK j \in 1 .. l : i = k + j
      <4>1. i \in Nat /\ i <= k + l /\ i > k
        BY <2>0, <2>2
      <4>2. i - k \in 1 .. l /\ i = k + (i - k)
        BY ONLY <4>1, k \in Nat, l \in Nat
      <4>3. QED
        BY <4>2
    <3>2. s[i] = f[j] /\ f[j].of = id
      BY <1>6, <1>11, <2>0, <3>1
    <3>3. QED
      BY <3>2
  <2>3. i \in Nat
    OBVIOUS
  <2>4. i <= k \/ i > k
    BY ONLY <2>3, k \in Nat
  <2>5. QED
    BY <2>0, <2>1, <2>2, <2>4
<1>13. Chain(s)
  <2>1. ASSUME h # <<>>, f # <<>> PROVE Follows(h[Len(h)], f[1])
    <3>1. Len(h) \in 1 .. Len(h) /\ 1 \in 1 .. Len(f)
      BY <2>1
    <3>2. f[1].of = id /\ f[1].place = 1
      BY <1>6, <3>1
    <3>3. h[Len(h)].of < id /\ h[Len(h)].of \in Nat
      BY <1>8, <3>1, Elements DEF Below
    <3>4. f[1].of > h[Len(h)].of
      BY <1>1, <3>2, <3>3
    <3>5. QED
      BY <3>2, <3>4 DEF Follows
  <2>2. Chain(h)
    BY <1>1, <1>8
  <2>3. Chain(h \o f)
    BY <1>5, <2>1, <2>2, CatChain
  <2>4. QED
    BY <1>11, <2>3
<1>14. UpTo(s, id)
  <2>1. \A j \in 1 .. Len(h) : h[j].of < id /\ h[j].of \in Nat
    BY <1>8, Elements DEF Below
  <2>2. ASSUME NEW i \in 1 .. Len(s) PROVE s[i].of <= id
    <3>1. CASE s[i].of = id
      BY <1>1, <3>1
    <3>2. CASE \E j \in 1 .. Len(h) : s[i] = h[j]
      BY <1>1, <2>1, <3>2
    <3>3. QED
      BY <1>12, <3>1, <3>2
  <2>3. QED
    BY <2>2 DEF UpTo
<1>15. \A x : WholeIn(h, x) => WholeIn(s, x)
  BY <1>11, WholeCat
<1>16. port.phase # "closed" => WholeIn(s, id)
  <2> SUFFICES ASSUME n = FrameBytes PROVE WholeIn(s, id)
    BY <1>2
  <2>1. Len(f) = FrameBytes /\ At(f, 0, id, FrameBytes)
    <3>1. \A i \in 1 .. FrameBytes : 0 + i = i /\ i \in 1 .. Len(f)
      BY <1>1, <1>4
    <3>2. QED
      BY <1>4, <1>6, <3>1 DEF At
  <2>2. EndsWith(h \o f, id, FrameBytes)
    BY <2>1, WholeCat
  <2>3. EndsWith(s, id, FrameBytes)
    BY <1>11, <2>2
  <2>4. QED
    BY <2>3, EndIsWhole
<1>17. \A c : Above(h, c) /\ c < id => Above(s, c)
  BY <1>12 DEF Above
<1>18. QED
  <2>1. \A i \in 1 .. Len(s) : s[i].of = id \/ \E j \in 1 .. Len(h) : s[i].of = h[j].of
    BY <1>12
  <2>2. toHost' \in Seq(Bytes) /\ ToHost' = s /\ ToHost = h
    BY <1>8, <1>9, <1>11, Zenon
  <2>3. QED
    BY <1>13, <1>14, <1>15, <1>16, <1>17, <2>1, <2>2, Zenon

LEMMA AboveMore ==
    ASSUME NEW s \in Seq(Bytes), NEW a \in Nat, NEW b \in Nat, b <= a, Above(s, a)
    PROVE  Above(s, b)
<1>1. ASSUME NEW i \in 1 .. Len(s) PROVE b < s[i].of
  <2>1. PICK x \in Nat : x = s[i].of
    BY Elements
  <2>2. a < x
    BY <2>1 DEF Above
  <2>3. QED
    BY <2>1, <2>2
<1>2. QED
  BY <1>1 DEF Above

\* A request executed changes nothing for the requests before it.
Adds(ran, more, id) == ran \subseteq more /\ \A e \in more : e \in ran \/ e.id = id
LEMMA MoreExecuted ==
    ASSUME NEW T, NEW id \in Nat, Earlier(T, id) = T, T # {} => Max(T) \in T, NEW ran, NEW more, Adds(ran, more, id),
           NEW requests
    PROVE  HighIn(T, more, requests) = HighIn(T, ran, requests)
<1>1. ASSUME NEW x \in T PROVE (\E e \in ran : e.id = x) <=> (\E e \in more : e.id = x)
  <2>1. x < id
    BY DEF Earlier
  <2>2. x # id
    BY <2>1
  <2>3. QED
    BY <2>2 DEF Adds
<1>2. Agree(T, ran, more, requests, requests)
  BY <1>1 DEF Agree
<1>3. QED
  BY <1>2, SameKept

LEMMA OneMore ==
    ASSUME ControlInv, UNCHANGED asked, NEW id \in Ids, seen' = seen \cup {id},
           executed' = executed \cup {[id |-> id, high |-> arg_high]}, \A e \in executed : e.id < id,
           arg_high = HighIn(Earlier(seen, id), executed, asked)
    PROVE  ArgumentsWhole'
<1>1. CtlTypeOK /\ ArgumentsWhole /\ Len(asked) \in Nat /\ id \in Nat /\ seen \subseteq 1 .. Len(asked)
  <2>1. CtlTypeOK /\ ArgumentsWhole /\ Len(asked) \in Nat
    BY Fields DEF ControlInv
  <2>2. QED
    BY <2>1 DEF CtlTypeOK, Ids
<1>2. \A z : HighBefore(z)' = HighIn(Earlier(seen', z), executed', asked')
  BY DEF HighBefore, HighIn, Earlier
<1>3. ASSUME NEW z \in Nat, z <= id PROVE HighBefore(z)' = HighIn(Earlier(seen, z), executed, asked)
  <2>1. Earlier(seen', z) = Earlier(seen, z)
    <3>1. ~(id < z)
      BY <1>1, <1>3
    <3>2. QED
      BY <3>1 DEF Earlier
  <2>2. PICK T \in SUBSET (1 .. Len(asked)) : T = Earlier(seen, z) /\ \A y \in T : y < id
    <3>1. \A y \in Earlier(seen, z) : y < id /\ y \in 1 .. Len(asked)
      <4> TAKE y \in Earlier(seen, z)
      <4>1. y \in seen /\ y < z
        BY DEF Earlier
      <4>2. y \in 1 .. Len(asked)
        BY <1>1, <4>1
      <4>3. y \in Nat
        BY <1>1, <4>2
      <4>4. y < id
        BY ONLY <4>1, <4>3, <1>3, <1>1
      <4>5. QED
        BY <4>2, <4>4
    <3>2. QED
      BY <3>1
  <2>3. HighIn(T, executed', asked) = HighIn(T, executed, asked)
    <3>1. PICK n \in Nat, x \in Nat : n = Len(asked) /\ x = id
      BY <1>1
    <3>2. T \in SUBSET (1 .. n) /\ Earlier(T, x) = T
      BY <2>2, <3>1 DEF Earlier
    <3>3. T # {} => Max(T) \in T
      BY <3>1, <3>2, Greatest
    <3>4. Adds(executed, executed', x)
      BY <3>1 DEF Adds
    <3>5. QED
      BY <3>2, <3>3, <3>4, MoreExecuted
  <2>4. QED
    BY <1>2, <2>1, <2>2, <2>3
<1>4. ASSUME NEW e \in executed PROVE e.high = HighBefore(e.id)'
  <2>1. e.id \in Nat /\ e.id <= id
    BY <1>1 DEF CtlTypeOK, Ids
  <2>2. HighBefore(e.id)' = HighBefore(e.id)
    BY <1>3, <2>1, HighIsOf
  <2>3. QED
    BY <1>1, <2>2 DEF ArgumentsWhole
<1>5. arg_high = HighBefore(id)'
  <2>1. id <= id
    BY <1>1
  <2>2. QED
    BY <1>1, <1>3, <2>1
<1>6. ASSUME NEW e \in executed' PROVE e.high = HighBefore(e.id)'
  <2>1. e \in executed \/ (e.id = id /\ e.high = arg_high)
    OBVIOUS
  <2>2. QED
    BY <1>4, <1>5, <2>1
<1>7. QED
  BY <1>6 DEF ArgumentsWhole

LEMMA EspExecutesKeeps == ASSUME ControlInv, EspExecutes PROVE ControlInv'
<1>1. CtlTypeOK /\ PortOK /\ LinesOK /\ TidyOK /\ InOrder /\ AwaitedThere /\ KeptRight /\ FrameBytes \in Nat /\ FrameBytes > 0
      /\ Ahead \in Seq(Bytes) /\ ToHost \in Seq(Bytes) /\ Chain(Ahead) /\ Chain(ToHost) /\ Len(asked) \in Nat
      /\ toDevice \in Seq(Bytes) /\ request \in Seq(Bytes)
  BY Fields, Lines, FrameLength DEF ControlInv, LinesOK
<1>2. /\ device = "esp" /\ executing = 0 /\ pending = 0 /\ Takes /\ Len(Received) = FrameBytes /\ Intact(Received)
      /\ request' = <<>> /\ pending' = 0 /\ toDevice # <<>> /\ toDevice' = Tail(toDevice)
      /\ seen' = seen \cup {Head(toDevice).of} /\ UNCHANGED <<device, asked, opens, port, answers>>
  BY <1>1 DEF EspExecutes, Takes, CtlTypeOK
<1>3. PICK id \in Ids :
             /\ id = Received[1].of /\ id = Head(toDevice).of
             /\ FrameBytes \in 0 .. Len(Ahead) /\ IsDrop(Ahead, FrameBytes, Ahead')
             /\ (Ahead' # <<>> => Ahead'[1].place = 1) /\ Above(Ahead', id)
             /\ (\A x : WholeIn(Ahead, x) => x = id \/ WholeIn(Ahead', x))
             /\ (port.phase = "writing" => EndsWith(Ahead', Len(asked), FrameBytes))
             /\ (\A c : Above(Ahead, c) => c < id)
             /\ (\A j \in seen' : j \in Nat /\ j <= id)
  BY <1>2, FrameTaken
<1>4. /\ executed' = executed \cup {[id |-> id, high |-> arg_high]}
      /\ arg_high' = (IF asked[id].op = "high" THEN id ELSE 0)
      /\ IF asked[id].op = "run" /\ arg_high = 0 THEN executing' = id /\ toHost' = toHost ELSE executing' = 0 /\ Answer(id)
  BY <1>2, <1>3 DEF EspExecutes
<1>5. Below(ToHost, id) /\ id \in Nat /\ id > 0 /\ id <= Len(asked)
  BY <1>1, <1>3 DEF InOrder, Below, Ids
<1>6. /\ toHost' \in Seq(Bytes) /\ ToHost' \in Seq(Bytes) /\ Chain(ToHost') /\ UpTo(ToHost', id)
      /\ (\A x : WholeIn(ToHost, x) => WholeIn(ToHost', x))
      /\ (port.phase # "closed" => WholeIn(ToHost', id) \/ executing' = id)
      /\ (\A c : Above(ToHost, c) /\ c < id => Above(ToHost', c))
      /\ (\A i \in 1 .. Len(ToHost') : ToHost'[i].of = id \/ \E j \in 1 .. Len(ToHost) : ToHost'[i].of = ToHost[j].of)
      /\ (executing' = 0 \/ (executing' = id /\ Below(ToHost', id)))
  <2>1. CASE asked[id].op = "run" /\ arg_high = 0
    <3>1. ToHost' = ToHost /\ toHost' = toHost /\ executing' = id
      BY <1>2, <1>4, <2>1 DEF ToHost
    <3>2. UpTo(ToHost, id)
      <4>1. \A i \in 1 .. Len(ToHost) : ToHost[i].of < id /\ ToHost[i].of \in Nat
        BY <1>1, <1>5, Elements DEF Below
      <4>2. QED
        BY <1>5, <4>1 DEF UpTo
    <3>3. QED
      BY <1>1, <1>5, <3>1, <3>2 DEF CtlTypeOK
  <2>2. CASE ~(asked[id].op = "run" /\ arg_high = 0)
    <3>1. executing' = 0 /\ Answer(id) /\ port' = port
      BY <1>2, <1>4, <2>2
    <3>2. /\ toHost' \in Seq(Bytes) /\ ToHost' \in Seq(Bytes) /\ Chain(ToHost') /\ UpTo(ToHost', id)
          /\ \A x : WholeIn(ToHost, x) => WholeIn(ToHost', x)
          /\ port.phase # "closed" => WholeIn(ToHost', id)
          /\ \A c : Above(ToHost, c) /\ c < id => Above(ToHost', c)
          /\ \A i \in 1 .. Len(ToHost') : ToHost'[i].of = id \/ \E j \in 1 .. Len(ToHost) : ToHost'[i].of = ToHost[j].of
      BY <1>5, <3>1, AnswerIs, Zenon
    <3>3. QED
      BY <3>1, <3>2, Zenon
  <2>3. QED
    BY <2>1, <2>2
<1>7. CtlTypeOK'
  <2>1. arg_high \in Nat /\ arg_high' \in Nat /\ Ids' = Ids
    BY <1>1, <1>2, <1>4, <1>5 DEF CtlTypeOK, Ids
  <2>2. executed' \in SUBSET [id : Ids, high : Nat]
    BY <1>1, <1>3, <1>4, <2>1 DEF CtlTypeOK
  <2>3. seen' \in SUBSET Ids
    BY <1>1, <1>2, <1>3 DEF CtlTypeOK
  <2>4. toDevice' \in Seq(Bytes) /\ request' \in Seq(Bytes)
    BY <1>1, <1>2
  <2>5. pending' \in {0} \cup Ids /\ executing' \in {0} \cup Ids
    BY <1>2, <1>3, <1>6
  <2>6. QED
    BY <1>1, <1>2, <1>6, <2>1, <2>2, <2>3, <2>4, <2>5 DEF CtlTypeOK
<1>8. Within(Ahead', Ahead) /\ Chain(Ahead') /\ Ahead' \in Seq(Bytes)
  <2>1. Ahead' \in Seq(Bytes)
    BY <1>3 DEF IsDrop
  <2>2. QED
    BY <1>1, <1>3, <2>1, DropWithin, DropChain
<1>9. \A c : Above(Ahead, c) => Above(Ahead', c)
  BY <1>8, WithinBounds
<1>10. LinesOK'
  <2>1. UpTo(Ahead', Len(asked))
    BY <1>1, <1>8, WithinBounds DEF LinesOK
  <2>2. UpTo(ToHost', Len(asked))
    <3>1. ASSUME NEW i \in 1 .. Len(ToHost') PROVE ToHost'[i].of <= Len(asked)
      <4>1. ToHost'[i].of <= id /\ ToHost'[i].of \in Nat
        BY <1>6, Elements DEF UpTo
      <4>2. QED
        BY <1>1, <1>5, <4>1
    <3>2. QED
      BY <3>1 DEF UpTo
  <2>3. Len(request') < FrameBytes
    BY <1>1, <1>2
  <2>4. QED
    BY <1>2, <1>3, <1>6, <1>8, <2>1, <2>2, <2>3 DEF LinesOK
<1>11. InOrder'
  <2>1. \A i \in 1 .. Len(ToHost') : Above(Ahead', ToHost'[i].of)
    BY <1>1, <1>3, <1>6, <1>9 DEF InOrder
  <2>2. executing' # 0 => Below(ToHost', executing') /\ Above(Ahead', executing')
    BY <1>3, <1>6
  <2>3. \A e \in executed' : Above(Ahead', e.id)
    <3>1. \A e \in executed : Above(Ahead', e.id)
      BY <1>1, <1>9 DEF InOrder
    <3>2. QED
      BY <1>3, <1>4, <3>1
  <2>4. \A j \in seen' : Above(Ahead', j)
    BY <1>3, <1>5, <1>8, AboveMore
  <2>5. pending' = 0 /\ \A i \in 1 .. Len(request') : request'[i].of \in seen'
    BY <1>2
  <2>6. QED
    BY <2>1, <2>2, <2>3, <2>4, <2>5 DEF InOrder
<1>12. PortOK' /\ TidyOK' /\ AwaitedThere' /\ ProcessKnown' /\ OwnReply'
  <2>1. port.phase # "closed" => \A x \in Ids : Where(x) => Where(x)'
    <3> SUFFICES ASSUME port.phase # "closed", NEW x \in Ids, Where(x) PROVE Where(x)'
      OBVIOUS
    <3>1. x # 0
      BY DEF Ids
    <3>2. WholeIn(Ahead, x) \/ WholeIn(ToHost, x)
      BY <1>2, <3>1 DEF Where
    <3>3. WholeIn(Ahead', x) \/ WholeIn(ToHost', x) \/ executing' = x
      BY <1>3, <1>6, <3>2
    <3>4. QED
      BY <3>3 DEF Where
  <2>2. \A c : Above(Ahead, c) /\ Above(ToHost, c) => Above(ToHost', c) /\ (executing' # 0 => executing' > c)
    BY <1>3, <1>6
  <2>3. QED
    BY <1>2, <1>3, <2>1, <2>2, DeviceKeeps
<1>13. \A e \in executed : e.id < id
  BY <1>1, <1>3 DEF InOrder
<1>14. arg_high = HighIn(Earlier(seen, id), executed, asked)
  <2>1. CASE request = <<>>
    <3>1. \A j \in seen : j < id
      BY <1>1, <1>3, <2>1 DEF InOrder
    <3>2. Earlier(seen, id) = seen
      BY <3>1 DEF Earlier
    <3>3. QED
      BY <1>1, <1>2, <2>1, <3>2 DEF KeptRight
  <2>2. CASE request # <<>>
    <3>1. 1 \in 1 .. Len(request) /\ Len(request) < FrameBytes /\ \A i \in 1 .. Len(request) : i \in 1 .. FrameBytes
      BY <1>1, <2>2 DEF LinesOK
    <3>2. \A i \in 1 .. Len(request) : Received[i] = request[i]
      BY <1>2, TakesIs
    <3>3. request[1].place = 1 /\ request[1].of = id /\ \A i \in 1 .. Len(request) : request[i].of = request[1].of
      BY <1>2, <1>3, <3>1, <3>2 DEF Intact
    <3>4. QED
      BY <1>1, <1>2, <2>2, <3>3 DEF KeptRight
  <2>3. QED
    BY <2>1, <2>2
<1>15. ArgumentsWhole'
  BY <1>2, <1>3, <1>4, <1>13, <1>14, OneMore
<1>16. KeptRight'
  <2>1. PICK T \in SUBSET (1 .. Len(asked)) : T = seen' /\ id \in T /\ \A y \in T : y <= id
    BY <1>2, <1>3, <1>7 DEF CtlTypeOK, Ids
  <2>2. \E e \in executed' : e.id = id
    <3>1. [id |-> id, high |-> arg_high] \in executed' /\ [id |-> id, high |-> arg_high].id = id
      BY <1>4
    <3>2. QED
      BY <3>1, Zenon
  <2>3. HighIn(T, executed', asked) = IF asked[id].op = "high" THEN id ELSE 0
    BY <1>1, <2>1, <2>2, LastKept
  <2>4. QED
    BY <1>2, <1>4, <2>1, <2>3 DEF KeptRight
<1>17. QED
  BY <1>7, <1>10, <1>11, <1>12, <1>15, <1>16 DEF ControlInv

\* The device has answered what it was busy with.
LEMMA AnsweredKeeps ==
    ASSUME ControlInv, executing # 0, executing' = 0, Answer(executing),
           UNCHANGED <<device, asked, opens, port, toDevice, request, arg_high, pending, seen, executed, answers>>
    PROVE  ControlInv'
<1>1. /\ CtlTypeOK /\ PortOK /\ LinesOK /\ TidyOK /\ InOrder /\ AwaitedThere /\ KeptRight /\ ArgumentsWhole
      /\ Ahead \in Seq(Bytes) /\ ToHost \in Seq(Bytes) /\ Len(asked) \in Nat /\ Len(Ahead) \in Nat
  BY Fields, Lines DEF ControlInv
<1>2. PICK id \in Ids : id = executing /\ id \in Nat /\ id <= Len(asked)
  <2>1. executing \in Ids
    BY <1>1 DEF CtlTypeOK
  <2>2. QED
    BY <1>1, <2>1 DEF Ids
<1>3. Below(ToHost, id) /\ Above(Ahead, id) /\ Answer(id) /\ port' = port
  BY <1>1, <1>2 DEF InOrder
<1>4. /\ toHost' \in Seq(Bytes) /\ ToHost' \in Seq(Bytes) /\ Chain(ToHost') /\ UpTo(ToHost', id)
      /\ \A x : WholeIn(ToHost, x) => WholeIn(ToHost', x)
      /\ port.phase # "closed" => WholeIn(ToHost', id)
      /\ \A c : Above(ToHost, c) /\ c < id => Above(ToHost', c)
      /\ \A i \in 1 .. Len(ToHost') : ToHost'[i].of = id \/ \E j \in 1 .. Len(ToHost) : ToHost'[i].of = ToHost[j].of
  BY <1>3, AnswerIs, Zenon
<1>5. Ahead' = Ahead
  BY DEF Ahead, Unsent
<1>6. CtlTypeOK'
  BY <1>1, <1>4 DEF CtlTypeOK, Ids
<1>7. UpTo(ToHost', Len(asked))
  <2>1. ASSUME NEW i \in 1 .. Len(ToHost') PROVE ToHost'[i].of <= Len(asked)
    <3>1. ToHost'[i].of <= id /\ ToHost'[i].of \in Nat
      BY <1>4, Elements DEF UpTo
    <3>2. QED
      BY <1>1, <1>2, <3>1
  <2>2. QED
    BY <2>1 DEF UpTo
<1>8. LinesOK'
  BY <1>1, <1>4, <1>5, <1>7 DEF LinesOK
<1>9. InOrder'
  <2>1. \A i \in 1 .. Len(ToHost') : Above(Ahead, ToHost'[i].of)
    BY <1>1, <1>3, <1>4 DEF InOrder
  <2>2. pending # 0 => Below(ToHost', pending) /\ 0 < pending
    <3> SUFFICES ASSUME pending # 0 PROVE Below(ToHost', pending) /\ 0 < pending
      OBVIOUS
    <3>1. PICK p \in Nat : p = pending /\ id < p /\ Below(ToHost, p)
      BY <1>1, <1>2, Fields DEF InOrder
    <3>2. ASSUME NEW i \in 1 .. Len(ToHost') PROVE ToHost'[i].of < p
      BY <1>4, <3>1 DEF Below
    <3>3. 0 < p
      BY <1>2, <3>1
    <3>4. QED
      BY <3>1, <3>2, <3>3 DEF Below
  <2>3. QED
    BY <1>1, <1>5, <2>1, <2>2 DEF InOrder
<1>10. PortOK' /\ TidyOK' /\ AwaitedThere' /\ ProcessKnown' /\ OwnReply'
  <2>1. 0 \in 0 .. Len(Ahead) /\ IsDrop(Ahead, 0, Ahead') /\ ~(0 > 0)
    BY <1>1, <1>5, LineKept
  <2>2. port.phase = "writing" => EndsWith(Ahead', Len(asked), FrameBytes)
    BY <1>1, <1>5 DEF PortOK
  <2>3. port.phase # "closed" => \A x \in Ids : Where(x) => Where(x)'
    BY <1>2, <1>4, <1>5 DEF Where, Ids
  <2>4. \A c : Above(ToHost, c) /\ executing > c => Above(ToHost', c)
    BY <1>2, <1>4
  <2>5. QED
    BY <2>1, <2>2, <2>3, <2>4, DeviceKeeps
<1>11. KeptRight' /\ ArgumentsWhole'
  <2>1. \A z : HighBefore(z)' = HighBefore(z)
    BY DEF HighBefore
  <2>2. QED
    BY <1>1, <2>1 DEF KeptRight, ArgumentsWhole
<1>12. QED
  BY <1>6, <1>8, <1>9, <1>10, <1>11 DEF ControlInv

LEMMA RunReturnsKeeps == ASSUME ControlInv, RunReturns PROVE ControlInv'
BY AnsweredKeeps DEF RunReturns

LEMMA FpgaAnswersKeeps == ASSUME ControlInv, FpgaAnswers PROVE ControlInv'
BY AnsweredKeeps DEF FpgaAnswers

LEMMA FpgaTakesKeeps == ASSUME ControlInv, FpgaTakes PROVE ControlInv'
<1>1. /\ CtlTypeOK /\ PortOK /\ LinesOK /\ TidyOK /\ InOrder /\ AwaitedThere /\ KeptRight /\ ArgumentsWhole
      /\ Ahead \in Seq(Bytes) /\ ToHost \in Seq(Bytes) /\ Len(asked) \in Nat /\ Len(Ahead) \in Nat
  BY Fields, Lines DEF ControlInv
<1>2. /\ device = "fpga" /\ pending # 0 /\ executing = 0 /\ executing' = pending /\ pending' = 0
      /\ executed' = executed \cup {[id |-> pending, high |-> 0]}
      /\ UNCHANGED <<device, asked, opens, port, toDevice, toHost, request, arg_high, seen, answers>>
  BY DEF FpgaTakes
<1>3. PICK id \in Ids : id = pending /\ Below(ToHost, id) /\ Above(Ahead, id)
  BY <1>1, <1>2 DEF CtlTypeOK, InOrder
<1>4. Ahead' = Ahead /\ ToHost' = ToHost
  BY <1>2 DEF Ahead, Unsent, ToHost
<1>5. CtlTypeOK'
  <2>1. executed' \in SUBSET [id : Ids, high : Nat]
    BY <1>1, <1>2, <1>3 DEF CtlTypeOK
  <2>2. QED
    BY <1>1, <1>2, <1>3, <2>1 DEF CtlTypeOK, Ids
<1>6. LinesOK'
  BY <1>1, <1>2, <1>4 DEF LinesOK
<1>7. InOrder'
  <2>1. \A e \in executed' : Above(Ahead, e.id)
    BY <1>1, <1>2, <1>3 DEF InOrder
  <2>2. QED
    BY <1>1, <1>2, <1>3, <1>4, <2>1 DEF InOrder
<1>8. PortOK' /\ TidyOK' /\ AwaitedThere' /\ ProcessKnown' /\ OwnReply'
  <2>1. 0 \in 0 .. Len(Ahead) /\ IsDrop(Ahead, 0, Ahead') /\ ~(0 > 0)
    BY <1>1, <1>4, LineKept
  <2>2. port.phase = "writing" => EndsWith(Ahead', Len(asked), FrameBytes)
    BY <1>1, <1>4 DEF PortOK
  <2>3. \A x \in Ids : Where(x) => Where(x)'
    BY <1>2, <1>4 DEF Where, Ids
  <2>4. QED
    BY <1>2, <1>4, <2>1, <2>2, <2>3, DeviceKeeps
<1>9. KeptRight' /\ ArgumentsWhole'
  <2>1. seen' \in SUBSET Ids
    BY <1>1, <1>2 DEF CtlTypeOK
  <2>2. QED
    BY <1>2, <2>1, FpgaArguments
<1>10. QED
  BY <1>5, <1>6, <1>7, <1>8, <1>9 DEF ControlInv

LEMMA FpgaReceivesKeeps == ASSUME ControlInv, FpgaReceives PROVE ControlInv'
<1>1. CtlTypeOK /\ PortOK /\ LinesOK /\ TidyOK /\ InOrder /\ AwaitedThere /\ KeptRight /\ FrameBytes \in Nat /\ FrameBytes > 0
      /\ Ahead \in Seq(Bytes) /\ ToHost \in Seq(Bytes) /\ Chain(Ahead) /\ Len(asked) \in Nat
      /\ toDevice \in Seq(Bytes) /\ request \in Seq(Bytes) /\ Len(Ahead) \in Nat
  BY Fields, Lines, FrameLength DEF ControlInv, LinesOK
<1>2. /\ device = "fpga" /\ Takes /\ Len(Received) = FrameBytes /\ request' = <<>>
      /\ pending' = (IF Intact(Received) THEN Received[1].of ELSE pending)
      /\ toDevice # <<>> /\ toDevice' = Tail(toDevice) /\ seen' = seen \cup {Head(toDevice).of}
      /\ UNCHANGED <<device, asked, opens, port, answers, toHost, arg_high, executing, executed>>
  BY DEF FpgaReceives, Takes
<1>3. Intact(Received)
  <2>1. PICK b \in Seq(Bytes), h \in Seq(Bytes) : b = Received /\ h = Tail(toDevice) \o Unsent
    BY <1>2, TakesIs
  <2>2. Ahead = b \o h /\ Len(b) <= Len(Ahead)
    BY <1>2, <2>1, TakesIs
  <2>3. Len(b) >= FrameBytes /\ Len(Ahead) >= FrameBytes
    BY <1>1, <1>2, <2>1, <2>2
  <2>4. Tidy(Ahead)
    BY <1>1, <1>2 DEF TidyOK
  <2>5. Intact(Ahead)
    BY <1>1, <2>3, <2>4, TidyIntact
  <2>6. Intact(b) <=> Intact(b \o h)
    BY <2>3, IntactCat
  <2>7. QED
    BY <2>1, <2>2, <2>5, <2>6
<1>4. PICK id \in Ids :
             /\ id = Received[1].of /\ id = Head(toDevice).of
             /\ FrameBytes \in 0 .. Len(Ahead) /\ IsDrop(Ahead, FrameBytes, Ahead')
             /\ (Ahead' # <<>> => Ahead'[1].place = 1) /\ Above(Ahead', id)
             /\ (\A x : WholeIn(Ahead, x) => x = id \/ WholeIn(Ahead', x))
             /\ (port.phase = "writing" => EndsWith(Ahead', Len(asked), FrameBytes))
             /\ (\A c : Above(Ahead, c) => c < id)
             /\ (\A j \in seen' : j \in Nat /\ j <= id)
  BY <1>2, <1>3, FrameTaken
<1>5. pending' = id /\ seen' = seen \cup {id}
  BY <1>2, <1>3, <1>4
<1>6. ToHost' = ToHost
  BY <1>2 DEF ToHost
<1>7. Below(ToHost, id) /\ id \in Nat /\ id > 0 /\ id <= Len(asked) /\ executing < id /\ (pending # 0 => pending < id)
  <2>1. id \in Nat /\ id > 0 /\ id <= Len(asked)
    BY <1>1, <1>4 DEF Ids
  <2>2. Below(ToHost, id)
    BY <1>1, <1>4 DEF InOrder, Below
  <2>3. executing < id
    <3>1. CASE executing = 0
      BY <2>1, <3>1
    <3>2. CASE executing # 0
      BY <1>1, <1>4, <3>2 DEF InOrder
    <3>3. QED
      BY <3>1, <3>2
  <2>4. pending # 0 => pending < id
    BY <1>1, <1>4 DEF InOrder
  <2>5. QED
    BY <2>1, <2>2, <2>3, <2>4
<1>8. Within(Ahead', Ahead) /\ Chain(Ahead') /\ Ahead' \in Seq(Bytes)
  <2>1. Ahead' \in Seq(Bytes)
    BY <1>4 DEF IsDrop
  <2>2. QED
    BY <1>1, <1>4, <2>1, DropWithin, DropChain
<1>9. \A c : Above(Ahead, c) => Above(Ahead', c)
  BY <1>8, WithinBounds
<1>10. CtlTypeOK'
  <2>1. seen' \in SUBSET Ids
    BY <1>1, <1>4, <1>5 DEF CtlTypeOK
  <2>2. toDevice' \in Seq(Bytes) /\ request' \in Seq(Bytes)
    BY <1>1, <1>2
  <2>3. QED
    BY <1>1, <1>2, <1>4, <1>5, <2>1, <2>2 DEF CtlTypeOK, Ids
<1>11. LinesOK'
  <2>1. UpTo(Ahead', Len(asked))
    BY <1>1, <1>8, WithinBounds DEF LinesOK
  <2>2. Len(request') < FrameBytes
    BY <1>1, <1>2
  <2>3. QED
    BY <1>1, <1>2, <1>4, <1>6, <1>8, <2>1, <2>2 DEF LinesOK
<1>12. InOrder'
  <2>1. \A j \in seen' : Above(Ahead', j)
    BY <1>4, <1>7, <1>8, AboveMore
  <2>2. \A i \in 1 .. Len(request') : request'[i].of \in seen'
    BY <1>2
  <2>3. (\A i \in 1 .. Len(ToHost) : Above(Ahead', ToHost[i].of)) /\ \A e \in executed : Above(Ahead', e.id)
    BY <1>1, <1>9 DEF InOrder
  <2>4. executing # 0 => Below(ToHost, executing) /\ Above(Ahead', executing)
    BY <1>1, <1>9 DEF InOrder
  <2>5. Below(ToHost, id) /\ Above(Ahead', id) /\ executing < id
    BY <1>4, <1>7
  <2>6. QED
    BY <1>2, <1>5, <1>6, <2>1, <2>2, <2>3, <2>4, <2>5 DEF InOrder
<1>13. PortOK' /\ TidyOK' /\ AwaitedThere' /\ ProcessKnown' /\ OwnReply'
  <2>1. port.phase # "closed" => \A x \in Ids \cap {port.waiting, port.then} : Where(x) => Where(x)'
    <3> SUFFICES ASSUME port.phase # "closed", NEW x \in Ids \cap {port.waiting, port.then}, Where(x) PROVE Where(x)'
      OBVIOUS
    <3>1. x # 0 /\ x \in Ids
      BY DEF Ids
    <3>2. \A y \in Ids : asked[y].op \in {"info", "set"}
      BY <1>1, <1>2 DEF CtlTypeOK
    <3>3. port.then = 0
      <4>1. port.then # 0 => port.then \in Ids /\ asked[port.then].op = "stop"
        BY <1>1, Fields DEF PortOK
      <4>2. QED
        BY <3>2, <4>1
    <3>4. x = port.waiting
      BY <3>1, <3>3
    <3>5. port.phase = "waiting"
      <4>1. port.phase = "idle" => port.waiting = 0
        BY <1>1 DEF PortOK
      <4>2. port.phase = "writing" => port.waiting = 0
        <5>1. port.phase = "writing" => IF asked[Len(asked)].op = "stop" THEN port.waiting # 0 /\ asked[port.waiting].op = "run"
                                        ELSE port.waiting = 0
          BY <1>1 DEF PortOK
        <5>2. port.waiting # 0 => port.waiting \in Ids
          BY <1>1, Fields
        <5>3. QED
          BY <3>2, <5>1, <5>2
      <4>3. port.phase \in {"closed", "idle", "writing", "waiting"}
        BY <1>1, Fields DEF Phases
      <4>4. QED
        BY <3>1, <3>4, <4>1, <4>2, <4>3
    <3>6. x = Len(asked)
      BY <1>1, <1>2, <3>4, <3>5 DEF AwaitedThere
    <3>7. x # pending
      BY <1>1, <1>7, <3>1, <3>6
    <3>8. WholeIn(Ahead', x) \/ x = id \/ x = executing \/ WholeIn(ToHost, x)
      BY <1>4, <3>7 DEF Where
    <3>9. QED
      BY <1>2, <1>5, <1>6, <3>8 DEF Where
  <2>2. \A c : Above(Ahead, c) => pending' > c
    BY <1>4, <1>5
  <2>3. QED
    BY <1>2, <1>4, <1>5, <1>6, <2>1, <2>2, DeviceKeeps
<1>14. KeptRight' /\ ArgumentsWhole'
  <2>1. seen' \in SUBSET Ids
    BY <1>1, <1>4, <1>5 DEF CtlTypeOK
  <2>2. QED
    BY <1>2, <2>1, FpgaArguments
<1>15. QED
  BY <1>10, <1>11, <1>12, <1>13, <1>14 DEF ControlInv

LEMMA AbandonKeeps == ASSUME ControlInv, Abandon PROVE ControlInv'
<1>1. CtlTypeOK /\ PortOK /\ LinesOK /\ TidyOK /\ InOrder /\ AwaitedThere /\ KeptRight /\ ArgumentsWhole
      /\ FrameBytes \in Nat /\ FrameBytes > 0
      /\ Ahead \in Seq(Bytes) /\ ToHost \in Seq(Bytes) /\ Chain(Ahead) /\ Len(asked) \in Nat
      /\ request \in Seq(Bytes) /\ Len(Ahead) \in Nat /\ Unsent \in Seq(Bytes) /\ Len(request) \in Nat
      /\ Len(Ahead) = Len(request) + Len(toDevice) + Len(Unsent)
      /\ Len(Unsent) = (IF port.phase = "writing" THEN FrameBytes - port.written ELSE 0) /\ port.written \in Nat
  <2>1. CtlTypeOK /\ PortOK /\ LinesOK /\ TidyOK /\ InOrder /\ AwaitedThere /\ KeptRight /\ ArgumentsWhole /\ Chain(Ahead)
    BY DEF ControlInv, LinesOK
  <2>2. Len(asked) \in Nat /\ request \in Seq(Bytes) /\ port.written \in Nat
    BY <2>1, Fields
  <2>3. Ahead \in Seq(Bytes) /\ ToHost \in Seq(Bytes) /\ Unsent \in Seq(Bytes)
        /\ Len(Ahead) = Len(request) + Len(toDevice) + Len(Unsent)
        /\ Len(Unsent) = IF port.phase = "writing" THEN FrameBytes - port.written ELSE 0
    BY <2>1, Lines
  <2>4. Len(Ahead) \in Nat /\ Len(request) \in Nat
    BY <2>2, <2>3
  <2>5. QED
    BY <2>1, <2>2, <2>3, <2>4, FrameLength
<1>2. /\ request # <<>> /\ toDevice = <<>> /\ ~(port.phase = "writing" /\ port.written > 0) /\ request' = <<>> /\ arg_high' = 0
      /\ UNCHANGED <<device, asked, opens, port, toDevice, toHost, pending, executing, seen, executed, answers>>
  BY DEF Abandon
<1>3. PICK q \in Seq(Bytes), u \in Seq(Bytes) : q = request /\ u = Unsent
  BY <1>1
<1>4. Ahead = q \o u /\ Ahead' = u
  <2>1. Unsent' = u
    BY <1>2, <1>3 DEF Unsent
  <2>2. Ahead = (q \o <<>>) \o u /\ Ahead' = (<<>> \o <<>>) \o u
    BY <1>2, <1>3, <2>1 DEF Ahead
  <2>3. q \o <<>> = q /\ <<>> \o <<>> = <<>> /\ <<>> \o u = u
    BY ConcatEmptySeq, EmptySeq
  <2>4. QED
    BY <2>2, <2>3
<1>5. PICK m \in 0 .. Len(Ahead) : m = Len(request) /\ m \in Nat /\ m >= 1 /\ m < FrameBytes /\ IsDrop(Ahead, m, Ahead')
  <2>1. Len(q) \in 0 .. Len(q \o u) /\ IsDrop(q \o u, Len(q), u)
    BY CatParts
  <2>2. Len(request) \in 0 .. Len(Ahead) /\ IsDrop(Ahead, Len(request), Ahead')
    BY <1>3, <1>4, <2>1
  <2>3. Len(request) >= 1 /\ Len(request) < FrameBytes
    BY <1>1, <1>2 DEF LinesOK
  <2>4. QED
    BY <1>1, <2>2, <2>3
<1>6. ToHost' = ToHost
  BY <1>2 DEF ToHost
<1>7. port.phase = "writing" => /\ Len(Ahead) = m + FrameBytes /\ EndsWith(Ahead, Len(asked), FrameBytes)
                                /\ Ahead[m + 1].place = 1 /\ m + 1 \in 1 .. Len(Ahead)
  <2> SUFFICES ASSUME port.phase = "writing"
               PROVE  /\ Len(Ahead) = m + FrameBytes /\ EndsWith(Ahead, Len(asked), FrameBytes)
                      /\ Ahead[m + 1].place = 1 /\ m + 1 \in 1 .. Len(Ahead)
    OBVIOUS
  <2>1. port.written = 0 /\ Len(toDevice) = 0
    BY <1>1, <1>2
  <2>2. Len(Ahead) = m + FrameBytes
    BY <1>1, <1>5, <2>1
  <2>3. EndsWith(Ahead, Len(asked), FrameBytes)
    BY <1>1 DEF PortOK
  <2>4. 1 \in 1 .. FrameBytes /\ Len(Ahead) - FrameBytes + 1 = m + 1 /\ m + 1 \in 1 .. Len(Ahead)
    BY <1>1, <1>5, <2>2
  <2>5. Ahead[m + 1].place = 1
    BY <2>3, <2>4 DEF EndsWith, At
  <2>6. QED
    BY <2>2, <2>3, <2>4, <2>5
<1>8. port.phase # "writing" => Len(Ahead) = m /\ Ahead' = <<>>
  <2> SUFFICES ASSUME port.phase # "writing" PROVE Len(Ahead) = m /\ Ahead' = <<>>
    OBVIOUS
  <2>1. Len(Unsent) = 0 /\ Len(toDevice) = 0
    BY <1>1, <1>2
  <2>2. Len(Ahead) = m
    BY <1>1, <1>5, <2>1
  <2>3. u = <<>>
    BY <1>3, <2>1
  <2>4. QED
    BY <1>4, <2>2, <2>3
<1>9. Ahead' # <<>> => port.phase = "writing" /\ Ahead'[1].place = 1
  <2> SUFFICES ASSUME Ahead' # <<>> PROVE port.phase = "writing" /\ Ahead'[1].place = 1
    OBVIOUS
  <2>1. port.phase = "writing"
    BY <1>8
  <2>2. 1 \in 1 .. Len(Ahead')
    BY <1>5 DEF IsDrop
  <2>3. QED
    BY <1>5, <1>7, <2>1, <2>2 DEF IsDrop
<1>10. \A x : /\ WholeIn(Ahead, x) => WholeIn(Ahead', x)
              /\ EndsWith(Ahead, x, FrameBytes) => EndsWith(Ahead', x, FrameBytes)
  <2>1. ASSUME NEW x, NEW k \in 0 .. Len(Ahead) - FrameBytes, At(Ahead, k, x, FrameBytes) PROVE k >= m
    <3>1. port.phase = "writing"
      BY <1>1, <1>5, <1>8
    <3>2. ASSUME k < m PROVE FALSE
      <4>1. m + 1 - k \in 1 .. FrameBytes /\ k + (m + 1 - k) = m + 1 /\ m + 1 - k # 1
        <5>1. k \in Nat
          BY <1>1
        <5>2. m < FrameBytes /\ FrameBytes \in Nat
          BY <1>1, <1>5
        <5>3. QED
          BY ONLY <5>1, <5>2, <3>2, m \in Nat
      <4>2. Ahead[m + 1].place = m + 1 - k
        BY <2>1, <4>1 DEF At
      <4>3. QED
        BY <1>7, <3>1, <4>1, <4>2
    <3>3. k \in Nat
      BY <1>1
    <3>4. QED
      BY <1>5, <3>2, <3>3
  <2>2. QED
    BY <1>1, <1>5, <2>1, WholeKept
<1>11. Within(Ahead', Ahead) /\ Chain(Ahead') /\ Ahead' \in Seq(Bytes)
  BY <1>1, <1>4, <1>5, DropWithin, DropChain
<1>12. \A c : Above(Ahead, c) => Above(Ahead', c)
  BY <1>11, WithinBounds
<1>13. CtlTypeOK'
  BY <1>1, <1>2 DEF CtlTypeOK, Ids
<1>14. LinesOK'
  <2>1. UpTo(Ahead', Len(asked))
    BY <1>1, <1>11, WithinBounds DEF LinesOK
  <2>2. Len(request') < FrameBytes
    BY <1>1, <1>2
  <2>3. QED
    BY <1>1, <1>2, <1>6, <1>9, <1>11, <2>1, <2>2 DEF LinesOK
<1>15. \A i \in 1 .. Len(request) : i \in 1 .. Len(Ahead) /\ request[i] = Ahead[i]
  <2>1. \A i \in 1 .. Len(q) : (q \o u)[i] = q[i]
    BY CatIs
  <2>2. \A i \in 1 .. Len(request) : i \in 1 .. Len(Ahead)
    BY <1>1, <1>5
  <2>3. QED
    BY <1>3, <1>4, <2>1, <2>2
<1>16. InOrder'
  <2>1. ASSUME NEW j \in seen PROVE Above(Ahead', j)
    <3>1. CASE Above(Ahead, j)
      BY <1>12, <3>1
    <3>2. CASE ~Above(Ahead, j)
      <4>1. PICK i \in 1 .. Len(request) : request[i].of = j
        BY <1>1, <3>2 DEF InOrder
      <4>2. ASSUME NEW y \in 1 .. Len(Ahead') PROVE j < Ahead'[y].of
        <5>1. Ahead' # <<>>
          BY <1>11
        <5>2. Ahead[m + 1].place = 1 /\ m + 1 \in 1 .. Len(Ahead) /\ port.phase = "writing"
          BY <1>7, <1>9, <5>1
        <5>3. Ahead'[y] = Ahead[m + y] /\ Len(Ahead') = Len(Ahead) - m
          BY <1>5 DEF IsDrop
        <5>4. /\ i \in 1 .. Len(Ahead) /\ m + 1 \in i + 1 .. Len(Ahead) /\ m + y \in m + 1 .. Len(Ahead)
              /\ m + y \in 1 .. Len(Ahead)
          <6>1. PICK l \in Nat : l = Len(Ahead)
            BY <1>1
          <6>2. i \in 1 .. m /\ y \in 1 .. l - m /\ m + 1 <= l /\ m <= l
            BY <1>5, <5>2, <5>3, <6>1
          <6>3. i \in 1 .. l /\ m + 1 \in i + 1 .. l /\ m + y \in m + 1 .. l /\ m + y \in 1 .. l
            BY ONLY <6>2, m \in Nat, l \in Nat, <1>5
          <6>4. QED
            BY <6>1, <6>3
        <5>5. Ahead[i].of < Ahead[m + 1].of
          BY <1>1, <5>2, <5>4, StartIsLater
        <5>6. Ahead[m + 1].of <= Ahead[m + y].of
          BY <1>1, <5>2, <5>4, Rising
        <5>7. Ahead[i].of = j
          BY <1>15, <4>1
        <5>8. PICK a \in Nat, b \in Nat, c \in Nat : a = Ahead[i].of /\ b = Ahead[m + 1].of /\ c = Ahead[m + y].of
          <6>1. Ahead[i].of \in Nat /\ Ahead[m + 1].of \in Nat /\ Ahead[m + y].of \in Nat
            BY <1>1, <5>2, <5>4, Elements
          <6>2. QED
            BY <6>1
        <5>9. a < c
          <6>1. a < b /\ b <= c
            BY <5>5, <5>6, <5>8
          <6>2. QED
            BY ONLY <6>1, a \in Nat, b \in Nat, c \in Nat
        <5>10. QED
          BY <5>3, <5>7, <5>8, <5>9
      <4>3. QED
        BY <4>2 DEF Above
    <3>3. QED
      BY <3>1, <3>2
  <2>2. QED
    BY <1>1, <1>2, <1>6, <1>12, <2>1 DEF InOrder
<1>17. PortOK' /\ TidyOK' /\ AwaitedThere' /\ ProcessKnown' /\ OwnReply'
  <2>1. port.phase = "writing" => EndsWith(Ahead', Len(asked), FrameBytes)
    BY <1>7, <1>10
  <2>2. \A x \in Ids : Where(x) => Where(x)'
    BY <1>2, <1>6, <1>10 DEF Where
  <2>3. QED
    BY <1>2, <1>5, <1>6, <1>9, <2>1, <2>2, DeviceKeeps
<1>18. ArgumentsWhole'
  <2>1. \A z : HighBefore(z)' = HighBefore(z)
    BY <1>2 DEF HighBefore
  <2>2. QED
    BY <1>1, <1>2, <2>1 DEF ArgumentsWhole
<1>19. KeptRight'
  <2>1. 1 \in 1 .. Len(request) /\ 1 \in 1 .. Len(Ahead)
    BY <1>1, <1>5
  <2>2. PICK x \in seen : x = request[1].of /\ x = Ahead[1].of
    BY <1>1, <1>15, <2>1 DEF InOrder
  <2>3. \A e \in executed : e.id < x
    BY <1>1, <2>1, <2>2 DEF InOrder, Above
  <2>4. seen \in SUBSET (1 .. Len(asked)) /\ executed \in SUBSET [id : 1 .. Len(asked), high : Nat]
    BY <1>1 DEF CtlTypeOK, Ids
  <2>5. HighIn(seen, executed, asked) = 0
    BY <1>1, <2>3, <2>4, NoneKept
  <2>6. QED
    BY <1>2, <2>5 DEF KeptRight
<1>20. QED
  BY <1>13, <1>14, <1>16, <1>17, <1>18, <1>19 DEF ControlInv

LEMMA ControlStarts == ControlInit => ControlInv
<1> SUFFICES ASSUME ControlInit PROVE ControlInv
  OBVIOUS
<1>1. /\ device \in {"esp", "fpga"} /\ asked = <<>> /\ opens = 0 /\ port = Closed
      /\ toDevice = <<>> /\ toHost = <<>> /\ request = <<>> /\ arg_high = 0
      /\ pending = 0 /\ executing = 0 /\ seen = {} /\ executed = {} /\ answers = {}
  BY DEF ControlInit
<1>2. /\ port.phase = "closed" /\ port.sequence = 0 /\ port.written = 0 /\ port.frame = <<>> /\ port.waiting = 0
      /\ port.then = 0 /\ port.buffer = <<>>
  BY <1>1 DEF Closed
<1>3. Ahead = <<>> /\ ToHost = <<>> /\ Len(asked) = 0 /\ FrameBytes \in Nat /\ FrameBytes > 0
  <2>1. Unsent = <<>>
    BY <1>2 DEF Unsent
  <2>2. <<>> \o <<>> = <<>>
    BY ConcatEmptySeq, EmptySeq
  <2>3. QED
    BY <1>1, <1>2, <2>1, <2>2, FrameLength DEF Ahead, ToHost
<1>4. CtlTypeOK
  <2>1. <<>> \in Seq(Bytes) /\ <<>> \in Seq(Asked)
    OBVIOUS
  <2>2. port \in [phase : Phases, sequence : Nat, written : Nat, frame : Seq(Bytes), waiting : {0} \cup Ids,
                  then : {0} \cup Ids, buffer : Seq(Bytes)]
    BY <1>1, <2>1 DEF Closed, Phases
  <2>3. QED
    BY <1>1, <1>3, <2>1, <2>2 DEF CtlTypeOK, Ids
<1>5. PortOK
  BY <1>1, <1>2 DEF PortOK
<1>6. LinesOK /\ TidyOK
  BY <1>1, <1>3 DEF LinesOK, TidyOK, Chain, UpTo, Tidy
<1>7. InOrder
  BY <1>1, <1>3 DEF InOrder
<1>8. AwaitedThere
  BY <1>2 DEF AwaitedThere
<1>9. KeptRight
  BY <1>1 DEF KeptRight, HighIn
<1>10. ProcessKnown
  BY <1>1, <1>2, <1>3 DEF ProcessKnown, OfProcess
<1>11. ArgumentsWhole /\ OwnReply
  BY <1>1 DEF ArgumentsWhole, OwnReply
<1>12. QED
  BY <1>4, <1>5, <1>6, <1>7, <1>8, <1>9, <1>10, <1>11 DEF ControlInv

LEMMA ControlStutters == ASSUME ControlInv, UNCHANGED line PROVE ControlInv'
<1>1. UNCHANGED <<device, asked, opens, port, toDevice, toHost, request, arg_high, pending, executing, seen, executed, answers>>
  BY DEF line
<1>2. Ahead' = Ahead /\ ToHost' = ToHost /\ Base' = Base /\ Ids' = Ids
  BY <1>1 DEF Ahead, Unsent, ToHost, Base, Ids
<1>3. CtlTypeOK' /\ PortOK' /\ LinesOK' /\ TidyOK' /\ InOrder'
  BY <1>1, <1>2 DEF ControlInv, CtlTypeOK, PortOK, LinesOK, TidyOK, InOrder
<1>4. AwaitedThere' /\ KeptRight' /\ ProcessKnown'
  BY <1>1, <1>2 DEF ControlInv, AwaitedThere, Where, KeptRight, ProcessKnown, OfProcess, OwnFirst
<1>5. ArgumentsWhole' /\ OwnReply'
  BY <1>1 DEF ControlInv, ArgumentsWhole, HighBefore, OwnReply, First
<1>6. QED
  BY <1>3, <1>4, <1>5 DEF ControlInv

LEMMA ControlSteps == ControlInv /\ [ControlNext]_line => ControlInv'
<1> SUFFICES ASSUME ControlInv, [ControlNext]_line PROVE ControlInv'
  OBVIOUS
<1>1. CASE HostActs
  <2>1. CASE Open
    BY <2>1, OpenKeeps
  <2>2. CASE Ask
    BY <2>2, AskKeeps
  <2>3. CASE StopRun
    BY <2>3, StopRunKeeps
  <2>4. CASE Write
    BY <2>4, WriteKeeps
  <2>5. CASE Read
    BY <2>5, ReadKeeps
  <2>6. CASE Parse
    BY <2>6, ParseKeeps
  <2>7. CASE StopUnanswered
    BY <2>7, StopUnansweredKeeps
  <2>8. CASE Close
    BY <2>8, CloseKeeps
  <2>9. QED
    BY <1>1, <2>1, <2>2, <2>3, <2>4, <2>5, <2>6, <2>7, <2>8 DEF HostActs
<1>2. CASE DeviceActs
  <2>1. CASE Byte
    BY <2>1, ByteKeeps
  <2>2. CASE EspResyncs
    BY <2>2, EspResyncsKeeps
  <2>3. CASE EspExecutes
    BY <2>3, EspExecutesKeeps
  <2>4. CASE RunReturns
    BY <2>4, RunReturnsKeeps
  <2>5. CASE FpgaReceives
    BY <2>5, FpgaReceivesKeeps
  <2>6. CASE FpgaTakes
    BY <2>6, FpgaTakesKeeps
  <2>7. CASE FpgaAnswers
    BY <2>7, FpgaAnswersKeeps
  <2>8. CASE Abandon
    BY <2>8, AbandonKeeps
  <2>9. QED
    BY <1>2, <2>1, <2>2, <2>3, <2>4, <2>5, <2>6, <2>7, <2>8 DEF DeviceActs
<1>3. CASE UNCHANGED line
  BY <1>3, ControlStutters
<1>4. QED
  BY <1>1, <1>2, <1>3 DEF ControlNext

\* From the first process that opens the port on, both lines are chains of
\* frames, requests are where their order says, and the kept half of an
\* argument is that of the last request seen (main.c:226-275, serial.cpp:95-150).
THEOREM ControlInvariance == ControlSpec => []ControlInv
<1>1. QED
  BY ControlStarts, ControlSteps, PTL DEF ControlSpec

\* A request awaited that is nowhere on the line is with the device.
LEMMA HeardFromInv == ControlInv => Heard
<1> SUFFICES ASSUME ControlInv, port.phase = "waiting", Len(port.buffer) < FrameBytes, toDevice = <<>>, toHost = <<>>
             PROVE  port.waiting \in {pending, executing}
  BY DEF Heard
<1>1. CtlTypeOK /\ PortOK /\ LinesOK /\ AwaitedThere /\ Ahead \in Seq(Bytes) /\ ToHost \in Seq(Bytes) /\ Len(request) \in Nat
      /\ Len(port.buffer) \in Nat /\ Len(Ahead) = Len(request) + Len(toDevice) + Len(Unsent)
      /\ Len(Unsent) = (IF port.phase = "writing" THEN FrameBytes - port.written ELSE 0)
      /\ Len(ToHost) = Len(port.buffer) + Len(toHost)
  BY Fields, Lines DEF ControlInv
<1>2. Len(toDevice) = 0 /\ Len(toHost) = 0
  OBVIOUS
<1>3. Len(Ahead) < FrameBytes /\ Len(ToHost) < FrameBytes
  BY <1>1, <1>2 DEF LinesOK
<1>4. port.waiting # 0 /\ Where(port.waiting)
  BY <1>1 DEF PortOK, AwaitedThere
<1>5. ~WholeIn(Ahead, port.waiting) /\ ~WholeIn(ToHost, port.waiting)
  BY <1>1, <1>3, ShortHasNone
<1>6. QED
  BY <1>4, <1>5 DEF Where

\* A request is executed with the high half of its argument exactly when the
\* request before it was an ARG_HIGH that was executed (main.c:243, 259); no
\* stale reply is taken for an answer once the first was not (serial.cpp:139);
\* and a process waits only for a request that the device has in hand.
THEOREM ControlExactAlways == ControlSpec => []ControlExact
<1>1. ControlInv => ControlExact
  BY HeardFromInv DEF ControlInv, ControlExact
<1>2. QED
  BY <1>1, ControlInvariance, PTL
=============================================================================
