-------------------------- MODULE HostPartsProofs ---------------------------
(***************************************************************************)
(* What the host does for the browser, for every value of the constants.   *)
(*                                                                         *)
(* The web server: ServedInOrder, for any number of connections and any    *)
(* number of acts of their peers.  What is known of a connection while it  *)
(* is served, in HTTP and then in frames, is kept by the handling of every *)
(* item, by every outcome of a write and by the death of the connection.   *)
(*                                                                         *)
(* The viewer: ViewerExact.  The bytes in flight are a sum over a sequence *)
(* that grows at its end and is cut at its front; sequence numbers count   *)
(* modulo their width; the frame that waits is a mean or a maximum.        *)
(*                                                                         *)
(* The decoder, for any number of workers, jobs and queue slots: while     *)
(* there is no error, ordered_ holds exactly the jobs that have been       *)
(* submitted and not yet counted, in order, so the job the writer takes is *)
(* the next one, and the span and the CRC it is checked against are those  *)
(* of the jobs before it.                                                  *)
(*                                                                         *)
(* The spectrum engine: FramesInOrder, for any settings, any sizes of the  *)
(* batches and any queue.  The engine works on the samples up to a         *)
(* horizon, and all that waits is behind it; a slot of a frame is without  *)
(* its block only when a sample of the frame's period is missing for good. *)
(***************************************************************************)
EXTENDS WebServer, Viewer, StreamDecoder, Spectrum, FiniteSetTheorems, SequenceTheorems, NaturalsInduction,
        WellFoundedInduction, TLAPS

-----------------------------------------------------------------------------
(* The web server.                                                         *)
(* What is kept of a connection.                                           *)
Items == Requests \cup Frames
Sends == {"response", "101", "text", "ping", "pong", "close"}
Events == {"open", "text", "close"}
Records == [stage : {"none", "served", "removed"}, websocket : BOOLEAN, closing : BOOLEAN,
            draining : BOOLEAN, dead : BOOLEAN, input : Seq(Items), output : Seq(Sends), begun : BOOLEAN]

WebTypeOK ==
    /\ connection \in [Connections -> Records]
    /\ busy \in Connections \cup {0} /\ ended \in BOOLEAN /\ client \in Connections \cup {0}
    /\ arrived \in [Connections -> Seq(Items)] /\ said \in [Connections -> Seq(Items)]
    /\ peer \in [Connections -> {"open", "ended", "reset"}]
    /\ wire \in [Connections -> Seq(Sends)] /\ calls \in [Connections -> Seq(Events)]
    /\ left \in [Connections -> {"no", "unsent", "ended", "timeout"}]

\* The handlers have been told of the opening, and of texts only since.
Opened(k) == k # <<>> /\ k[1] = "open" /\ \A i \in DOMAIN k : i > 1 => k[i] = "text"
\* They have been told of everything up to the end.
HeardOut(k) ==
    \A i \in DOMAIN k : k[i] = IF i = Len(k) THEN "close" ELSE IF i = 1 THEN "open" ELSE "text"

\* What a peer has been or will be sent is in order.
Ordered(w) ==
    /\ \A i, j \in DOMAIN w : i < j =>
           /\ w[i] # "response" => w[j] \notin {"response", "101"}
           /\ w[i] = "close" => w[j] = "close"
    /\ w # <<>> => w[1] \in {"response", "101"}

\* A connection that is served: r is its record, v all it has been or will be
\* sent, and s, a, p, k and l what `said', `arrived', `peer', `calls' and
\* `left' have of it.
InHttp(r, v, s, a, k) ==
    /\ k = <<>> /\ s \in Seq(Requests) /\ a \in Seq(Requests) /\ r.input \in Seq(Requests)
    /\ \A i \in DOMAIN v : v[i] = "response"
    /\ ~r.draining => Len(v) + Len(r.input) + Len(a) = Len(s)
InFrames(r, v, k) ==
    /\ Opened(k) \/ (r.dead /\ k = <<>>)
    /\ v # <<>> /\ Ordered(v)
TextsCounted(r, s, a, k) ==
    /\ Wholes(k) + Wholes(r.input) + Wholes(a) <= Wholes(s)
    /\ ~r.draining => Wholes(k) + Wholes(r.input) + Wholes(a) = Wholes(s)
Served(r, v, s, a, p, k, l) ==
    /\ r.draining => r.closing
    /\ r.websocket => InFrames(r, v, k)
    /\ ~r.websocket => InHttp(r, v, s, a, k)
    /\ ~r.closing => \A i \in DOMAIN v : v[i] # "close"
    /\ TextsCounted(r, s, a, k)
    /\ r.dead /\ l = "ended" /\ p = "ended" /\ ~r.closing => r.input = <<>> /\ a = <<>>

SoundRecord(r, v, s, a, p, k, l) ==
    IF r.stage = "served" THEN Served(r, v, s, a, p, k, l)
    ELSE /\ r = [Fresh EXCEPT !.stage = r.stage] /\ v = <<>> /\ s = <<>> /\ a = <<>>
         /\ IF r.stage = "none" THEN k = <<>> ELSE HeardOut(k)

\* The connection at hand: when its peer has ended, nothing more arrives.
AtHand == busy # 0 /\ ended => peer[busy] = "ended" /\ arrived[busy] = <<>>
ClientHeard == client # 0 => connection[client].stage = "served" /\ Opened(calls[client])
LeftEnded == \A c \in Connections : left[c] = "ended" => peer[c] # "open"
Sent(c) == wire[c] \o connection[c].output
AllSound == \A c \in Connections :
    SoundRecord(connection[c], Sent(c), said[c], arrived[c], peer[c], calls[c], left[c])
WebInv == WebTypeOK /\ AtHand /\ ClientHeard /\ LeftEnded /\ AllSound

-----------------------------------------------------------------------------
(* Whole messages in a sequence.                                           *)
WholeAt(q) == {i \in DOMAIN q : q[i] \in {"text", "end"}}

\* Their number is one.
LEMMA WholesAre ==
    ASSUME NEW S, NEW q \in Seq(S)
    PROVE  Wholes(q) = Cardinality(WholeAt(q)) /\ IsFiniteSet(WholeAt(q)) /\ Wholes(q) \in Nat
<1>1. DOMAIN q = 1 .. Len(q) /\ Len(q) \in Nat
  OBVIOUS
<1>2. IsFiniteSet(1 .. Len(q))
  BY <1>1, FS_Interval
<1>3. IsFiniteSet(WholeAt(q))
  BY <1>1, <1>2, FS_Subset DEF WholeAt
<1>4. QED
  BY <1>3, FS_CardinalityType DEF Wholes, WholeAt

\* A sequence behind another has its own.
LEMMA WholesJoin ==
    ASSUME NEW S, NEW q \in Seq(S), NEW t \in Seq(S)
    PROVE  Wholes(q \o t) = Wholes(q) + Wholes(t)
<1>1. /\ DOMAIN q = 1 .. Len(q) /\ Len(q) \in Nat /\ DOMAIN t = 1 .. Len(t) /\ Len(t) \in Nat
      /\ q \o t \in Seq(S) /\ DOMAIN (q \o t) = 1 .. Len(q) + Len(t)
      /\ \A i \in 1 .. Len(q) + Len(t) : (q \o t)[i] = IF i <= Len(q) THEN q[i] ELSE t[i - Len(q)]
  BY ConcatProperties
<1> DEFINE A == WholeAt(q)
           B == WholeAt(t)
           C == WholeAt(q \o t) \ A
           f == [i \in B |-> i + Len(q)]
<1>2. /\ IsFiniteSet(A) /\ IsFiniteSet(B) /\ IsFiniteSet(WholeAt(q \o t))
      /\ Wholes(q) = Cardinality(A) /\ Wholes(t) = Cardinality(B)
      /\ Wholes(q \o t) = Cardinality(WholeAt(q \o t))
  BY <1>1, WholesAre
<1>3. A \subseteq WholeAt(q \o t)
  BY <1>1 DEF WholeAt
<1>4. \A i : i \in C <=> i - Len(q) \in B /\ i \in Len(q) + 1 .. Len(q) + Len(t)
  BY <1>1 DEF WholeAt
<1>5. f \in Bijection(B, C)
  <2>1. \A i \in B : i \in Int /\ i + Len(q) \in C
    BY <1>1, <1>4 DEF WholeAt
  <2>2. \A i \in C : i - Len(q) \in B /\ f[i - Len(q)] = i
    BY <1>1, <1>4
  <2>3. f \in [B -> C]
    BY <2>1
  <2>4. \A i, j \in B : f[i] = f[j] => i = j
    BY <1>1, <2>1
  <2>5. \A j \in C : \E i \in B : f[i] = j
    BY <2>2
  <2> HIDE DEF f, B, C
  <2>6. f \in Injection(B, C)
    BY ONLY <2>3, <2>4 DEF Injection, IsInjective
  <2>7. f \in Surjection(B, C)
    BY ONLY <2>3, <2>5 DEF Surjection
  <2>8. QED
    BY ONLY <2>6, <2>7 DEF Bijection
<1>6. IsFiniteSet(C) /\ Cardinality(C) = Cardinality(B)
  BY <1>2, <1>5, FS_Bijection DEF ExistsBijection
<1>7. Cardinality(A \cup C) = Cardinality(A) + Cardinality(C)
  <2>1. A \cap C = {}
    OBVIOUS
  <2> HIDE DEF A, B, C
  <2>2. Cardinality(A \cup C) = Cardinality(A) + Cardinality(C) - Cardinality(A \cap C)
    BY <1>2, <1>6, FS_Union
  <2>3. Cardinality(A \cap C) = 0
    BY <2>1, FS_EmptySet
  <2>4. Cardinality(A) \in Nat /\ Cardinality(C) \in Nat
    BY <1>2, <1>6, FS_CardinalityType
  <2>5. QED
    BY <2>2, <2>3, <2>4
<1>8. A \cup C = WholeAt(q \o t)
  BY <1>3
<1>9. QED
  BY <1>2, <1>6, <1>7, <1>8

LEMMA WholesOne ==
    /\ Wholes(<<>>) = 0
    /\ \A x : Wholes(<<x>>) = IF x \in {"text", "end"} THEN 1 ELSE 0
<1>1. WholeAt(<<>>) = {}
  BY DEF WholeAt
<1>2. \A x : WholeAt(<<x>>) = IF x \in {"text", "end"} THEN {1} ELSE {}
  BY DEF WholeAt
<1>3. Wholes(<<>>) = Cardinality(WholeAt(<<>>)) /\ \A x : Wholes(<<x>>) = Cardinality(WholeAt(<<x>>))
  BY DEF WholeAt, Wholes
<1>4. Cardinality({}) = 0 /\ Cardinality({1}) = 1
  BY FS_EmptySet, FS_Singleton
<1>5. QED
  BY <1>1, <1>2, <1>3, <1>4

IsWhole(x) == IF x \in {"text", "end"} THEN 1 ELSE 0

LEMMA WholesAppend ==
    ASSUME NEW S, NEW q \in Seq(S), NEW x \in S
    PROVE  Wholes(Append(q, x)) = Wholes(q) + IsWhole(x)
<1>1. Append(q, x) = q \o <<x>> /\ <<x>> \in Seq(S)
  BY AppendIsConcat
<1>2. Wholes(q \o <<x>>) = Wholes(q) + Wholes(<<x>>)
  BY <1>1, WholesJoin
<1>3. QED
  BY <1>1, <1>2, WholesOne DEF IsWhole

LEMMA WholesTail ==
    ASSUME NEW S, NEW q \in Seq(S), q # <<>>
    PROVE  Wholes(q) = IsWhole(Head(q)) + Wholes(Tail(q))
<1>1. q = <<Head(q)>> \o Tail(q) /\ <<Head(q)>> \in Seq(S) /\ Tail(q) \in Seq(S)
  OBVIOUS
<1>2. Wholes(<<Head(q)>> \o Tail(q)) = Wholes(<<Head(q)>>) + Wholes(Tail(q))
  BY <1>1, WholesJoin
<1>3. QED
  BY <1>1, <1>2, WholesOne DEF IsWhole

-----------------------------------------------------------------------------
(* The order of what is sent.                                              *)
\* A frame keeps the order: behind a close frame only another one may be sent.
LEMMA OrderGrows ==
    ASSUME NEW w \in Seq(Sends), w # <<>>, Ordered(w), NEW x \in {"text", "ping", "pong", "close"},
           x = "close" \/ \A i \in DOMAIN w : w[i] # "close"
    PROVE  Append(w, x) \in Seq(Sends) /\ Append(w, x) # <<>> /\ Ordered(Append(w, x))
<1>1. x \in Sends
  BY DEF Sends
<1>2. PICK v \in Seq(Sends) : v = Append(w, x)
  <2>1. Append(w, x) \in Seq(Sends)
    BY <1>1, AppendProperties
  <2>2. QED
    BY <2>1
<1>3. /\ Len(v) = Len(w) + 1 /\ DOMAIN v = 1 .. Len(v) /\ DOMAIN w = 1 .. Len(w) /\ Len(w) \in Nat
      /\ v[Len(v)] = x /\ \A i \in 1 .. Len(w) : v[i] = w[i]
  BY <1>1, <1>2, AppendProperties
<1>4. Len(w) # 0
  OBVIOUS
<1>5. ASSUME NEW i \in DOMAIN v, NEW j \in DOMAIN v, i < j
      PROVE  /\ v[i] # "response" => v[j] \notin {"response", "101"}
             /\ v[i] = "close" => v[j] = "close"
  <2>1. i \in DOMAIN w /\ v[i] = w[i]
    BY <1>3, <1>5
  <2>2. CASE j \in DOMAIN w
    BY <1>3, <1>5, <2>1, <2>2 DEF Ordered
  <2>3. CASE j = Len(v)
    BY <1>3, <2>1, <2>3
  <2>4. QED
    BY <1>3, <2>2, <2>3
<1>6. v[1] \in {"response", "101"}
  BY <1>3, <1>4 DEF Ordered
<1>7. QED
  BY <1>2, <1>3, <1>5, <1>6 DEF Ordered

\* The 101 follows responses.
LEMMA OrderStarts ==
    ASSUME NEW w \in Seq(Sends), \A i \in DOMAIN w : w[i] = "response"
    PROVE  /\ Ordered(Append(w, "101")) /\ Append(w, "101") \in Seq(Sends) /\ Append(w, "101") # <<>>
           /\ \A i \in DOMAIN Append(w, "101") : Append(w, "101")[i] # "close"
           /\ Append(w, "response") \in Seq(Sends)
           /\ \A i \in DOMAIN Append(w, "response") : Append(w, "response")[i] = "response"
<1>1. ASSUME NEW x \in {"101", "response"}
      PROVE  /\ Append(w, x) \in Seq(Sends) /\ Len(Append(w, x)) = Len(w) + 1
             /\ DOMAIN Append(w, x) = 1 .. Len(w) + 1 /\ Len(w) \in Nat
             /\ \A i \in 1 .. Len(w) + 1 : Append(w, x)[i] = IF i = Len(w) + 1 THEN x ELSE "response"
  <2>1. x \in Sends
    BY DEF Sends
  <2>2. QED
    BY <2>1, AppendProperties
<1>2. /\ Append(w, "101") # <<>> /\ Append(w, "101") \in Seq(Sends)
      /\ \A i \in DOMAIN Append(w, "101") : Append(w, "101")[i] # "close"
  BY <1>1
<1>3. /\ Append(w, "response") \in Seq(Sends)
      /\ \A i \in DOMAIN Append(w, "response") : Append(w, "response")[i] = "response"
  BY <1>1
<1>4. PICK v \in Seq(Sends) : v = Append(w, "101")
  BY <1>2
<1>5. Ordered(v)
  <2>1. /\ DOMAIN v = 1 .. Len(w) + 1 /\ Len(w) \in Nat
        /\ \A i \in 1 .. Len(w) + 1 : v[i] = IF i = Len(w) + 1 THEN "101" ELSE "response"
    BY <1>1, <1>4
  <2>2. QED
    BY <2>1 DEF Ordered
<1>6. QED
  BY <1>2, <1>3, <1>4, <1>5

\* The beginning of a sequence that is in order is.
LEMMA OrderOfPart ==
    ASSUME NEW w \in Seq(Sends), NEW o \in Seq(Sends), Ordered(w \o o)
    PROVE  Ordered(w)
<1>1. PICK v \in Seq(Sends) : v = w \o o
  BY ConcatProperties
<1>2. /\ DOMAIN v = 1 .. Len(v) /\ DOMAIN w = 1 .. Len(w) /\ Len(w) \in Nat /\ Len(v) \in Nat /\ Len(v) >= Len(w)
      /\ \A i \in 1 .. Len(w) : v[i] = w[i]
  BY <1>1, ConcatProperties
<1>3. QED
  BY <1>1, <1>2 DEF Ordered

-----------------------------------------------------------------------------
(* What becomes of one connection in each step of its handling.            *)
Alright(r) == r \in Records /\ r.stage = "served" /\ ~r.dead

LEMMA JoinAppend ==
    ASSUME NEW S, NEW q \in Seq(S), NEW t \in Seq(S), NEW x \in S
    PROVE  q \o Append(t, x) = Append(q \o t, x) /\ Append(t, x) \in Seq(S) /\ q \o t \in Seq(S)
<1>1. Append(t, x) = t \o <<x>> /\ <<x>> \in Seq(S) /\ q \o t \in Seq(S)
  BY AppendIsConcat, ConcatProperties
<1>2. (q \o t) \o <<x>> = q \o (t \o <<x>>)
  BY <1>1, ConcatAssociative
<1>3. Append(q \o t, x) = (q \o t) \o <<x>>
  BY <1>1, AppendIsConcat
<1>4. Append(t, x) \in Seq(S)
  BY AppendProperties
<1>5. QED
  BY <1>1, <1>2, <1>3, <1>4

\* What flush leaves as it is.
KeptWhole(o, r, w) ==
    /\ o.r \in Records /\ o.taken \in Seq(Sends) /\ w \o o.taken \in Seq(Sends)
    /\ (w \o o.taken) \o o.r.output = w \o r.output
    /\ o.r.stage = r.stage /\ o.r.websocket = r.websocket /\ o.r.closing = r.closing
    /\ o.r.input = r.input /\ (o.r.draining => o.r.closing) /\ (~o.r.draining => ~r.draining)
    /\ (r.dead => o.r.dead)

\* flush: what has been or will be sent stays as it is.
LEMMA FlushedFields ==
    ASSUME NEW c \in Connections, NEW r \in Records, r.draining => r.closing, NEW w \in Seq(Sends), NEW o \in Flushed(c, r)
    PROVE  KeptWhole(o, r, w)
<1>1. r.output \in Seq(Sends) /\ r.draining \in BOOLEAN /\ r.closing \in BOOLEAN
  BY DEF Records
<1>2. w \o <<>> = w /\ (w \o r.output) \o <<>> = w \o r.output /\ w \o r.output \in Seq(Sends)
  BY <1>1, ConcatProperties, ConcatEmptySeq
<1> <<>> \in Seq(Sends)
  OBVIOUS
<1>3. CASE o = [r |-> [r EXCEPT !.dead = TRUE], taken |-> <<>>]
  <2>1. o.r = [r EXCEPT !.dead = TRUE] /\ o.taken = <<>>
    BY <1>3
  <2>2. o.r \in Records
    BY <2>1 DEF Records
  <2>3. /\ o.r.stage = r.stage /\ o.r.websocket = r.websocket /\ o.r.closing = r.closing
        /\ o.r.input = r.input /\ o.r.output = r.output /\ o.r.draining = r.draining /\ o.r.dead
    BY <2>1 DEF Records
  <2>4. QED
    BY <1>1, <1>2, <2>1, <2>2, <2>3 DEF KeptWhole
<1>4. CASE o = [r |-> [r EXCEPT !.output = <<>>, !.draining = r.closing], taken |-> r.output]
  <2>1. o.r = [r EXCEPT !.output = <<>>, !.draining = r.closing] /\ o.taken = r.output
    BY <1>4
  <2>2. o.r \in Records
    BY <1>1, <2>1 DEF Records
  <2>3. /\ o.r.stage = r.stage /\ o.r.websocket = r.websocket /\ o.r.closing = r.closing
        /\ o.r.input = r.input /\ o.r.output = <<>> /\ o.r.draining = r.closing /\ o.r.dead = r.dead
    BY <2>1 DEF Records
  <2>4. QED
    BY <1>1, <1>2, <2>1, <2>2, <2>3 DEF KeptWhole
<1>5. CASE o = [r |-> r, taken |-> <<>>]
  <2>1. o.r = r /\ o.taken = <<>>
    BY <1>5
  <2>2. QED
    BY <1>1, <1>2, <2>1 DEF KeptWhole
<1>6. QED
  BY <1>3, <1>4, <1>5 DEF Flushed

\* Whatever comes of a write, what is known of the connection holds.
LEMMA FlushServed ==
    ASSUME NEW c \in Connections, NEW r, Alright(r), NEW w \in Seq(Sends), NEW o \in Flushed(c, r),
           NEW s, NEW a, NEW p, NEW k, NEW l, Served(r, w \o r.output, s, a, p, k, l)
    PROVE  Served(o.r, (w \o o.taken) \o o.r.output, s, a, p, k, IF o.r.dead THEN "unsent" ELSE l)
<1>1. KeptWhole(o, r, w)
  <2>1. r \in Records /\ (r.draining => r.closing)
    BY DEF Alright, Served
  <2>2. QED
    BY <2>1, FlushedFields
<1>2. QED
  BY <1>1 DEF KeptWhole, Served, InHttp, InFrames, TextsCounted, Alright

\* Two records that agree in what handling an item leaves alone.
Same(q, r) ==
    q \in Records /\ q.stage = r.stage /\ q.draining = r.draining /\ q.dead = r.dead

\* What the handlers have been told after a frame.
Told(k, x) == IF x \in {"text", "end"} THEN Append(k, "text") ELSE k

\* handle_frames takes a frame off, and tells the handlers of a whole text.
LEMMA FrameTaken ==
    ASSUME NEW r, Alright(r), NEW q, Same(q, r), NEW v \in Seq(Sends), NEW s \in Seq(Items), NEW a \in Seq(Items), NEW p,
           NEW k \in Seq(Events), NEW l, Served(r, v, s, a, p, k, l), r.websocket, r.input # <<>>,
           q.websocket = r.websocket, q.closing = r.closing, q.input = Tail(r.input)
    PROVE  /\ Served(q, v, s, a, p, Told(k, Head(r.input)), l)
           /\ Told(k, Head(r.input)) \in Seq(Events) /\ Opened(Told(k, Head(r.input)))
<1>7. PICK kk : kk = Told(k, Head(r.input))
  OBVIOUS
<1>1. r.input \in Seq(Items) /\ Tail(r.input) \in Seq(Items) /\ ~r.dead /\ ~q.dead
  BY DEF Alright, Same, Records
<1>2. Opened(k)
  BY <1>1 DEF Served, InFrames
<1>3. kk \in Seq(Events) /\ Opened(kk)
  <2>1. CASE kk = k
    BY <1>2, <2>1
  <2>2. CASE kk = Append(k, "text")
    <3>1. /\ kk \in Seq(Events) /\ Len(kk) = Len(k) + 1 /\ kk[Len(k) + 1] = "text" /\ Len(k) \in Nat
          /\ DOMAIN kk = 1 .. Len(kk) /\ DOMAIN k = 1 .. Len(k) /\ \A i \in 1 .. Len(k) : kk[i] = k[i]
      <4>1. "text" \in Events
        BY DEF Events
      <4>2. QED
        BY <2>2, <4>1, AppendProperties
    <3>2. Len(k) > 0 /\ kk # <<>>
      BY <1>2, <3>1 DEF Opened
    <3>3. QED
      BY <1>2, <3>1, <3>2 DEF Opened
  <2>3. QED
    BY <1>7, <2>1, <2>2 DEF Told
<1>4. Wholes(kk) + Wholes(q.input) = Wholes(k) + Wholes(r.input)
  <2>1. Wholes(r.input) = IsWhole(Head(r.input)) + Wholes(Tail(r.input))
    BY <1>1, WholesTail
  <2>2. Wholes(kk) = Wholes(k) + IsWhole(Head(r.input))
    <3>1. "text" \in Events
      BY DEF Events
    <3>2. Wholes(Append(k, "text")) = Wholes(k) + IsWhole("text") /\ Wholes(k) \in Nat
      BY <3>1, WholesAppend, WholesAre
    <3>3. QED
      BY <1>7, <3>2 DEF IsWhole, Told
  <2>3. Wholes(k) \in Nat /\ Wholes(Tail(r.input)) \in Nat /\ IsWhole(Head(r.input)) \in Nat
    BY <1>1, WholesAre DEF IsWhole
  <2>4. QED
    BY <2>1, <2>2, <2>3
<1>5. TextsCounted(q, s, a, kk)
  BY <1>4 DEF Served, TextsCounted, Same
<1>6. Served(q, v, s, a, p, kk, l)
  BY <1>1, <1>3, <1>5 DEF Served, InFrames, Same
<1>8. QED
  BY <1>3, <1>6, <1>7

\* Something more is sent to an upgraded connection: behind a close frame only
\* another one is.
LEMMA FrameSaid ==
    ASSUME NEW r, Alright(r), NEW q, Same(q, r), NEW v \in Seq(Sends), NEW s, NEW a, NEW p, NEW k, NEW l,
           Served(r, v, s, a, p, k, l), r.websocket,
           NEW x \in {"text", "ping", "pong", "close"}, x = "close" \/ ~r.closing,
           q.websocket = r.websocket, q.input = r.input, q.closing \in BOOLEAN, r.closing => q.closing, x = "close" => q.closing
    PROVE  Served(q, Append(v, x), s, a, p, k, l)
<1>1. v # <<>> /\ Ordered(v) /\ (r.closing \/ \A i \in DOMAIN v : v[i] # "close")
  BY DEF Served, InFrames
<1>2. PICK vv : vv = Append(v, x)
  OBVIOUS
<1>3. vv \in Seq(Sends) /\ vv # <<>> /\ Ordered(vv)
  BY <1>1, <1>2, OrderGrows
<1>4. ~q.closing => \A i \in DOMAIN vv : vv[i] # "close"
  <2>1. SUFFICES ASSUME ~q.closing PROVE \A i \in DOMAIN vv : vv[i] # "close"
    OBVIOUS
  <2>2. ~r.closing /\ x # "close" /\ \A i \in DOMAIN v : v[i] # "close"
    BY <1>1, <2>1
  <2>3. x \in Sends
    BY DEF Sends
  <2>4. QED
    BY <1>2, <2>2, <2>3, AppendProperties
<1>5. InFrames(q, vv, k)
  BY <1>3 DEF Served, InFrames, Same
<1>6. TextsCounted(q, s, a, k)
  BY DEF Served, TextsCounted, Same
<1>7. Served(q, vv, s, a, p, k, l)
  BY <1>4, <1>5, <1>6 DEF Served, Same, Alright
<1>8. QED
  BY <1>2, <1>7

\* handle_http answers a request.
LEMMA RequestAnswered ==
    ASSUME NEW r, Alright(r), NEW q, Same(q, r), NEW v \in Seq(Sends), NEW s \in Seq(Items), NEW a \in Seq(Items), NEW p,
           NEW k, NEW l, Served(r, v, s, a, p, k, l), ~r.websocket, ~r.closing, r.input # <<>>,
           q.websocket = r.websocket, q.closing \in BOOLEAN, q.input = Tail(r.input)
    PROVE  Served(q, Append(v, "response"), s, a, p, k, l)
<1>1. /\ k = <<>> /\ s \in Seq(Requests) /\ a \in Seq(Requests) /\ r.input \in Seq(Requests)
      /\ Tail(r.input) \in Seq(Requests) /\ Head(r.input) \in Requests /\ Len(r.input) = Len(Tail(r.input)) + 1
      /\ ~r.draining /\ Len(v) + Len(r.input) + Len(a) = Len(s) /\ \A i \in DOMAIN v : v[i] = "response"
  BY DEF Served, InHttp, Alright, Records
<1>2. PICK vv : vv = Append(v, "response")
  OBVIOUS
<1>3. vv \in Seq(Sends) /\ Len(vv) = Len(v) + 1 /\ \A i \in DOMAIN vv : vv[i] = "response"
  <2>1. "response" \in Sends
    BY DEF Sends
  <2>2. QED
    BY <1>1, <1>2, <2>1, OrderStarts, AppendProperties
<1>4. Wholes(Tail(r.input)) = Wholes(r.input)
  <2>1. Wholes(r.input) = IsWhole(Head(r.input)) + Wholes(Tail(r.input)) /\ Wholes(Tail(r.input)) \in Nat
    BY <1>1, WholesTail, WholesAre
  <2>2. IsWhole(Head(r.input)) = 0
    BY <1>1 DEF IsWhole, Requests
  <2>3. QED
    BY <2>1, <2>2
<1>5. TextsCounted(q, s, a, k)
  BY <1>4 DEF Served, TextsCounted, Same
<1>6. InHttp(q, vv, s, a, k)
  <2>1. Len(vv) + Len(q.input) + Len(a) = Len(s)
    <3>1. Len(v) \in Nat /\ Len(Tail(r.input)) \in Nat /\ Len(a) \in Nat /\ Len(s) \in Nat /\ Len(r.input) \in Nat
      BY <1>1
    <3>4. Len(v) + Len(r.input) + Len(a) = Len(s) /\ Len(r.input) = Len(Tail(r.input)) + 1 /\ Len(vv) = Len(v) + 1
      BY <1>1, <1>3
    <3>2. q.input = Tail(r.input)
      OBVIOUS
    <3>5. PICK b \in Nat, i \in Nat, j \in Nat, d \in Nat, e \in Nat :
             b = Len(v) /\ i = Len(r.input) /\ j = Len(Tail(r.input)) /\ d = Len(a) /\ e = Len(s)
      BY ONLY <3>1
    <3>6. b + i + d = e /\ i = j + 1
      BY ONLY <3>4, <3>5, Zenon
    <3>7. (b + 1) + j + d = e
      BY ONLY <3>6
    <3>3. QED
      BY ONLY <3>2, <3>4, <3>5, <3>7, Zenon
  <2>2. QED
    BY <1>1, <1>3, <2>1 DEF InHttp
<1>7. Served(q, vv, s, a, p, k, l)
  BY <1>1, <1>3, <1>5, <1>6 DEF Served, Same, Alright
<1>8. QED
  BY <1>2, <1>7

\* upgrade sends the 101: the handlers hear of it, or the connection has died.
LEMMA Switched ==
    ASSUME NEW r, Alright(r), NEW q, q \in Records, q.draining => q.closing, NEW v \in Seq(Sends),
           NEW s \in Seq(Items), NEW a \in Seq(Items), NEW p, NEW k, NEW l, Served(r, v, s, a, p, k, l),
           ~r.websocket, ~r.closing, r.input # <<>>, Head(r.input) = "ws",
           q.websocket, q.closing = r.closing, q.input = Tail(r.input),
           NEW kk, (q.dead /\ kk = k) \/ kk = Append(k, "open"), NEW ll, ll = "ended" => ~q.dead
    PROVE  Served(q, Append(v, "101"), s, a, p, kk, ll) /\ kk \in Seq(Events)
<1>1. /\ k = <<>> /\ s \in Seq(Requests) /\ a \in Seq(Requests) /\ r.input \in Seq(Requests)
      /\ Tail(r.input) \in Seq(Requests)
      /\ ~r.draining /\ ~q.draining /\ \A i \in DOMAIN v : v[i] = "response"
  BY DEF Served, InHttp, Alright, Records
<1>2. PICK vv : vv = Append(v, "101")
  OBVIOUS
<1>3. vv \in Seq(Sends) /\ vv # <<>> /\ Ordered(vv) /\ \A i \in DOMAIN vv : vv[i] # "close"
  BY <1>1, <1>2, OrderStarts
<1>4. Append(k, "open") = <<"open">>
  BY <1>1
<1>5. kk \in Seq(Events) /\ (Opened(kk) \/ (q.dead /\ kk = <<>>)) /\ Wholes(kk) = 0 /\ Wholes(k) = 0
  <2>1. Opened(<<"open">>)
    BY DEF Opened
  <2>2. <<"open">> \in Seq(Events)
    BY DEF Events
  <2>3. Wholes(<<"open">>) = 0 /\ Wholes(<<>>) = 0
    BY WholesOne
  <2>4. (kk = <<>> /\ q.dead) \/ kk = <<"open">>
    BY <1>1, <1>4
  <2>5. <<>> \in Seq(Events)
    OBVIOUS
  <2>6. k = <<>>
    BY <1>1
  <2>7. QED
    BY ONLY <2>1, <2>2, <2>3, <2>4, <2>5, <2>6
<1>6. Wholes(Tail(r.input)) = Wholes(r.input)
  <2>1. Wholes(r.input) = IsWhole(Head(r.input)) + Wholes(Tail(r.input)) /\ Wholes(Tail(r.input)) \in Nat
    BY <1>1, WholesTail, WholesAre
  <2>2. IsWhole("ws") = 0
    BY DEF IsWhole
  <2>3. QED
    BY <2>1, <2>2
<1>7. TextsCounted(q, s, a, kk)
  BY <1>1, <1>5, <1>6 DEF Served, TextsCounted
<1>8. InFrames(q, vv, kk)
  BY <1>3, <1>5 DEF InFrames
<1>9. Served(q, vv, s, a, p, kk, ll)
  BY <1>1, <1>3, <1>7, <1>8 DEF Served
<1>10. QED
  BY <1>2, <1>5, <1>9

\* receive takes what has arrived.
LEMMA InputTaken ==
    ASSUME NEW r, Alright(r), NEW q, Same(q, r), NEW v \in Seq(Sends), NEW s \in Seq(Items), NEW a \in Seq(Items), NEW p,
           NEW k \in Seq(Events), NEW l, Served(r, v, s, a, p, k, l),
           q.websocket = r.websocket, q.closing = r.closing,
           q.input = IF r.draining THEN r.input ELSE r.input \o a
    PROVE  Served(q, v, s, <<>>, p, k, l)
<1>1. r.input \in Seq(Items)
  BY DEF Alright, Records
<1>2. Wholes(r.input \o a) = Wholes(r.input) + Wholes(a)
  BY <1>1, WholesJoin
<1>3. Wholes(<<>>) = 0 /\ Wholes(k) \in Nat /\ Wholes(a) \in Nat /\ Wholes(r.input) \in Nat /\ Wholes(s) \in Nat
  BY <1>1, WholesOne, WholesAre
<1>4. TextsCounted(q, s, <<>>, k)
  <2>1. CASE r.draining
    BY <1>3, <2>1 DEF Served, TextsCounted, Same
  <2>2. CASE ~r.draining
    BY <1>2, <1>3, <2>2 DEF Served, TextsCounted, Same
  <2>3. QED
    BY <2>1, <2>2
<1>5. ASSUME ~q.websocket PROVE InHttp(q, v, s, <<>>, k)
  <2>1. InHttp(r, v, s, a, k)
    BY <1>5 DEF Served
  <2>2. CASE r.draining
    BY <2>1, <2>2 DEF InHttp, Same
  <2>3. CASE ~r.draining
    <3>1. q.input \in Seq(Requests) /\ Len(q.input) = Len(r.input) + Len(a)
      BY <2>1, <2>3, ConcatProperties DEF InHttp
    <3>2. QED
      BY <2>1, <2>3, <3>1 DEF InHttp, Same
  <2>4. QED
    BY <2>2, <2>3
<1>6. QED
  BY <1>4, <1>5 DEF Served, InFrames, Same, Alright

\* A peer says one thing more.
LEMMA ItemSaid ==
    ASSUME NEW r \in Records, NEW v \in Seq(Sends), NEW s \in Seq(Items), NEW a \in Seq(Items), NEW k \in Seq(Events), NEW l,
           Served(r, v, s, a, "open", k, l), NEW x \in Items, ~r.websocket => x \in Requests
    PROVE  Served(r, v, Append(s, x), Append(a, x), "open", k, l)
<1>1. Wholes(Append(s, x)) = Wholes(s) + IsWhole(x) /\ Wholes(Append(a, x)) = Wholes(a) + IsWhole(x)
  BY WholesAppend
<1>2. /\ Wholes(s) \in Nat /\ Wholes(a) \in Nat /\ Wholes(k) \in Nat /\ Wholes(r.input) \in Nat /\ IsWhole(x) \in Nat
      /\ Len(Append(s, x)) = Len(s) + 1 /\ Len(Append(a, x)) = Len(a) + 1
  BY WholesAre DEF IsWhole, Records
<1>3. TextsCounted(r, Append(s, x), Append(a, x), k)
  BY <1>1, <1>2 DEF Served, TextsCounted
<1>4. ASSUME ~r.websocket PROVE InHttp(r, v, Append(s, x), Append(a, x), k)
  <2>1. InHttp(r, v, s, a, k)
    BY <1>4 DEF Served
  <2>2. Append(s, x) \in Seq(Requests) /\ Append(a, x) \in Seq(Requests)
    BY <1>4, <2>1, AppendProperties DEF InHttp
  <2>3. r.input \in Seq(Requests) /\ Len(v) \in Nat /\ Len(s) \in Nat /\ Len(a) \in Nat /\ Len(r.input) \in Nat
    BY <2>1 DEF InHttp
  <2>4. ~r.draining => Len(v) + Len(r.input) + Len(Append(a, x)) = Len(Append(s, x))
    <3>1. ~r.draining => Len(v) + Len(r.input) + Len(a) = Len(s)
      BY <2>1 DEF InHttp
    <3>2. PICK b \in Nat, i \in Nat, d \in Nat, e \in Nat :
             b = Len(v) /\ i = Len(r.input) /\ d = Len(a) /\ e = Len(s)
      BY ONLY <2>3
    <3>3. ~r.draining => b + i + d = e
      BY ONLY <3>1, <3>2, Zenon
    <3>4. ~r.draining => b + i + (d + 1) = e + 1
      BY ONLY <3>3
    <3>5. QED
      BY ONLY <1>2, <3>2, <3>4, Zenon
  <2>5. QED
    BY <2>1, <2>2, <2>3, <2>4 DEF InHttp
<1>5. QED
  BY <1>3, <1>4 DEF Served

\* A connection dies: of its end only when all has been handled.
LEMMA ServedDies ==
    ASSUME NEW r \in Records, NEW q, q = [r EXCEPT !.dead = TRUE], NEW v, NEW s, NEW a, NEW p, NEW k, NEW l,
           Served(r, v, s, a, p, k, l), NEW ll,
           ll = "ended" /\ p = "ended" /\ ~r.closing => r.input = <<>> /\ a = <<>>
    PROVE  Served(q, v, s, a, p, k, ll) /\ q \in Records /\ q.stage = r.stage /\ q.output = r.output
<1>1. /\ q \in Records /\ q.stage = r.stage /\ q.output = r.output /\ q.websocket = r.websocket /\ q.closing = r.closing
      /\ q.draining = r.draining /\ q.input = r.input /\ q.dead
  BY DEF Records
<1>2. QED
  BY <1>1 DEF Served, InHttp, InFrames, TextsCounted

-----------------------------------------------------------------------------
(* The steps.                                                              *)
LEMMA WebTypes ==
    ASSUME WebTypeOK, NEW c \in Connections
    PROVE  /\ connection[c] \in Records /\ wire[c] \in Seq(Sends) /\ said[c] \in Seq(Items) /\ arrived[c] \in Seq(Items)
           /\ calls[c] \in Seq(Events) /\ left[c] \in {"no", "unsent", "ended", "timeout"}
           /\ peer[c] \in {"open", "ended", "reset"}
           /\ connection[c].input \in Seq(Items) /\ connection[c].output \in Seq(Sends)
           /\ connection[c].stage \in {"none", "served", "removed"}
           /\ connection[c].websocket \in BOOLEAN /\ connection[c].closing \in BOOLEAN
           /\ connection[c].draining \in BOOLEAN /\ connection[c].dead \in BOOLEAN
           /\ Sent(c) \in Seq(Sends)
<1>1. /\ connection[c] \in Records /\ wire[c] \in Seq(Sends) /\ said[c] \in Seq(Items) /\ arrived[c] \in Seq(Items)
      /\ calls[c] \in Seq(Events) /\ left[c] \in {"no", "unsent", "ended", "timeout"}
      /\ peer[c] \in {"open", "ended", "reset"}
  BY DEF WebTypeOK
<1>2. /\ connection[c].input \in Seq(Items) /\ connection[c].output \in Seq(Sends)
      /\ connection[c].stage \in {"none", "served", "removed"}
      /\ connection[c].websocket \in BOOLEAN /\ connection[c].closing \in BOOLEAN
      /\ connection[c].draining \in BOOLEAN /\ connection[c].dead \in BOOLEAN
  BY <1>1 DEF Records
<1>3. Sent(c) \in Seq(Sends)
  BY <1>1, <1>2, ConcatProperties DEF Sent
<1>4. QED
  BY <1>1, <1>2, <1>3

\* A connection that is alive may become o, its handlers having been told k.
Fit(c, o, k) ==
    /\ o.r \in Records /\ o.r.stage = "served" /\ o.taken \in Seq(Sends) /\ k \in Seq(Events)
    /\ Served(o.r, (wire[c] \o o.taken) \o o.r.output, said[c], arrived[c], peer[c], k,
              IF o.r.dead THEN "unsent" ELSE left[c])

\* Connections that become what fits them.
LEMMA BecomeKeeps ==
    ASSUME WebInv, NEW outcome, DOMAIN outcome \subseteq Connections, Become(outcome),
           \A c \in DOMAIN outcome : Alive(c) /\ Fit(c, outcome[c], calls'[c]),
           calls' \in [Connections -> Seq(Events)], \A c \in Connections \ DOMAIN outcome : calls'[c] = calls[c],
           UNCHANGED <<busy, ended, arrived, peer, said>>,
           client' \in Connections \cup {0},
           client' # 0 => connection[client'].stage = "served" /\ Opened(calls'[client'])
    PROVE  WebInv'
<1>1. WebTypeOK /\ AtHand /\ ClientHeard /\ LeftEnded /\ AllSound
  BY DEF WebInv
<1>2. /\ connection' = [c \in Connections |-> IF c \in DOMAIN outcome THEN outcome[c].r ELSE connection[c]]
      /\ wire' = [c \in Connections |-> wire[c] \o (IF c \in DOMAIN outcome THEN outcome[c].taken ELSE <<>>)]
      /\ left' = [c \in Connections |->
                     IF c \in DOMAIN outcome /\ outcome[c].r.dead /\ ~connection[c].dead THEN "unsent" ELSE left[c]]
  BY DEF Become
<1>3. busy' = busy /\ ended' = ended /\ arrived' = arrived /\ peer' = peer /\ said' = said
  OBVIOUS
<1>4. ASSUME NEW c \in Connections
      PROVE  /\ connection'[c] \in Records /\ wire'[c] \in Seq(Sends) /\ left'[c] \in {"no", "unsent", "ended", "timeout"}
             /\ left'[c] = "ended" => peer'[c] # "open"
             /\ connection[c].stage = "served" => connection'[c].stage = "served"
             /\ SoundRecord(connection'[c], wire'[c] \o connection'[c].output, said'[c], arrived'[c], peer'[c], calls'[c], left'[c])
  <2>1. /\ connection[c] \in Records /\ wire[c] \in Seq(Sends) /\ left[c] \in {"no", "unsent", "ended", "timeout"}
        /\ (left[c] = "ended" => peer[c] # "open")
        /\ SoundRecord(connection[c], wire[c] \o connection[c].output, said[c], arrived[c], peer[c], calls[c], left[c])
    BY <1>1, WebTypes DEF LeftEnded, AllSound, Sent
  <2>2. CASE c \in DOMAIN outcome
    <3>1. Alive(c) /\ Fit(c, outcome[c], calls'[c])
      BY <2>2
    <3>2. PICK o : o = outcome[c]
      OBVIOUS
    <3>3. /\ connection'[c] = o.r /\ wire'[c] = wire[c] \o o.taken
          /\ left'[c] = IF o.r.dead THEN "unsent" ELSE left[c]
      BY <1>2, <2>2, <3>1, <3>2 DEF Alive
    <3>4. /\ o.r \in Records /\ o.r.stage = "served" /\ o.taken \in Seq(Sends)
          /\ Served(o.r, (wire[c] \o o.taken) \o o.r.output, said[c], arrived[c], peer[c], calls'[c],
                    IF o.r.dead THEN "unsent" ELSE left[c])
      BY <3>1, <3>2 DEF Fit
    <3>5. Served(connection'[c], wire'[c] \o connection'[c].output, said'[c], arrived'[c], peer'[c], calls'[c], left'[c])
      BY <1>3, <3>3, <3>4
    <3>6. wire'[c] \in Seq(Sends)
      BY <2>1, <3>3, <3>4, ConcatProperties
    <3>7. QED
      BY <1>3, <2>1, <3>3, <3>4, <3>5, <3>6 DEF SoundRecord
  <2>3. CASE c \notin DOMAIN outcome
    <3>1. wire[c] \o <<>> = wire[c]
      BY <2>1, ConcatEmptySeq
    <3>2. connection'[c] = connection[c] /\ wire'[c] = wire[c] /\ left'[c] = left[c] /\ calls'[c] = calls[c]
      BY <1>2, <2>3, <3>1
    <3>3. QED
      BY <1>3, <2>1, <3>2
  <2>4. QED
    BY <2>2, <2>3
<1>5. WebTypeOK'
  <2>1. connection' \in [Connections -> Records]
    BY <1>2, <1>4
  <2>2. wire' \in [Connections -> Seq(Sends)]
    BY <1>2, <1>4
  <2>3. left' \in [Connections -> {"no", "unsent", "ended", "timeout"}]
    BY <1>2, <1>4
  <2>4. QED
    BY <1>1, <1>3, <2>1, <2>2, <2>3 DEF WebTypeOK
<1>6. AtHand' /\ LeftEnded'
  BY <1>1, <1>3, <1>4 DEF AtHand, LeftEnded
<1>7. ClientHeard'
  BY <1>4 DEF ClientHeard
<1>8. AllSound'
  BY <1>4 DEF AllSound, Sent
<1>9. QED
  BY <1>5, <1>6, <1>7, <1>8 DEF WebInv

LEMMA OnlyKeeps ==
    ASSUME WebInv, NEW c \in Connections, Alive(c), NEW o, NEW k \in Seq(Events), Fit(c, o, k), Become(Only(c, o)),
           Opened(calls[c]) => Opened(k), calls' = [calls EXCEPT ![c] = k],
           UNCHANGED <<busy, ended, arrived, peer, said, client>>
    PROVE  WebInv'
<1>1. WebTypeOK /\ ClientHeard
  BY DEF WebInv
<1>2. PICK outcome : outcome = Only(c, o)
  OBVIOUS
<1>3. DOMAIN outcome = {c} /\ outcome[c] = o /\ Become(outcome)
  BY <1>2 DEF Only
<1>4. calls' \in [Connections -> Seq(Events)] /\ calls'[c] = k /\ \A d \in Connections \ {c} : calls'[d] = calls[d]
  BY <1>1 DEF WebTypeOK
<1>5. \A d \in DOMAIN outcome : Alive(d) /\ Fit(d, outcome[d], calls'[d])
  BY <1>3, <1>4
<1>6. client' \in Connections \cup {0} /\ (client' # 0 => connection[client'].stage = "served" /\ Opened(calls'[client']))
  <2>1. client' = client /\ client \in Connections \cup {0}
    BY <1>1 DEF WebTypeOK
  <2>2. client # 0 => connection[client].stage = "served" /\ Opened(calls[client])
    BY <1>1 DEF ClientHeard
  <2>3. client # 0 => Opened(calls'[client])
    BY <1>4, <2>1, <2>2
  <2>4. QED
    BY <2>1, <2>2, <2>3
<1>7. QED
  BY <1>3, <1>4, <1>5, <1>6, BecomeKeeps

LEMMA FlushedFit ==
    ASSUME WebTypeOK, NEW c \in Connections, NEW r, Alright(r), NEW k \in Seq(Events), NEW o \in Flushed(c, r),
           Served(r, wire[c] \o r.output, said[c], arrived[c], peer[c], k, left[c])
    PROVE  Fit(c, o, k)
<1>1. wire[c] \in Seq(Sends)
  BY WebTypes
<1>2. KeptWhole(o, r, wire[c])
  BY <1>1, FlushedFields DEF Served, Alright
<1>3. Served(o.r, (wire[c] \o o.taken) \o o.r.output, said[c], arrived[c], peer[c], k, IF o.r.dead THEN "unsent" ELSE left[c])
  BY <1>1, FlushServed
<1>4. QED
  BY <1>2, <1>3 DEF Fit, KeptWhole, Alright

LEMMA WrittenKeeps ==
    ASSUME WebInv, NEW c \in Connections, Alive(c), NEW r, Alright(r), NEW k \in Seq(Events), Written(c, r),
           Served(r, wire[c] \o r.output, said[c], arrived[c], peer[c], k, left[c]),
           Opened(calls[c]) => Opened(k), calls' = [calls EXCEPT ![c] = k],
           UNCHANGED <<busy, ended, arrived, peer, said, client>>
    PROVE  WebInv'
<1>1. PICK o \in Flushed(c, r) : Become(Only(c, o))
  BY DEF Written
<1>2. Fit(c, o, k)
  BY FlushedFit DEF WebInv
<1>3. QED
  BY <1>1, <1>2, OnlyKeeps

\* The connection at hand.
LEMMA AliveNow ==
    ASSUME WebInv, NEW c \in Connections, Alive(c)
    PROVE  /\ Alright(connection[c])
           /\ Served(connection[c], Sent(c), said[c], arrived[c], peer[c], calls[c], left[c])
           /\ calls = [calls EXCEPT ![c] = calls[c]]
<1>1. connection[c] \in Records /\ calls = [calls EXCEPT ![c] = calls[c]]
  BY DEF WebInv, WebTypeOK
<1>2. QED
  BY <1>1 DEF WebInv, AllSound, SoundRecord, Alive, Alright

\* What Push does: q is r with x behind it.
PushedOn(q, r, x, w) ==
    /\ Same(q, r) /\ q.websocket = r.websocket /\ q.closing = r.closing /\ q.input = r.input
    /\ w \o q.output = Append(w \o r.output, x)

LEMMA Pushed ==
    ASSUME NEW r \in Records, NEW x \in Sends, NEW w \in Seq(Sends)
    PROVE  PushedOn(Push(r, x), r, x, w)
<1>1. Append(r.output, x) \in Seq(Sends) /\ w \o Append(r.output, x) = Append(w \o r.output, x)
  BY JoinAppend DEF Records
<1>2. /\ Same(Push(r, x), r) /\ Push(r, x).websocket = r.websocket /\ Push(r, x).closing = r.closing
      /\ Push(r, x).input = r.input /\ Push(r, x).output = Append(r.output, x)
  BY <1>1 DEF Push, Same, Records
<1>3. QED
  BY <1>1, <1>2 DEF PushedOn

\* The item taken off.
LEMMA TakenOff ==
    ASSUME WebTypeOK, NEW c \in Connections, connection[c].input # <<>>
    PROVE  /\ Same(Taken(c), connection[c]) /\ Taken(c).websocket = connection[c].websocket
           /\ Taken(c).closing = connection[c].closing /\ Taken(c).begun = connection[c].begun
           /\ Taken(c).input = Tail(connection[c].input) /\ Taken(c).output = connection[c].output
<1>1. connection[c] \in Records /\ Tail(connection[c].input) \in Seq(Items)
  BY WebTypes
<1>2. QED
  BY <1>1 DEF Taken, Same, Records

\* Two bits that may be set besides.
LEMMA AlsoClosing ==
    ASSUME NEW r \in Records, NEW b \in BOOLEAN
    PROVE  LET q == [r EXCEPT !.closing = b] IN
           /\ Same(q, r) /\ q.websocket = r.websocket /\ q.closing = b /\ q.input = r.input /\ q.output = r.output
BY DEF Same, Records

LEMMA AlsoBegun ==
    ASSUME NEW r \in Records, NEW b \in BOOLEAN
    PROVE  LET q == [r EXCEPT !.begun = b] IN
           /\ Same(q, r) /\ q.websocket = r.websocket /\ q.closing = r.closing /\ q.input = r.input /\ q.output = r.output
BY DEF Same, Records

LEMMA AlsoUpgraded ==
    ASSUME NEW r \in Records
    PROVE  LET q == [r EXCEPT !.websocket = TRUE] IN
           /\ Same(q, r) /\ q.websocket /\ q.closing = r.closing /\ q.input = r.input /\ q.output = r.output
BY DEF Same, Records

LEMMA RespondKeeps ==
    ASSUME WebInv, NEW c \in Connections, Respond(c)
    PROVE  WebInv'
<1>1. /\ Alive(c) /\ ~connection[c].closing /\ connection[c].input # <<>> /\ ~connection[c].websocket
      /\ Item(c) # "ws" /\ calls' = calls /\ WebTypeOK
      /\ UNCHANGED <<busy, ended, arrived, peer, said, client>>
  BY DEF Respond, More, StillBusy, PeerStays, WebInv
<1> DEFINE t == Taken(c)
           m == [t EXCEPT !.closing = Item(c) # "get"]
           q == Push(m, "response")
<1>2. /\ Alright(connection[c]) /\ calls = [calls EXCEPT ![c] = calls[c]] /\ wire[c] \in Seq(Sends) /\ calls[c] \in Seq(Events)
      /\ Served(connection[c], Sent(c), said[c], arrived[c], peer[c], calls[c], left[c])
      /\ Sent(c) \in Seq(Sends) /\ said[c] \in Seq(Items) /\ arrived[c] \in Seq(Items)
  BY <1>1, AliveNow, WebTypes
<1>3. Same(t, connection[c]) /\ t.websocket = connection[c].websocket /\ t.input = Tail(connection[c].input) /\ t.output = connection[c].output
  BY <1>1, TakenOff
<1>4. Same(m, t) /\ m.websocket = t.websocket /\ m.closing \in BOOLEAN /\ m.input = t.input /\ m.output = t.output
  <2>1. t \in Records
    BY <1>3 DEF Same
  <2>2. (Item(c) # "get") \in BOOLEAN
    OBVIOUS
  <2> HIDE DEF t
  <2>3. QED
    BY <2>1, <2>2, AlsoClosing
<1>5. PushedOn(q, m, "response", wire[c])
  <2>1. m \in Records /\ "response" \in Sends
    BY <1>4 DEF Same, Sends
  <2> HIDE DEF m
  <2>2. QED
    BY <1>2, <2>1, Pushed
<1>6. Written(c, q)
  BY DEF Respond
<1> HIDE DEF t, m, q
<1>7. Same(q, connection[c]) /\ q.websocket = connection[c].websocket /\ q.input = Tail(connection[c].input) /\ q.closing \in BOOLEAN
  BY <1>3, <1>4, <1>5 DEF Same, PushedOn
<1>8. wire[c] \o q.output = Append(Sent(c), "response")
  BY <1>3, <1>4, <1>5 DEF Sent, PushedOn
<1>9. Served(q, Append(Sent(c), "response"), said[c], arrived[c], peer[c], calls[c], left[c])
  BY <1>1, <1>2, <1>7, RequestAnswered
<1>10. Alright(q)
  BY <1>2, <1>7 DEF Alright, Same
<1>11. QED
  BY <1>1, <1>2, <1>6, <1>8, <1>9, <1>10, WrittenKeeps

LEMMA ControlKeeps ==
    ASSUME WebInv, NEW c \in Connections, Control(c)
    PROVE  WebInv'
<1>1. /\ Alive(c) /\ ~connection[c].closing /\ connection[c].input # <<>> /\ connection[c].websocket
      /\ Item(c) \in {"ping", "close"} /\ calls' = calls /\ WebTypeOK
      /\ UNCHANGED <<busy, ended, arrived, peer, said, client>>
  BY DEF Control, More, StillBusy, PeerStays, WebInv
<1>2. /\ Alright(connection[c]) /\ calls = [calls EXCEPT ![c] = calls[c]] /\ wire[c] \in Seq(Sends) /\ calls[c] \in Seq(Events)
      /\ Served(connection[c], Sent(c), said[c], arrived[c], peer[c], calls[c], left[c])
      /\ Sent(c) \in Seq(Sends) /\ said[c] \in Seq(Items) /\ arrived[c] \in Seq(Items)
  BY <1>1, AliveNow, WebTypes
<1> DEFINE t == Taken(c)
<1>3. /\ Same(t, connection[c]) /\ t.websocket = connection[c].websocket /\ t.closing = connection[c].closing
      /\ t.input = Tail(connection[c].input) /\ t.output = connection[c].output
  BY <1>1, TakenOff
<1>4. Served(t, Sent(c), said[c], arrived[c], peer[c], calls[c], left[c]) /\ Alright(t)
  <2>1. calls[c] = Told(calls[c], Head(connection[c].input))
    BY <1>1 DEF Item, Told
  <2>2. Alright(t)
    BY <1>2, <1>3 DEF Alright, Same
  <2> HIDE DEF t
  <2>3. Served(t, Sent(c), said[c], arrived[c], peer[c], Told(calls[c], Head(connection[c].input)), left[c])
    BY <1>1, <1>2, <1>3, FrameTaken
  <2>4. QED
    BY <2>1, <2>2, <2>3
<1>5. t \in Records /\ "pong" \in Sends /\ "close" \in Sends
  BY <1>3 DEF Same, Sends
<1>6. CASE Item(c) = "ping"
  <2> DEFINE q == Push(t, "pong")
  <2> HIDE DEF t
  <2>1. PushedOn(q, t, "pong", wire[c])
    BY <1>2, <1>5, Pushed
  <2>2. Written(c, q)
    BY <1>6 DEF Control, t
  <2> HIDE DEF q
  <2>3. Served(q, Append(Sent(c), "pong"), said[c], arrived[c], peer[c], calls[c], left[c])
    <3>1. q.closing \in BOOLEAN /\ ~t.closing
      BY <1>1, <1>3, <2>1, WebTypes DEF PushedOn
    <3>2. QED
      BY <1>1, <1>2, <1>3, <1>4, <2>1, <3>1, FrameSaid DEF PushedOn
  <2>4. Alright(q) /\ wire[c] \o q.output = Append(Sent(c), "pong")
    BY <1>3, <1>4, <2>1 DEF Alright, Same, Sent, PushedOn
  <2>5. QED
    BY <1>1, <1>2, <2>2, <2>3, <2>4, WrittenKeeps
<1>7. CASE Item(c) = "close"
  <2> DEFINE m == Push(t, "close")
             q == [m EXCEPT !.closing = TRUE]
  <2> HIDE DEF t
  <2>1. PushedOn(m, t, "close", wire[c])
    BY <1>2, <1>5, Pushed
  <2>2. m \in Records
    BY <2>1 DEF Same, PushedOn
  <2>3. Written(c, q)
    BY <1>7 DEF Control, t
  <2> HIDE DEF m
  <2>4. Same(q, m) /\ q.websocket = m.websocket /\ q.closing /\ q.closing \in BOOLEAN /\ q.input = m.input /\ q.output = m.output
    BY <2>2, AlsoClosing
  <2> HIDE DEF q
  <2>5. Same(q, t)
    BY <2>1, <2>4 DEF Same, PushedOn
  <2>6. Served(q, Append(Sent(c), "close"), said[c], arrived[c], peer[c], calls[c], left[c])
    BY <1>1, <1>2, <1>3, <1>4, <2>1, <2>4, <2>5, FrameSaid DEF PushedOn
  <2>7. Alright(q) /\ wire[c] \o q.output = Append(Sent(c), "close")
    BY <1>3, <1>4, <2>1, <2>4, <2>5 DEF Alright, Same, Sent, PushedOn
  <2>8. QED
    BY <1>1, <1>2, <2>3, <2>6, <2>7, WrittenKeeps
<1>8. QED
  BY <1>1, <1>6, <1>7

LEMMA DataKeeps ==
    ASSUME WebInv, NEW c \in Connections, Data(c)
    PROVE  WebInv'
<1>1. /\ Alive(c) /\ ~connection[c].closing /\ connection[c].input # <<>> /\ connection[c].websocket
      /\ WebTypeOK /\ UNCHANGED <<busy, ended, arrived, peer, said, client>>
  BY DEF Data, More, StillBusy, PeerStays, WebInv
<1>2. /\ Alright(connection[c]) /\ calls = [calls EXCEPT ![c] = calls[c]] /\ wire[c] \in Seq(Sends) /\ calls[c] \in Seq(Events)
      /\ Served(connection[c], Sent(c), said[c], arrived[c], peer[c], calls[c], left[c])
      /\ Sent(c) \in Seq(Sends) /\ said[c] \in Seq(Items) /\ arrived[c] \in Seq(Items)
  BY <1>1, AliveNow, WebTypes
<1> DEFINE t == Taken(c)
           r == [t EXCEPT !.begun = Item(c) = "begin"]
           k == IF Item(c) \in {"text", "end"} THEN Append(calls[c], "text") ELSE calls[c]
<1>3. /\ Same(t, connection[c]) /\ t.websocket = connection[c].websocket /\ t.closing = connection[c].closing
      /\ t.input = Tail(connection[c].input) /\ t.output = connection[c].output
  BY <1>1, TakenOff
<1>4. Same(r, t) /\ r.websocket = t.websocket /\ r.closing = t.closing /\ r.input = t.input /\ r.output = t.output
  <2>1. t \in Records /\ (Item(c) = "begin") \in BOOLEAN
    BY <1>3 DEF Same
  <2> HIDE DEF t
  <2>2. QED
    BY <2>1, AlsoBegun
<1>5. calls' = [calls EXCEPT ![c] = k]
  <2>1. CASE Whole(c)
    BY <2>1 DEF Data, Whole
  <2>2. CASE ~Whole(c)
    BY <1>2, <2>2 DEF Data, Whole
  <2>3. QED
    BY <2>1, <2>2
<1>6. \/ Written(c, Push(r, "text"))
      \/ Become(Only(c, [r |-> r, taken |-> <<>>]))
  BY DEF Data
<1> HIDE DEF t, r
<1>7. /\ Same(r, connection[c]) /\ r.websocket = connection[c].websocket /\ r.closing = connection[c].closing
      /\ r.input = Tail(connection[c].input) /\ r.output = connection[c].output
  BY <1>3, <1>4 DEF Same
<1>8. k = Told(calls[c], Head(connection[c].input))
  BY DEF Item, Told
<1> HIDE DEF k
<1>9. Served(r, Sent(c), said[c], arrived[c], peer[c], k, left[c]) /\ k \in Seq(Events) /\ Opened(k)
  <2>1. /\ Served(r, Sent(c), said[c], arrived[c], peer[c], Told(calls[c], Head(connection[c].input)), left[c])
        /\ Told(calls[c], Head(connection[c].input)) \in Seq(Events) /\ Opened(Told(calls[c], Head(connection[c].input)))
    BY <1>1, <1>2, <1>7, FrameTaken
  <2>2. QED
    BY <1>8, <2>1
<1>10. Alright(r) /\ Sent(c) = wire[c] \o r.output
  BY <1>2, <1>7 DEF Alright, Same, Sent
<1>11. CASE Written(c, Push(r, "text"))
  <2>1. PICK q : q = Push(r, "text")
    OBVIOUS
  <2>2. PushedOn(q, r, "text", wire[c])
    <3>1. r \in Records /\ "text" \in Sends
      BY <1>10 DEF Alright, Sends
    <3>2. QED
      BY <1>2, <2>1, <3>1, Pushed
  <2>3. q.closing \in BOOLEAN /\ ~r.closing /\ ~q.closing
    BY <1>1, <1>7, <2>2, WebTypes DEF PushedOn
  <2>4. Served(q, Append(Sent(c), "text"), said[c], arrived[c], peer[c], k, left[c])
    BY <1>1, <1>2, <1>7, <1>9, <1>10, <2>2, <2>3, FrameSaid DEF PushedOn
  <2>5. Alright(q) /\ wire[c] \o q.output = Append(Sent(c), "text")
    BY <1>10, <2>2 DEF Alright, Same, PushedOn
  <2>6. QED
    BY <1>1, <1>5, <1>9, <1>11, <2>1, <2>4, <2>5, WrittenKeeps
<1>12. CASE Become(Only(c, [r |-> r, taken |-> <<>>]))
  <2>1. PICK o : o = [r |-> r, taken |-> <<>>]
    OBVIOUS
  <2>2. o.r = r /\ o.taken = <<>> /\ Become(Only(c, o))
    BY <1>12, <2>1
  <2>3. wire[c] \o <<>> = wire[c] /\ <<>> \in Seq(Sends)
    BY <1>2, ConcatEmptySeq
  <2>4. Fit(c, o, k)
    BY <1>9, <1>10, <2>2, <2>3 DEF Fit, Alright
  <2>5. QED
    BY <1>1, <1>5, <1>9, <2>2, <2>4, OnlyKeeps
<1>13. QED
  BY <1>6, <1>11, <1>12

LEMMA WritableKeeps ==
    ASSUME WebInv, NEW c \in Connections, Writable(c)
    PROVE  WebInv'
<1>1. /\ Alive(c) /\ Written(c, connection[c]) /\ calls' = calls
      /\ WebTypeOK /\ UNCHANGED <<busy, ended, arrived, peer, said, client>>
  BY DEF Writable, Idle, PeerStays, WebInv
<1>2. /\ Alright(connection[c]) /\ calls = [calls EXCEPT ![c] = calls[c]] /\ calls[c] \in Seq(Events)
      /\ Served(connection[c], wire[c] \o connection[c].output, said[c], arrived[c], peer[c], calls[c], left[c])
  BY <1>1, AliveNow, WebTypes DEF Sent
<1>3. QED
  BY <1>1, <1>2, WrittenKeeps

LEMMA TellKeeps ==
    ASSUME WebInv, NEW c \in Connections, NEW item \in {"ping", "text"}, Tell(c, item)
    PROVE  WebInv'
<1>1. /\ Alive(c) /\ Written(c, Push(connection[c], item)) /\ calls' = calls
      /\ connection[c].websocket /\ ~connection[c].closing
      /\ WebTypeOK /\ UNCHANGED <<busy, ended, arrived, peer, said, client>>
  BY DEF Tell, Writing, Idle, PeerStays, WebInv
<1>2. /\ Alright(connection[c]) /\ calls = [calls EXCEPT ![c] = calls[c]] /\ calls[c] \in Seq(Events)
      /\ Served(connection[c], Sent(c), said[c], arrived[c], peer[c], calls[c], left[c])
      /\ Sent(c) \in Seq(Sends) /\ wire[c] \in Seq(Sends) /\ connection[c].closing \in BOOLEAN
  BY <1>1, AliveNow, WebTypes
<1>3. PICK q : q = Push(connection[c], item)
  OBVIOUS
<1>4. PushedOn(q, connection[c], item, wire[c])
  <2>1. connection[c] \in Records /\ item \in Sends
    BY <1>2 DEF Alright, Sends
  <2>2. QED
    BY <1>2, <1>3, <2>1, Pushed
<1>5. Served(q, Append(Sent(c), item), said[c], arrived[c], peer[c], calls[c], left[c])
  BY <1>1, <1>2, <1>4, FrameSaid DEF PushedOn
<1>6. Alright(q) /\ wire[c] \o q.output = Append(Sent(c), item)
  BY <1>2, <1>4 DEF Alright, Same, PushedOn, Sent
<1>7. QED
  BY <1>1, <1>2, <1>3, <1>5, <1>6, WrittenKeeps

\* The client before the new one, which is told to close.
LEMMA ClientClosed ==
    ASSUME WebInv, NEW c \in Connections, Alive(c), Opened(calls[c]), NEW o \in Flushed(c, Closed(c))
    PROVE  Fit(c, o, calls[c])
<1>1. /\ Alright(connection[c]) /\ calls[c] \in Seq(Events) /\ calls[c] # <<>> /\ WebTypeOK
      /\ Served(connection[c], Sent(c), said[c], arrived[c], peer[c], calls[c], left[c])
      /\ Sent(c) \in Seq(Sends) /\ wire[c] \in Seq(Sends)
  BY AliveNow, WebTypes DEF Opened, WebInv
<1>2. connection[c].websocket
  BY <1>1 DEF Served, InHttp
<1>3. PICK m : m = Push(connection[c], "close")
  OBVIOUS
<1>4. PushedOn(m, connection[c], "close", wire[c])
  <2>1. connection[c] \in Records /\ "close" \in Sends
    BY <1>1 DEF Alright, Sends
  <2>2. QED
    BY <1>1, <1>3, <2>1, Pushed
<1>5. PICK q : q = Closed(c)
  OBVIOUS
<1>6. Same(q, m) /\ q.websocket = m.websocket /\ q.closing /\ q.closing \in BOOLEAN /\ q.input = m.input /\ q.output = m.output
  <2>1. m \in Records
    BY <1>4 DEF PushedOn, Same
  <2>2. q = [m EXCEPT !.closing = TRUE]
    BY <1>3, <1>5 DEF Closed
  <2>3. QED
    BY <2>1, <2>2, AlsoClosing
<1>7. Same(q, connection[c])
  BY <1>4, <1>6 DEF Same, PushedOn
<1>8. Served(q, Append(Sent(c), "close"), said[c], arrived[c], peer[c], calls[c], left[c])
  BY <1>1, <1>2, <1>4, <1>6, <1>7, FrameSaid DEF PushedOn
<1>9. Alright(q) /\ wire[c] \o q.output = Append(Sent(c), "close")
  BY <1>1, <1>4, <1>6, <1>7 DEF Alright, Same, PushedOn, Sent
<1>10. QED
  BY <1>1, <1>5, <1>8, <1>9, FlushedFit

\* The connection as it is when the 101 has been written, or has been in vain.
LEMMA UpgradeSent ==
    ASSUME WebInv, NEW c \in Connections, More(c), ~connection[c].websocket, Item(c) = "ws",
           NEW o \in Flushed(c, Push([Taken(c) EXCEPT !.websocket = TRUE], "101"))
    PROVE  /\ o.r \in Records /\ o.r.stage = "served" /\ o.taken \in Seq(Sends) /\ o.r.websocket /\ ~o.r.closing
           /\ wire[c] \o o.taken \in Seq(Sends) /\ Append(Sent(c), "101") \in Seq(Sends)
           /\ (wire[c] \o o.taken) \o o.r.output = Append(Sent(c), "101") /\ calls[c] = <<>>
           /\ o.r.dead => Fit(c, o, calls[c])
           /\ ~o.r.dead => /\ Served(o.r, Append(Sent(c), "101"), said[c], arrived[c], peer[c], Append(calls[c], "open"), left[c])
                           /\ Append(calls[c], "open") \in Seq(Events) /\ Opened(Append(calls[c], "open"))
<1>1. Alive(c) /\ ~connection[c].closing /\ connection[c].input # <<>> /\ WebTypeOK
  BY DEF More, WebInv
<1>2. /\ Alright(connection[c]) /\ wire[c] \in Seq(Sends) /\ calls[c] \in Seq(Events)
      /\ Served(connection[c], Sent(c), said[c], arrived[c], peer[c], calls[c], left[c])
      /\ Sent(c) \in Seq(Sends) /\ said[c] \in Seq(Items) /\ arrived[c] \in Seq(Items)
  BY <1>1, AliveNow, WebTypes
<1>3. PICK t : t = Taken(c)
  OBVIOUS
<1>4. /\ Same(t, connection[c]) /\ t.closing = connection[c].closing
      /\ t.input = Tail(connection[c].input) /\ t.output = connection[c].output
  BY <1>1, <1>3, TakenOff
<1>5. PICK m : m = [t EXCEPT !.websocket = TRUE]
  OBVIOUS
<1>6. Same(m, t) /\ m.websocket /\ m.closing = t.closing /\ m.input = t.input /\ m.output = t.output
  <2>1. t \in Records
    BY <1>4 DEF Same
  <2>2. QED
    BY <1>5, <2>1, AlsoUpgraded
<1>7. PICK q : q = Push(m, "101")
  OBVIOUS
<1>8. PushedOn(q, m, "101", wire[c])
  <2>1. m \in Records /\ "101" \in Sends
    BY <1>6 DEF Same, Sends
  <2>2. QED
    BY <1>2, <1>7, <2>1, Pushed
<1>9. /\ q \in Records /\ q.stage = "served" /\ ~q.draining /\ q.closing = connection[c].closing /\ q.websocket
      /\ q.input = Tail(connection[c].input) /\ wire[c] \o q.output = Append(Sent(c), "101")
  <2>1. ~connection[c].draining
    BY <1>1, <1>2 DEF Served
  <2>2. QED
    BY <1>1, <1>2, <1>4, <1>6, <1>8, <2>1 DEF Same, PushedOn, Alright, Sent
<1>10. o \in Flushed(c, q)
  BY <1>3, <1>5, <1>7
<1>11. KeptWhole(o, q, wire[c])
  BY <1>2, <1>9, <1>10, FlushedFields
<1>12. /\ o.r \in Records /\ o.r.stage = "served" /\ o.taken \in Seq(Sends) /\ o.r.websocket /\ ~o.r.closing
       /\ (wire[c] \o o.taken) \o o.r.output = Append(Sent(c), "101")
       /\ o.r.closing = connection[c].closing /\ o.r.input = Tail(connection[c].input) /\ (o.r.draining => o.r.closing)
       /\ wire[c] \o o.taken \in Seq(Sends)
  BY <1>1, <1>2, <1>9, <1>11 DEF KeptWhole
<1>13. Append(Sent(c), "101") \in Seq(Sends) /\ calls[c] = <<>>
  <2>1. calls[c] = <<>>
    BY <1>2 DEF Served, InHttp
  <2>2. "101" \in Sends
    BY DEF Sends
  <2>3. QED
    BY <1>2, <2>1, <2>2, AppendProperties
<1>14. ASSUME o.r.dead PROVE Fit(c, o, calls[c])
  <2>1. PICK l : l = "unsent"
    OBVIOUS
  <2>2. Served(o.r, Append(Sent(c), "101"), said[c], arrived[c], peer[c], calls[c], l)
    BY <1>1, <1>2, <1>12, <1>14, <2>1, Switched DEF Item
  <2>3. QED
    BY <1>2, <1>12, <1>14, <2>1, <2>2 DEF Fit
<1>15. ASSUME ~o.r.dead
       PROVE  /\ Served(o.r, Append(Sent(c), "101"), said[c], arrived[c], peer[c], Append(calls[c], "open"), left[c])
              /\ Append(calls[c], "open") \in Seq(Events) /\ Opened(Append(calls[c], "open"))
  <2>1. PICK k : k = Append(calls[c], "open")
    OBVIOUS
  <2>2. Served(o.r, Append(Sent(c), "101"), said[c], arrived[c], peer[c], k, left[c]) /\ k \in Seq(Events)
    BY <1>1, <1>2, <1>12, <1>15, <2>1, Switched DEF Item
  <2>3. Opened(k)
    BY <1>12, <1>15, <2>2 DEF Served, InFrames
  <2>4. QED
    BY <2>1, <2>2, <2>3
<1>16. QED
  BY <1>12, <1>13, <1>14, <1>15

LEMMA SendsJoin ==
    \A x, y, z \in Seq(Sends) : (x \o y) \o z = x \o (y \o z)
<1>1. TAKE x, y, z \in Seq(Sends)
<1>2. QED
  BY ConcatAssociative

\* The frame on_open sends follows.
LEMMA UpgradeOpened ==
    ASSUME WebInv, NEW c \in Connections, NEW o, o.r \in Records, o.r.stage = "served", ~o.r.dead, o.r.websocket,
           ~o.r.closing, o.taken \in Seq(Sends), wire[c] \o o.taken \in Seq(Sends),
           Append(Sent(c), "101") \in Seq(Sends), (wire[c] \o o.taken) \o o.r.output = Append(Sent(c), "101"),
           NEW k \in Seq(Events), Served(o.r, Append(Sent(c), "101"), said[c], arrived[c], peer[c], k, left[c]),
           NEW h \in Flushed(c, Push(o.r, "text"))
    PROVE  Fit(c, [h EXCEPT !.taken = o.taken \o @], k)
<1>1. WebTypeOK /\ wire[c] \in Seq(Sends)
  BY WebTypes DEF WebInv
<1>2. PICK w \in Seq(Sends) : w = wire[c] \o o.taken
  OBVIOUS
<1>3. PICK q : q = Push(o.r, "text")
  OBVIOUS
<1>4. PushedOn(q, o.r, "text", w)
  <2>1. "text" \in Sends
    BY DEF Sends
  <2>2. QED
    BY <1>3, <2>1, Pushed
<1>5. PICK v \in Seq(Sends) : v = Append(Sent(c), "101")
  OBVIOUS
<1>6. Alright(o.r) /\ Alright(q) /\ q.closing = o.r.closing /\ q.closing \in BOOLEAN
  BY <1>4 DEF Alright, Same, PushedOn, Records
<1>7. Served(q, Append(v, "text"), said[c], arrived[c], peer[c], k, left[c])
  <2>1. PICK r : r = o.r
    OBVIOUS
  <2>2. Alright(r) /\ PushedOn(q, r, "text", w) /\ r.websocket /\ ~r.closing /\ Served(r, v, said[c], arrived[c], peer[c], k, left[c])
    BY <1>4, <1>5, <1>6, <2>1
  <2>3. QED
    BY <1>6, <2>1, <2>2, FrameSaid DEF PushedOn
<1>8. Served(q, w \o q.output, said[c], arrived[c], peer[c], k, left[c])
  BY <1>2, <1>4, <1>5, <1>7 DEF PushedOn
<1>9. h \in Flushed(c, q)
  BY <1>3
<1>10. Served(h.r, (w \o h.taken) \o h.r.output, said[c], arrived[c], peer[c], k, IF h.r.dead THEN "unsent" ELSE left[c])
  BY <1>6, <1>8, <1>9, FlushServed
<1>11. KeptWhole(h, q, w)
  BY <1>6, <1>8, <1>9, FlushedFields DEF Alright, Served
<1>12. PICK z : z = [h EXCEPT !.taken = o.taken \o @]
  OBVIOUS
<1>13. z.r = h.r /\ z.taken = o.taken \o h.taken
  BY <1>9, <1>12 DEF Flushed
<1>14. wire[c] \o z.taken = w \o h.taken /\ z.taken \in Seq(Sends)
  <2>1. h.taken \in Seq(Sends)
    BY <1>11 DEF KeptWhole
  <2>2. (wire[c] \o o.taken) \o h.taken = wire[c] \o (o.taken \o h.taken)
    <3>1. wire[c] \in Seq(Sends) /\ o.taken \in Seq(Sends) /\ h.taken \in Seq(Sends)
      BY <1>1, <2>1
    <3>2. QED
      BY ONLY <3>1, SendsJoin
  <2>3. o.taken \o h.taken \in Seq(Sends)
    BY <2>1, ConcatProperties
  <2>4. QED
    BY <1>2, <1>13, <2>2, <2>3
<1>15. Fit(c, z, k)
  <2>1. h.r \in Records /\ h.r.stage = "served"
    BY <1>6, <1>11 DEF KeptWhole, Alright
  <2>2. QED
    BY <1>10, <1>13, <1>14, <2>1 DEF Fit
<1>16. QED
  BY <1>12, <1>15

LEMMA UpgradeKeeps ==
    ASSUME WebInv, NEW c \in Connections, Upgrade(c)
    PROVE  WebInv'
<1>1. /\ More(c) /\ ~connection[c].websocket /\ Item(c) = "ws" /\ Alive(c) /\ connection[c].stage = "served"
      /\ WebTypeOK /\ ClientHeard /\ AllSound /\ UNCHANGED <<busy, ended, arrived, peer, said>>
  BY DEF Upgrade, More, Alive, StillBusy, PeerStays, WebInv
<1>2. calls = [calls EXCEPT ![c] = calls[c]] /\ calls[c] \in Seq(Events) /\ calls \in [Connections -> Seq(Events)]
  BY <1>1, AliveNow, WebTypes DEF WebTypeOK
<1>3. PICK o \in Flushed(c, Push([Taken(c) EXCEPT !.websocket = TRUE], "101")) :
        IF o.r.dead THEN Become(Only(c, o)) /\ UNCHANGED <<client, calls>>
        ELSE /\ client' = c
             /\ calls' = [calls EXCEPT ![c] = Append(@, "open")]
             /\ \E h \in Flushed(c, Push(o.r, "text")) :
                LET opened == [h EXCEPT !.taken = o.taken \o @]
                IN  IF client # 0 /\ Alive(client)
                    THEN \E k \in Flushed(client, Closed(client)) :
                         Become([d \in {c, client} |-> IF d = c THEN opened ELSE k])
                    ELSE Become(Only(c, opened))
  BY DEF Upgrade
<1>4. /\ o.r \in Records /\ o.r.stage = "served" /\ o.taken \in Seq(Sends) /\ o.r.websocket /\ ~o.r.closing
      /\ wire[c] \o o.taken \in Seq(Sends) /\ Append(Sent(c), "101") \in Seq(Sends)
      /\ (wire[c] \o o.taken) \o o.r.output = Append(Sent(c), "101") /\ calls[c] = <<>>
      /\ o.r.dead => Fit(c, o, calls[c])
      /\ ~o.r.dead => /\ Served(o.r, Append(Sent(c), "101"), said[c], arrived[c], peer[c], Append(calls[c], "open"), left[c])
                      /\ Append(calls[c], "open") \in Seq(Events) /\ Opened(Append(calls[c], "open"))
  BY <1>1, UpgradeSent
<1>5. CASE o.r.dead
  <2>1. Become(Only(c, o)) /\ client' = client /\ calls' = calls /\ Fit(c, o, calls[c])
    BY <1>3, <1>4, <1>5
  <2>2. QED
    BY <1>1, <1>2, <2>1, OnlyKeeps
<1>6. CASE ~o.r.dead
  <2>1. PICK k \in Seq(Events) : k = Append(calls[c], "open")
    BY <1>4, <1>6
  <2>2. PICK h \in Flushed(c, Push(o.r, "text")) :
           LET opened == [h EXCEPT !.taken = o.taken \o @]
           IN  IF client # 0 /\ Alive(client)
               THEN \E g \in Flushed(client, Closed(client)) :
                    Become([d \in {c, client} |-> IF d = c THEN opened ELSE g])
               ELSE Become(Only(c, opened))
    BY <1>3, <1>6
  <2>3. PICK z : /\ z = [h EXCEPT !.taken = o.taken \o @]
                 /\ IF client # 0 /\ Alive(client)
                    THEN \E g \in Flushed(client, Closed(client)) : Become([d \in {c, client} |-> IF d = c THEN z ELSE g])
                    ELSE Become(Only(c, z))
    BY <2>2
  <2>4. Served(o.r, Append(Sent(c), "101"), said[c], arrived[c], peer[c], k, left[c]) /\ Opened(k)
    BY <1>4, <1>6, <2>1
  <2>5. Fit(c, z, k)
    BY <1>4, <1>6, <2>3, <2>4, UpgradeOpened
  <2>6. client' = c /\ calls' = [calls EXCEPT ![c] = k]
    BY <1>3, <1>6, <2>1
  <2>7. calls' \in [Connections -> Seq(Events)] /\ calls'[c] = k /\ \A d \in Connections \ {c} : calls'[d] = calls[d]
    BY <1>2, <2>6
  <2>8. client' \in Connections \cup {0} /\ connection[client'].stage = "served" /\ Opened(calls'[client'])
    BY <1>1, <2>4, <2>6, <2>7
  <2>9. CASE client # 0 /\ Alive(client)
    <3>1. client \in Connections /\ client # c /\ Opened(calls[client])
      BY <1>1, <1>4, <2>9 DEF WebTypeOK, ClientHeard, Opened
    <3>2. PICK g \in Flushed(client, Closed(client)) : Become([d \in {c, client} |-> IF d = c THEN z ELSE g])
      BY <2>3, <2>9
    <3>3. Fit(client, g, calls[client])
      BY <2>9, <3>1, ClientClosed
    <3>4. PICK outcome : outcome = [d \in {c, client} |-> IF d = c THEN z ELSE g]
      OBVIOUS
    <3>5. DOMAIN outcome = {c, client} /\ outcome[c] = z /\ outcome[client] = g /\ Become(outcome)
      BY <3>1, <3>2, <3>4
    <3>6. \A d \in DOMAIN outcome : Alive(d) /\ Fit(d, outcome[d], calls'[d])
      BY <1>1, <2>5, <2>7, <2>9, <3>1, <3>3, <3>5
    <3>7. DOMAIN outcome \subseteq Connections /\ \A d \in Connections \ DOMAIN outcome : calls'[d] = calls[d]
      BY <2>7, <3>1, <3>5
    <3>8. QED
      BY <1>1, <2>7, <2>8, <3>5, <3>6, <3>7, BecomeKeeps
  <2>10. CASE ~(client # 0 /\ Alive(client))
    <3>1. PICK outcome : outcome = Only(c, z)
      OBVIOUS
    <3>2. DOMAIN outcome = {c} /\ outcome[c] = z /\ Become(outcome)
      BY <2>3, <2>10, <3>1 DEF Only
    <3>3. \A d \in DOMAIN outcome : Alive(d) /\ Fit(d, outcome[d], calls'[d])
      BY <1>1, <2>5, <2>7, <3>2
    <3>4. DOMAIN outcome \subseteq Connections /\ \A d \in Connections \ DOMAIN outcome : calls'[d] = calls[d]
      BY <2>7, <3>2
    <3>5. QED
      BY <1>1, <2>7, <2>8, <3>2, <3>3, <3>4, BecomeKeeps
  <2>11. QED
    BY <2>9, <2>10
<1>7. QED
  BY <1>5, <1>6

\* A step that changes what is known of one connection, and nothing it has been
\* sent nor the handlers told.
Elsewhere(c) ==
    \A d \in Connections \ {c} :
        /\ connection'[d] = connection[d] /\ said'[d] = said[d] /\ arrived'[d] = arrived[d]
        /\ peer'[d] = peer[d] /\ left'[d] = left[d]

LEMMA OneKeeps ==
    ASSUME WebInv, WebTypeOK', AtHand', NEW c \in Connections, connection[c].stage = "served", Elsewhere(c),
           connection'[c].stage = "served", connection'[c].output = connection[c].output,
           left'[c] = "ended" => peer'[c] # "open",
           Served(connection'[c], Sent(c), said'[c], arrived'[c], peer'[c], calls[c], left'[c]),
           UNCHANGED <<wire, calls, client>>
    PROVE  WebInv'
<1>1. WebTypeOK /\ ClientHeard /\ LeftEnded /\ AllSound
  BY DEF WebInv
<1>2. wire' = wire /\ calls' = calls /\ client' = client
  OBVIOUS
<1>3. ASSUME NEW d \in Connections
      PROVE  /\ left'[d] = "ended" => peer'[d] # "open"
             /\ connection[d].stage = "served" => connection'[d].stage = "served"
             /\ SoundRecord(connection'[d], wire'[d] \o connection'[d].output, said'[d], arrived'[d], peer'[d], calls'[d], left'[d])
  <2>1. CASE d = c
    <3>1. wire'[d] \o connection'[d].output = Sent(c)
      BY <1>2, <2>1 DEF Sent
    <3>2. QED
      BY <1>2, <2>1, <3>1 DEF SoundRecord
  <2>2. CASE d # c
    BY <1>1, <1>2, <2>2 DEF LeftEnded, AllSound, Sent, Elsewhere
  <2>3. QED
    BY <2>1, <2>2
<1>4. ClientHeard'
  BY <1>1, <1>2, <1>3 DEF ClientHeard, WebTypeOK
<1>5. LeftEnded' /\ AllSound'
  BY <1>3 DEF LeftEnded, AllSound, Sent
<1>6. QED
  BY <1>4, <1>5 DEF WebInv

LEMMA ServedNow ==
    ASSUME WebInv, NEW c \in Connections, connection[c].stage = "served"
    PROVE  /\ Served(connection[c], Sent(c), said[c], arrived[c], peer[c], calls[c], left[c])
           /\ left[c] = "ended" => peer[c] # "open"
BY DEF WebInv, AllSound, SoundRecord, LeftEnded

LEMMA BeginsWith ==
    ASSUME NEW w \in Seq(Sends), NEW o \in Seq(Sends)
    PROVE  \A i \in 1 .. Len(w) : i \in DOMAIN (w \o o) /\ (w \o o)[i] = w[i]
<1>1. /\ w \o o \in Seq(Sends) /\ Len(w \o o) = Len(w) + Len(o) /\ Len(w) \in Nat /\ Len(o) \in Nat
      /\ \A i \in 1 .. Len(w) + Len(o) : (w \o o)[i] = IF i <= Len(w) THEN w[i] ELSE o[i - Len(w)]
  BY ConcatProperties
<1>2. DOMAIN (w \o o) = 1 .. Len(w) + Len(o)
  BY <1>1
<1>3. QED
  BY <1>1, <1>2

LEMMA SayKeeps ==
    ASSUME WebInv, NEW c \in Connections, NEW item \in Requests \cup Frames, Say(c, item)
    PROVE  WebInv'
<1>1. /\ connection[c].stage = "served" /\ peer[c] = "open" /\ MaySay(c, item) /\ item \in Items /\ WebTypeOK /\ AtHand
      /\ said' = [said EXCEPT ![c] = Append(said[c], item)]
      /\ arrived' = [arrived EXCEPT ![c] = Append(arrived[c], item)]
      /\ UNCHANGED <<connection, busy, ended, client, wire, calls, left, peer>>
  BY DEF Say, LoopStays, Items, WebInv
<1>2. /\ connection[c] \in Records /\ wire[c] \in Seq(Sends) /\ said[c] \in Seq(Items) /\ arrived[c] \in Seq(Items)
      /\ calls[c] \in Seq(Events) /\ left[c] \in {"no", "unsent", "ended", "timeout"} /\ Sent(c) \in Seq(Sends)
      /\ connection[c].output \in Seq(Sends)
  BY <1>1, WebTypes
<1>3. Served(connection[c], Sent(c), said[c], arrived[c], "open", calls[c], left[c]) /\ left[c] # "ended"
  BY <1>1, ServedNow
<1>4. ~connection[c].websocket => item \in Requests
  <2>1. SUFFICES ASSUME ~connection[c].websocket PROVE ~Contains(wire[c], "101")
    BY <1>1 DEF MaySay
  <2>2. \A i \in DOMAIN Sent(c) : Sent(c)[i] = "response"
    BY <1>3, <2>1 DEF Served, InHttp
  <2>3. \A i \in 1 .. Len(wire[c]) : i \in DOMAIN Sent(c) /\ Sent(c)[i] = wire[c][i]
    BY <1>2, BeginsWith DEF Sent
  <2>4. QED
    BY <2>2, <2>3 DEF Contains
<1>5. Served(connection[c], Sent(c), Append(said[c], item), Append(arrived[c], item), "open", calls[c], left[c])
  BY <1>1, <1>2, <1>3, <1>4, ItemSaid
<1>6. Append(said[c], item) \in Seq(Items) /\ Append(arrived[c], item) \in Seq(Items)
  BY <1>1, <1>2, AppendProperties
<1>7. AtHand' /\ WebTypeOK' /\ Elsewhere(c) /\ said'[c] = Append(said[c], item) /\ arrived'[c] = Append(arrived[c], item)
  BY <1>1, <1>6 DEF AtHand, WebTypeOK, Elsewhere
<1>8. QED
  BY <1>1, <1>3, <1>5, <1>7, OneKeeps

LEMMA LeaveKeeps ==
    ASSUME WebInv, NEW c \in Connections, NEW how \in {"ended", "reset"}, Leave(c, how)
    PROVE  WebInv'
<1>1. /\ connection[c].stage = "served" /\ peer[c] = "open" /\ WebTypeOK /\ AtHand
      /\ peer' = [peer EXCEPT ![c] = how]
      /\ UNCHANGED <<connection, busy, ended, client, wire, calls, left, said, arrived>>
  BY DEF Leave, LoopStays, WebInv
<1>2. /\ connection[c] \in Records /\ said[c] \in Seq(Items) /\ arrived[c] \in Seq(Items)
      /\ left[c] \in {"no", "unsent", "ended", "timeout"}
  BY <1>1, WebTypes
<1>3. Served(connection[c], Sent(c), said[c], arrived[c], "open", calls[c], left[c]) /\ left[c] # "ended"
  BY <1>1, ServedNow
<1>4. Served(connection[c], Sent(c), said[c], arrived[c], how, calls[c], left[c])
  BY <1>3 DEF Served
<1>5. AtHand' /\ WebTypeOK' /\ Elsewhere(c) /\ peer'[c] = how
  BY <1>1 DEF AtHand, WebTypeOK, Elsewhere
<1>6. QED
  BY <1>1, <1>3, <1>4, <1>5, OneKeeps

LEMMA ReceiveKeeps ==
    ASSUME WebInv, NEW c \in Connections, Receive(c)
    PROVE  WebInv'
<1> DEFINE q == [connection[c] EXCEPT !.input = IF connection[c].draining THEN @ ELSE @ \o arrived[c]]
<1>1. /\ Alive(c) /\ connection[c].stage = "served" /\ WebTypeOK
      /\ connection' = [connection EXCEPT ![c] = q] /\ arrived' = [arrived EXCEPT ![c] = <<>>]
      /\ busy' = c /\ ended' = (peer[c] = "ended")
      /\ UNCHANGED <<client, peer, wire, said, calls, left>>
  BY DEF Receive, Alive, WebInv
<1>2. /\ connection[c] \in Records /\ connection[c].input \in Seq(Items) /\ arrived[c] \in Seq(Items) /\ said[c] \in Seq(Items)
      /\ calls[c] \in Seq(Events) /\ left[c] \in {"no", "unsent", "ended", "timeout"} /\ Sent(c) \in Seq(Sends)
      /\ peer[c] \in {"open", "ended", "reset"}
  BY <1>1, WebTypes
<1>3. connection[c].input \o arrived[c] \in Seq(Items)
  BY <1>2, ConcatProperties
<1>4. /\ Same(q, connection[c]) /\ q.websocket = connection[c].websocket /\ q.closing = connection[c].closing
      /\ q.output = connection[c].output
      /\ q.input = IF connection[c].draining THEN connection[c].input ELSE connection[c].input \o arrived[c]
  BY <1>2, <1>3 DEF Same, Records
<1> HIDE DEF q
<1>5. Alright(connection[c]) /\ Served(connection[c], Sent(c), said[c], arrived[c], peer[c], calls[c], left[c])
  BY <1>1, AliveNow
<1>6. Served(q, Sent(c), said[c], <<>>, peer[c], calls[c], left[c])
  BY <1>2, <1>4, <1>5, InputTaken
<1>7. left[c] = "ended" => peer[c] # "open"
  BY <1>1, ServedNow
<1>8. q \in Records /\ q.stage = "served"
  BY <1>1, <1>4 DEF Same
<1>9. AtHand' /\ WebTypeOK' /\ Elsewhere(c) /\ connection'[c] = q /\ arrived'[c] = <<>>
  <2>1. arrived' \in [Connections -> Seq(Items)] /\ arrived'[c] = <<>>
    BY <1>1, <1>2 DEF WebTypeOK
  <2>2. connection' \in [Connections -> Records] /\ connection'[c] = q
    BY <1>1, <1>8 DEF WebTypeOK
  <2>3. WebTypeOK'
    BY <1>1, <2>1, <2>2 DEF WebTypeOK
  <2>4. AtHand'
    BY <1>1, <2>1 DEF AtHand
  <2>5. Elsewhere(c)
    BY <1>1 DEF Elsewhere, WebTypeOK
  <2>6. QED
    BY <2>1, <2>2, <2>3, <2>4, <2>5
<1>10. QED
  BY <1>1, <1>4, <1>6, <1>7, <1>8, <1>9, OneKeeps

\* A connection that dies of its end or of time.
LEMMA DieKeeps ==
    ASSUME WebInv, NEW c \in Connections, Alive(c), NEW why \in {"ended", "timeout"}, Die(c, why),
           why = "ended" => peer[c] # "open" /\
               (peer[c] = "ended" /\ ~connection[c].closing => connection[c].input = <<>> /\ arrived[c] = <<>>),
           UNCHANGED <<wire, calls, client, said, arrived, peer>>, AtHand', busy' \in Connections \cup {0}, ended' \in BOOLEAN
    PROVE  WebInv'
<1>1. PICK q : q = [connection[c] EXCEPT !.dead = TRUE]
  OBVIOUS
<1>2. /\ connection[c].stage = "served" /\ connection' = [connection EXCEPT ![c] = q] /\ left' = [left EXCEPT ![c] = why]
      /\ WebTypeOK /\ connection[c] \in Records
  BY <1>1, WebTypes DEF Die, Alive, WebInv
<1>3. Served(connection[c], Sent(c), said[c], arrived[c], peer[c], calls[c], left[c])
  BY <1>2, ServedNow
<1>4. PICK r : r = connection[c]
  OBVIOUS
<1>5. /\ Served(q, Sent(c), said[c], arrived[c], peer[c], calls[c], why) /\ q \in Records
      /\ q.stage = r.stage /\ q.output = r.output
  <2>1. r \in Records /\ q = [r EXCEPT !.dead = TRUE] /\ Served(r, Sent(c), said[c], arrived[c], peer[c], calls[c], left[c])
    BY <1>1, <1>2, <1>3, <1>4
  <2>2. why = "ended" /\ peer[c] = "ended" /\ ~r.closing => r.input = <<>> /\ arrived[c] = <<>>
    BY <1>4
  <2>3. QED
    BY <2>1, <2>2, ServedDies
<1>6. WebTypeOK' /\ Elsewhere(c) /\ connection'[c] = q /\ left'[c] = why
  BY <1>2, <1>5 DEF WebTypeOK, Elsewhere
<1>7. QED
  BY <1>2, <1>4, <1>5, <1>6, OneKeeps

LEMMA HandledKeeps ==
    ASSUME WebInv, NEW c \in Connections, Handled(c)
    PROVE  WebInv'
<1>1. /\ busy = c /\ ~More(c) /\ busy' = 0 /\ ended' = FALSE /\ UNCHANGED <<client, wire, calls, arrived, peer, said>>
      /\ WebTypeOK /\ AtHand /\ AtHand'
  BY DEF Handled, PeerStays, WebInv, AtHand
<1>2. CASE ended /\ Alive(c)
  <2>1. Die(c, "ended")
    BY <1>2 DEF Handled
  <2>2. peer[c] = "ended" /\ arrived[c] = <<>>
    <3>1. c # 0
      BY WebAssumption
    <3>2. QED
      BY <1>1, <1>2, <3>1 DEF AtHand
  <2>3. connection[c].closing \/ connection[c].input = <<>>
    BY <1>1, <1>2 DEF More
  <2>4. QED
    BY <1>1, <1>2, <2>1, <2>2, <2>3, DieKeeps
<1>3. CASE ~(ended /\ Alive(c))
  <2>1. UNCHANGED <<connection, left>>
    BY <1>3 DEF Handled
  <2>2. WebTypeOK' /\ ClientHeard' /\ LeftEnded'
    BY <1>1, <2>1 DEF WebTypeOK, ClientHeard, LeftEnded, WebInv
  <2>3. AllSound'
    BY <1>1, <2>1 DEF AllSound, WebInv, Sent
  <2>4. QED
    BY <1>1, <2>2, <2>3 DEF WebInv
<1>4. QED
  BY <1>2, <1>3

LEMMA HangUpKeeps ==
    ASSUME WebInv, NEW c \in Connections, HangUp(c)
    PROVE  WebInv'
<1>1. /\ Alive(c) /\ Die(c, "ended") /\ (peer[c] = "reset" \/ (peer[c] = "ended" /\ connection[c].draining))
      /\ UNCHANGED <<busy, ended, client, wire, calls, arrived, peer, said>>
  BY DEF HangUp, Idle, PeerStays
<1>2. AtHand' /\ busy' \in Connections \cup {0} /\ ended' \in BOOLEAN
  BY <1>1 DEF AtHand, WebInv, WebTypeOK
<1>3. connection[c].draining => connection[c].closing
  BY <1>1, AliveNow DEF Served
<1>4. QED
  BY <1>1, <1>2, <1>3, DieKeeps

LEMMA TimeOutKeeps ==
    ASSUME WebInv, NEW c \in Connections, TimeOut(c)
    PROVE  WebInv'
<1>1. Alive(c) /\ Die(c, "timeout") /\ UNCHANGED <<busy, ended, client, wire, calls, arrived, peer, said>>
  BY DEF TimeOut, Idle, PeerStays
<1>2. AtHand' /\ busy' \in Connections \cup {0} /\ ended' \in BOOLEAN
  BY <1>1 DEF AtHand, WebInv, WebTypeOK
<1>3. QED
  BY <1>1, <1>2, DieKeeps

\* A connection of which nothing is known but its stage.
LEMMA Blank ==
    ASSUME NEW stage \in {"none", "served", "removed"}, NEW q, q = [Fresh EXCEPT !.stage = stage]
    PROVE  /\ q \in Records /\ q.stage = stage /\ ~q.websocket /\ ~q.closing /\ ~q.draining /\ ~q.dead
           /\ q.input = <<>> /\ q.output = <<>>
<1>1. q = [stage |-> stage, websocket |-> FALSE, closing |-> FALSE, draining |-> FALSE, dead |-> FALSE,
           input |-> <<>>, output |-> <<>>, begun |-> FALSE]
  BY DEF Fresh
<1>2. <<>> \in Seq(Items) /\ <<>> \in Seq(Sends)
  OBVIOUS
<1>3. q \in Records
  <2>1. PICK i \in Seq(Items), o \in Seq(Sends), b \in BOOLEAN : i = <<>> /\ o = <<>> /\ b = FALSE
    BY <1>2
  <2>2. q = [stage |-> stage, websocket |-> b, closing |-> b, draining |-> b, dead |-> b,
             input |-> i, output |-> o, begun |-> b]
    BY <1>1, <2>1
  <2>3. QED
    BY ONLY <2>2 DEF Records
<1>4. QED
  BY <1>1, <1>3

LEMMA ConnectKeeps ==
    ASSUME WebInv, NEW c \in Connections, Connect(c)
    PROVE  WebInv'
<1>1. /\ connection[c].stage = "none" /\ connection' = [connection EXCEPT ![c].stage = "served"]
      /\ UNCHANGED <<busy, ended, client, wire, calls, left, arrived, peer, said>>
      /\ WebTypeOK /\ AtHand /\ ClientHeard /\ LeftEnded /\ AllSound
  BY DEF Connect, PeerStays, WebInv
<1>2. /\ connection[c] = [Fresh EXCEPT !.stage = "none"] /\ Sent(c) = <<>> /\ said[c] = <<>> /\ arrived[c] = <<>> /\ calls[c] = <<>>
  BY <1>1 DEF AllSound, SoundRecord
<1>3. connection'[c] = [Fresh EXCEPT !.stage = "served"]
  BY <1>1, <1>2 DEF WebTypeOK, Fresh
<1>4. PICK q : q = [Fresh EXCEPT !.stage = "served"]
  OBVIOUS
<1>5. /\ q \in Records /\ q.stage = "served" /\ ~q.websocket /\ ~q.closing /\ ~q.draining /\ ~q.dead /\ q.input = <<>> /\ q.output = <<>>
  BY <1>4, Blank
<1>6. connection[c].output = <<>>
  BY <1>2 DEF Fresh
<1>7. Served(q, <<>>, <<>>, <<>>, peer[c], <<>>, left[c])
  <2>1. TextsCounted(q, <<>>, <<>>, <<>>)
    BY <1>5, WholesOne DEF TextsCounted
  <2>2. InHttp(q, <<>>, <<>>, <<>>, <<>>)
    BY <1>5 DEF InHttp
  <2>3. QED
    BY <1>5, <2>1, <2>2 DEF Served
<1>8. WebTypeOK' /\ AtHand'
  <2>1. connection' \in [Connections -> Records]
    BY <1>1, <1>3, <1>4, <1>5 DEF WebTypeOK
  <2>2. QED
    BY <1>1, <2>1 DEF WebTypeOK, AtHand
<1>9. ASSUME NEW d \in Connections
      PROVE  /\ SoundRecord(connection'[d], wire'[d] \o connection'[d].output, said'[d], arrived'[d], peer'[d], calls'[d], left'[d])
             /\ connection[d].stage = "served" => connection'[d].stage = "served"
  <2>1. CASE d = c
    <3>1. connection'[d] = q /\ said'[d] = <<>> /\ arrived'[d] = <<>> /\ calls'[d] = <<>> /\ peer'[d] = peer[c] /\ left'[d] = left[c]
      BY <1>1, <1>2, <1>3, <1>4, <2>1
    <3>2. wire'[d] \o connection'[d].output = <<>>
      BY <1>1, <1>2, <1>5, <1>6, <2>1, <3>1 DEF Sent
    <3>3. QED
      BY <1>5, <1>7, <3>1, <3>2 DEF SoundRecord
  <2>2. CASE d # c
    <3>1. connection'[d] = connection[d]
      BY <1>1, <2>2 DEF WebTypeOK
    <3>2. QED
      BY <1>1, <3>1 DEF AllSound, Sent
  <2>3. QED
    BY <2>1, <2>2
<1>10. ClientHeard' /\ LeftEnded' /\ AllSound'
  BY <1>1, <1>9 DEF ClientHeard, LeftEnded, AllSound, Sent, WebTypeOK
<1>11. QED
  BY <1>8, <1>10 DEF WebInv

LEMMA ReapKeeps ==
    ASSUME WebInv, Reap
    PROVE  WebInv'
<1>1. WebTypeOK /\ AtHand /\ ClientHeard /\ LeftEnded /\ AllSound
  BY DEF WebInv
<1>2. /\ connection' = [c \in Connections |-> IF c \in Dead THEN [Fresh EXCEPT !.stage = "removed"] ELSE connection[c]]
      /\ calls' = [c \in Connections |-> IF c \in Dead /\ Known(c) THEN Append(calls[c], "close") ELSE calls[c]]
      /\ client' = IF client \in Dead THEN 0 ELSE client
      /\ arrived' = [c \in Connections |-> IF c \in Dead THEN <<>> ELSE arrived[c]]
      /\ said' = [c \in Connections |-> IF c \in Dead THEN <<>> ELSE said[c]]
      /\ wire' = [c \in Connections |-> IF c \in Dead THEN <<>> ELSE wire[c]]
      /\ UNCHANGED <<busy, ended, peer, left>> /\ busy = 0
  BY DEF Reap, Forgotten
<1>3. PICK q : q = [Fresh EXCEPT !.stage = "removed"]
  OBVIOUS
<1>4. q \in Records /\ q.stage = "removed" /\ q.output = <<>> /\ q = [Fresh EXCEPT !.stage = q.stage]
  BY <1>3, Blank
<1>5. ASSUME NEW c \in Connections
      PROVE  /\ SoundRecord(connection'[c], wire'[c] \o connection'[c].output, said'[c], arrived'[c], peer'[c], calls'[c], left'[c])
             /\ connection'[c] \in Records /\ wire'[c] \in Seq(Sends) /\ arrived'[c] \in Seq(Items) /\ said'[c] \in Seq(Items)
             /\ calls'[c] \in Seq(Events)
  <2>1. calls[c] \in Seq(Events) /\ connection[c] \in Records /\ wire[c] \in Seq(Sends) /\ arrived[c] \in Seq(Items) /\ said[c] \in Seq(Items)
    BY <1>1, WebTypes
  <2>2. CASE c \in Dead
    <3>1. /\ connection'[c] = q /\ wire'[c] = <<>> /\ said'[c] = <<>> /\ arrived'[c] = <<>>
          /\ calls'[c] = IF connection[c].websocket THEN Append(calls[c], "close") ELSE calls[c]
      BY <1>2, <1>3, <2>2 DEF Known
    <3>2. /\ Served(connection[c], Sent(c), said[c], arrived[c], peer[c], calls[c], left[c])
      BY <1>1, <2>2 DEF Dead, AllSound, SoundRecord
    <3>3. HeardOut(calls'[c]) /\ calls'[c] \in Seq(Events)
      <4>1. CASE connection[c].websocket
        <5>1. PICK k : k = Append(calls[c], "close")
          OBVIOUS
        <5>2. /\ k \in Seq(Events) /\ Len(k) = Len(calls[c]) + 1 /\ k[Len(calls[c]) + 1] = "close" /\ Len(calls[c]) \in Nat
              /\ DOMAIN k = 1 .. Len(k) /\ DOMAIN calls[c] = 1 .. Len(calls[c])
              /\ \A i \in 1 .. Len(calls[c]) : k[i] = calls[c][i]
          <6>1. "close" \in Events
            BY DEF Events
          <6>2. QED
            BY <2>1, <5>1, <6>1, AppendProperties
        <5>3. Opened(calls[c]) \/ calls[c] = <<>>
          BY <3>2, <4>1 DEF Served, InFrames
        <5>4. HeardOut(k)
          BY <5>2, <5>3 DEF HeardOut, Opened
        <5>5. QED
          BY <3>1, <4>1, <5>1, <5>2, <5>4
      <4>2. CASE ~connection[c].websocket
        <5>1. calls'[c] = <<>>
          BY <3>1, <3>2, <4>2 DEF Served, InHttp
        <5>2. QED
          BY <5>1 DEF HeardOut
      <4>3. QED
        BY <4>1, <4>2
    <3>4. wire'[c] \o connection'[c].output = <<>>
      BY <1>4, <3>1
    <3>5. QED
      BY <1>4, <3>1, <3>3, <3>4 DEF SoundRecord
  <2>3. CASE c \notin Dead
    <3>1. /\ connection'[c] = connection[c] /\ wire'[c] = wire[c] /\ said'[c] = said[c] /\ arrived'[c] = arrived[c]
          /\ calls'[c] = calls[c] /\ peer'[c] = peer[c] /\ left'[c] = left[c]
      BY <1>2, <2>3
    <3>2. QED
      BY <1>1, <2>1, <3>1 DEF AllSound, Sent
  <2>4. QED
    BY <2>2, <2>3
<1>6. WebTypeOK'
  BY <1>1, <1>2, <1>5 DEF WebTypeOK
<1>7. AtHand' /\ LeftEnded'
  BY <1>1, <1>2 DEF AtHand, LeftEnded
<1>8. ClientHeard'
  <2>1. SUFFICES ASSUME client' # 0 PROVE connection'[client'].stage = "served" /\ Opened(calls'[client'])
    BY DEF ClientHeard
  <2>2. client' = client /\ client \notin Dead /\ client \in Connections
    BY <1>1, <1>2, <2>1 DEF WebTypeOK
  <2>3. connection'[client] = connection[client] /\ calls'[client] = calls[client]
    BY <1>2, <2>2
  <2>4. QED
    BY <1>1, <2>1, <2>2, <2>3 DEF ClientHeard
<1>9. AllSound'
  BY <1>5 DEF AllSound, Sent
<1>10. QED
  BY <1>6, <1>7, <1>8, <1>9 DEF WebInv

LEMMA WebStarts == WebInit => WebInv
<1>1. SUFFICES ASSUME WebInit PROVE WebInv
  OBVIOUS
<1>2. Fresh \in Records /\ Fresh = [Fresh EXCEPT !.stage = Fresh.stage] /\ Fresh.stage = "none" /\ Fresh.output = <<>>
  BY DEF Fresh, Records
<1>3. WebTypeOK
  <2>1. <<>> \in Seq(Items) /\ <<>> \in Seq(Sends) /\ <<>> \in Seq(Events)
    OBVIOUS
  <2>2. connection \in [Connections -> Records] /\ wire \in [Connections -> Seq(Sends)] /\ calls \in [Connections -> Seq(Events)]
    BY <1>1, <1>2, <2>1 DEF WebInit
  <2>3. arrived \in [Connections -> Seq(Items)] /\ said \in [Connections -> Seq(Items)]
    BY <1>1, <2>1 DEF WebInit
  <2>4. peer \in [Connections -> {"open", "ended", "reset"}] /\ left \in [Connections -> {"no", "unsent", "ended", "timeout"}]
    BY <1>1 DEF WebInit
  <2>5. QED
    BY <1>1, <2>2, <2>3, <2>4 DEF WebInit, WebTypeOK
<1>4. AtHand /\ ClientHeard /\ LeftEnded
  BY <1>1 DEF WebInit, AtHand, ClientHeard, LeftEnded
<1>5. ASSUME NEW c \in Connections
      PROVE  SoundRecord(connection[c], Sent(c), said[c], arrived[c], peer[c], calls[c], left[c])
  <2>1. connection[c] = Fresh /\ wire[c] = <<>> /\ said[c] = <<>> /\ arrived[c] = <<>> /\ calls[c] = <<>>
    BY <1>1 DEF WebInit
  <2>2. Sent(c) = <<>>
    BY <1>2, <2>1 DEF Sent
  <2>3. QED
    BY <1>2, <2>1, <2>2 DEF SoundRecord
<1>6. QED
  BY <1>3, <1>4, <1>5 DEF WebInv, AllSound

LEMMA WebStepKeeps ==
    ASSUME WebInv, [WebNext]_web_vars
    PROVE  WebInv'
<1>1. CASE UNCHANGED web_vars
  <2>1. UNCHANGED <<connection, busy, ended, client, arrived, peer, wire, said, calls, left>>
    BY <1>1 DEF web_vars
  <2>2. WebTypeOK' /\ AtHand' /\ ClientHeard' /\ LeftEnded'
    BY <2>1 DEF WebInv, WebTypeOK, AtHand, ClientHeard, LeftEnded
  <2>3. AllSound'
    BY <2>1 DEF WebInv, AllSound, Sent
  <2>4. QED
    BY <2>2, <2>3 DEF WebInv
<1>2. CASE Reap
  BY <1>2, ReapKeeps
<1>3. ASSUME NEW c \in Connections, Connect(c) \/ Receive(c) \/ Handle(c) \/ Writable(c) \/ HangUp(c) \/ TimeOut(c)
      PROVE  WebInv'
  BY <1>3, ConnectKeeps, ReceiveKeeps, RespondKeeps, UpgradeKeeps, ControlKeeps, DataKeeps, HandledKeeps,
     WritableKeeps, HangUpKeeps, TimeOutKeeps DEF Handle
<1>4. ASSUME NEW c \in Connections, NEW item \in Requests \cup Frames, Say(c, item) PROVE WebInv'
  BY <1>4, SayKeeps
<1>5. ASSUME NEW c \in Connections, NEW how \in {"ended", "reset"}, Leave(c, how) PROVE WebInv'
  BY <1>5, LeaveKeeps
<1>6. ASSUME NEW c \in Connections, NEW item \in {"ping", "text"}, Tell(c, item) PROVE WebInv'
  BY <1>6, TellKeeps
<1>7. QED
  BY <1>1, <1>2, <1>3, <1>4, <1>5, <1>6 DEF WebNext

(* What WebInv says of the handlers, the messages and the wire.            *)
LEMMA HandlersSound == WebInv => HandlersInOrder
<1>1. SUFFICES ASSUME WebInv, NEW c \in Connections
               PROVE  /\ \A i \in DOMAIN calls[c] :
                             /\ calls[c][i] = "open" => i = 1
                             /\ calls[c][i] = "text" => calls[c][1] = "open"
                             /\ calls[c][i] = "close" => i = Len(calls[c]) /\ (i > 1 => calls[c][1] = "open")
                      /\ client = c => calls[c] # <<>> /\ Last(calls[c]) # "close"
                      /\ connection[c].stage = "removed" /\ calls[c] # <<>> => Last(calls[c]) = "close"
  BY DEF HandlersInOrder
<1>2. /\ calls[c] \in Seq(Events) /\ connection[c].stage \in {"none", "served", "removed"}
      /\ SoundRecord(connection[c], Sent(c), said[c], arrived[c], peer[c], calls[c], left[c])
      /\ (client = c => connection[c].stage = "served" /\ Opened(calls[c]))
  <2>1. c # 0
    BY WebAssumption
  <2>2. QED
    BY <1>1, <2>1, WebTypes DEF WebInv, AllSound, ClientHeard
<1>3. PICK k \in Seq(Events) : k = calls[c]
  BY <1>2
<1>4. DOMAIN k = 1 .. Len(k) /\ Len(k) \in Nat /\ (k # <<>> => Len(k) > 0)
  OBVIOUS
<1>5. Opened(k) \/ k = <<>> \/ (HeardOut(k) /\ connection[c].stage = "removed")
  BY <1>2, <1>3 DEF SoundRecord, Served, InFrames, InHttp
<1>6. connection[c].stage = "removed" => HeardOut(k)
  BY <1>2, <1>3 DEF SoundRecord
<1>7. CASE Opened(k)
  <2>1. k # <<>> /\ k[1] = "open" /\ \A i \in 1 .. Len(k) : i > 1 => k[i] = "text"
    BY <1>4, <1>7 DEF Opened
  <2>2. Last(k) # "close"
    BY <1>4, <2>1 DEF Last
  <2>3. ~(connection[c].stage = "removed")
    BY <1>4, <1>6, <2>1, <2>2 DEF HeardOut, Last
  <2>4. QED
    BY <1>3, <1>4, <2>1, <2>2, <2>3
<1>8. CASE k = <<>>
  BY <1>2, <1>3, <1>8 DEF Opened
<1>9. CASE HeardOut(k) /\ connection[c].stage = "removed"
  <2>1. \A i \in 1 .. Len(k) : k[i] = IF i = Len(k) THEN "close" ELSE IF i = 1 THEN "open" ELSE "text"
    BY <1>4, <1>9 DEF HeardOut
  <2>2. client # c
    BY <1>2, <1>9
  <2>3. k # <<>> => Last(k) = "close"
    <3>1. k # <<>> => Len(k) \in 1 .. Len(k)
      BY <1>4
    <3>2. k # <<>> => k[Len(k)] = "close"
      BY <2>1, <3>1
    <3>3. QED
      BY <3>2 DEF Last
  <2>4. QED
    BY <1>3, <1>4, <1>9, <2>1, <2>2, <2>3
<1>10. QED
  BY <1>5, <1>7, <1>8, <1>9

LEMMA MessagesSound == WebInv => MessagesCounted
<1>1. SUFFICES ASSUME WebInv, NEW c \in Connections, connection[c].stage = "served",
                      NEW r, r = connection[c]
               PROVE  /\ Wholes(calls[c]) <= Wholes(said[c])
                      /\ r.dead /\ left[c] = "ended" /\ peer[c] = "ended" /\ ~r.closing =>
                             IF r.websocket THEN Wholes(calls[c]) = Wholes(said[c])
                             ELSE Len(wire[c]) + Len(r.output) = Len(said[c])
  BY DEF MessagesCounted
<1>2. /\ calls[c] \in Seq(Events) /\ said[c] \in Seq(Items) /\ arrived[c] \in Seq(Items) /\ r.input \in Seq(Items)
      /\ wire[c] \in Seq(Sends) /\ r.output \in Seq(Sends)
  BY <1>1, WebTypes DEF WebInv
<1>3. Served(r, Sent(c), said[c], arrived[c], peer[c], calls[c], left[c])
  BY <1>1, ServedNow
<1>4. Wholes(calls[c]) \in Nat /\ Wholes(said[c]) \in Nat /\ Wholes(arrived[c]) \in Nat /\ Wholes(r.input) \in Nat /\ Wholes(<<>>) = 0
  BY <1>2, WholesAre, WholesOne
<1>5. Wholes(calls[c]) <= Wholes(said[c])
  BY <1>3, <1>4 DEF Served, TextsCounted
<1>6. ASSUME r.dead, left[c] = "ended", peer[c] = "ended", ~r.closing
      PROVE  IF r.websocket THEN Wholes(calls[c]) = Wholes(said[c])
             ELSE Len(wire[c]) + Len(r.output) = Len(said[c])
  <2>1. r.input = <<>> /\ arrived[c] = <<>> /\ ~r.draining
    BY <1>3, <1>6 DEF Served
  <2>2. Wholes(calls[c]) = Wholes(said[c])
    BY <1>3, <1>4, <2>1 DEF Served, TextsCounted
  <2>3. Len(Sent(c)) = Len(wire[c]) + Len(r.output)
    BY <1>1, <1>2, ConcatProperties DEF Sent
  <2>4. ~r.websocket => Len(Sent(c)) + Len(<<>>) + Len(<<>>) = Len(said[c])
    BY <1>3, <2>1 DEF Served, InHttp
  <2>5. ~r.websocket => Len(wire[c]) + Len(r.output) = Len(said[c])
    <3>1. Len(Sent(c)) \in Nat /\ Len(<<>>) = 0
      BY <1>1, WebTypes DEF WebInv
    <3>2. PICK n \in Nat, z \in Nat : n = Len(Sent(c)) /\ z = Len(<<>>) /\ z = 0
      BY <3>1
    <3>3. ~r.websocket => n + z + z = Len(said[c])
      BY <2>4, <3>2
    <3>4. n + z + z = n
      BY <3>2
    <3>5. QED
      BY ONLY <2>3, <3>2, <3>3, <3>4
  <2>6. QED
    BY <2>2, <2>5
<1>7. QED
  BY <1>5, <1>6

LEMMA WireSound == WebInv => WireInOrder
<1>1. SUFFICES ASSUME WebInv, NEW c \in Connections PROVE Ordered(wire[c])
  BY DEF WireInOrder, Ordered
<1>2. /\ wire[c] \in Seq(Sends) /\ connection[c].output \in Seq(Sends)
      /\ SoundRecord(connection[c], Sent(c), said[c], arrived[c], peer[c], calls[c], left[c])
  BY <1>1, WebTypes DEF WebInv, AllSound
<1>3. Ordered(Sent(c))
  <2>1. CASE Sent(c) = <<>>
    BY <2>1 DEF Ordered
  <2>2. CASE InFrames(connection[c], Sent(c), calls[c])
    BY <2>2 DEF InFrames
  <2>3. CASE InHttp(connection[c], Sent(c), said[c], arrived[c], calls[c])
    <3>1. PICK v \in Seq(Sends) : v = Sent(c)
      BY <1>1, WebTypes DEF WebInv
    <3>2. \A i \in DOMAIN v : v[i] = "response"
      BY <2>3, <3>1 DEF InHttp
    <3>3. DOMAIN v = 1 .. Len(v) /\ Len(v) \in Nat /\ (v # <<>> => Len(v) > 0)
      OBVIOUS
    <3>4. Ordered(v)
      BY <3>2, <3>3 DEF Ordered
    <3>5. QED
      BY <3>1, <3>4
  <2>4. QED
    BY <1>2, <2>1, <2>2, <2>3 DEF SoundRecord, Served
<1>4. QED
  BY <1>2, <1>3, OrderOfPart DEF Sent

-----------------------------------------------------------------------------
(* WebInv is kept by everything peers do and by the server's loop: by the  *)
(* handling of each item (handle_http, handle_frames), each outcome of     *)
(* flush, time-outs and reap.                                              *)
THEOREM WebInvariance == WebSpec => []WebInv
<1>1. WebInit => WebInv
  BY WebStarts
<1>2. WebInv /\ [WebNext]_web_vars => WebInv'
  BY WebStepKeeps
<1>3. QED
  BY <1>1, <1>2, PTL DEF WebSpec

(* Input is handled and output sent once, and in order: on_open, on_text   *)
(* and on_close are called in their order, what arrived with the end of a  *)
(* connection is handled, and behind a close frame nothing else is sent.   *)
THEOREM ServedAlways == WebSpec => []ServedInOrder
<1>1. WebInv => ServedInOrder
  BY HandlersSound, MessagesSound, WireSound DEF ServedInOrder
<1>2. QED
  BY <1>1, WebInvariance, PTL

-----------------------------------------------------------------------------
(* The viewer.                                                             *)
\* Counting up to a bound, for a property given by the set of its numbers.
LEMMA Counting ==
    ASSUME NEW N \in Nat, NEW T, 0 \in T, \A i \in 0 .. N - 1 : i \in T => i + 1 \in T
    PROVE  \A i \in 0 .. N : i \in T
<1> SUFFICES ASSUME NEW j \in 0 .. N, j \notin T PROVE FALSE
  OBVIOUS
<1> DEFINE Missed == {k \in Nat : k \in 0 .. N /\ k \notin T}
           Less == {p \in Nat \X Nat : p[1] < p[2]}
<1>1. IsWellFoundedOn(Less, Nat)
  BY NatLessThanWellFounded DEF OpToRel
<1>2. Missed \in SUBSET Nat /\ Missed # {}
  OBVIOUS
<1>3. PICK i \in Missed : \A k \in Missed : ~(<<k, i>> \in Less)
  BY <1>1, <1>2, WFMin
<1>4. i # 0 /\ i - 1 \in 0 .. N - 1 /\ i - 1 \in Nat
  OBVIOUS
<1>5. i - 1 \notin T
  BY <1>4
<1>6. <<i - 1, i>> \in Less
  BY <1>4
<1>7. QED
  BY <1>3, <1>4, <1>5, <1>6

-----------------------------------------------------------------------------
(* Sums.                                                                   *)

\* The sums of the first numbers of a sequence.
IsSums(g, v) ==
    /\ g \in [0 .. Len(v) -> Int] /\ g[0] = 0
    /\ \A i \in 0 .. Len(v) - 1 : g[i + 1] = g[i] + v[i + 1]

LEMMA SumsExist == ASSUME NEW v \in Seq(Int) PROVE \E g : IsSums(g, v)
<1> DEFINE Upto(n) == {g \in [0 .. n -> Int] : g[0] = 0 /\ \A i \in 0 .. n - 1 : g[i + 1] = g[i] + v[i + 1]}
           Reached == {n \in Nat : Upto(n) # {}}
<1>1. 0 \in Reached
  <2>1. [i \in 0 .. 0 |-> 0] \in Upto(0)
    OBVIOUS
  <2>2. QED
    BY <2>1
<1>2. ASSUME NEW n \in 0 .. Len(v) - 1, n \in Reached PROVE n + 1 \in Reached
  <2>1. PICK g : g \in Upto(n)
    BY <1>2
  <2> DEFINE h == [i \in 0 .. n + 1 |-> IF i = n + 1 THEN g[n] + v[n + 1] ELSE g[i]]
  <2>2. v[n + 1] \in Int
    OBVIOUS
  <2>3. h \in [0 .. n + 1 -> Int] /\ h[0] = 0
    BY <2>1, <2>2
  <2>4. \A i \in 0 .. n : h[i + 1] = h[i] + v[i + 1]
    BY <2>1
  <2> HIDE DEF h
  <2>5. n + 1 \in Nat /\ n + 1 - 1 = n
    OBVIOUS
  <2>6. QED
    BY <2>3, <2>4, <2>5
<1>3. Len(v) \in Nat
  OBVIOUS
<1>4. Len(v) \in Reached
  <2> HIDE DEF Reached
  <2>1. \A i \in 0 .. Len(v) : i \in Reached
    BY <1>1, <1>2, <1>3, Counting
  <2>2. QED
    BY <2>1, <1>3
<1>5. QED
  BY <1>4 DEF IsSums

\* The total is the last of the sums, however they were found.
LEMMA TotalIs == ASSUME NEW v \in Seq(Int), NEW g, IsSums(g, v) PROVE Total(v) = g[Len(v)] /\ Total(v) \in Int
<1> DEFINE Unfold(f) == [n \in 0 .. Len(v) |-> IF n = 0 THEN 0 ELSE f[n - 1] + v[n]]
           found == CHOOSE f : f = Unfold(f)
<1>0. Len(v) \in Nat
  OBVIOUS
<1>1. g = Unfold(g)
  <2>1. ASSUME NEW n \in 0 .. Len(v), n # 0 PROVE g[n] = g[n - 1] + v[n]
    <3>1. n - 1 \in 0 .. Len(v) - 1 /\ (n - 1) + 1 = n
      BY <1>0, <2>1
    <3>2. QED
      BY <3>1 DEF IsSums
  <2>2. QED
    BY <2>1 DEF IsSums
<1>2. found = Unfold(found)
  BY <1>1
<1>3. Total(v) = found[Len(v)]
  BY DEF Total
<1> HIDE DEF found
<1> DEFINE Agreed == {n \in Nat : found[n] = g[n]}
<1>4. 0 \in Agreed
  BY <1>0, <1>2 DEF IsSums
<1>5. \A n \in 0 .. Len(v) - 1 : n \in Agreed => n + 1 \in Agreed
  <2> SUFFICES ASSUME NEW n \in 0 .. Len(v) - 1, n \in Agreed PROVE n + 1 \in Agreed
    OBVIOUS
  <2>1. n + 1 \in 0 .. Len(v) /\ n + 1 # 0 /\ (n + 1) - 1 = n /\ n + 1 \in Nat
    BY <1>0
  <2>2. found[n + 1] = found[n] + v[n + 1]
    BY <1>2, <2>1
  <2>3. QED
    BY <2>1, <2>2 DEF IsSums
<1>6. Len(v) \in Agreed
  <2> HIDE DEF Agreed
  <2>1. \A n \in 0 .. Len(v) : n \in Agreed
    BY <1>0, <1>4, <1>5, Counting
  <2>2. QED
    BY <2>1, <1>0
<1>7. QED
  BY <1>0, <1>3, <1>6 DEF IsSums

LEMMA TotalEmpty == ASSUME NEW v \in Seq(Int), Len(v) = 0 PROVE Total(v) = 0
<1>1. IsSums([i \in 0 .. 0 |-> 0], v)
  BY DEF IsSums
<1>2. QED
  BY <1>1, TotalIs

LEMMA TotalAppend ==
    ASSUME NEW v \in Seq(Int), NEW x \in Int, NEW w \in Seq(Int), Len(w) = Len(v) + 1, w[Len(w)] = x,
           \A i \in 1 .. Len(v) : w[i] = v[i]
    PROVE  Total(w) = Total(v) + x
<1>1. PICK g : IsSums(g, v)
  BY SumsExist
<1>2. PICK n \in Nat : n = Len(v)
  OBVIOUS
<1> DEFINE h == [i \in 0 .. n + 1 |-> IF i = n + 1 THEN g[n] + x ELSE g[i]]
<1>3. h \in [0 .. n + 1 -> Int] /\ h[0] = 0
  BY <1>1, <1>2 DEF IsSums
<1>4. ASSUME NEW i \in 0 .. n PROVE h[i + 1] = h[i] + w[i + 1]
  <2>1. CASE i = n
    BY <2>1, <1>2
  <2>2. CASE i # n
    <3>1. i \in 0 .. Len(v) - 1 /\ i + 1 \in 1 .. Len(v) /\ i + 1 # n + 1 /\ i # n + 1
      BY <2>2, <1>2
    <3>2. g[i + 1] = g[i] + v[i + 1] /\ w[i + 1] = v[i + 1]
      BY <1>1, <3>1 DEF IsSums
    <3>3. QED
      BY <3>1, <3>2
  <2>3. QED
    BY <2>1, <2>2
<1>5. h[n + 1] = g[n] + x
  OBVIOUS
<1> HIDE DEF h
<1>6. IsSums(h, w)
  BY <1>2, <1>3, <1>4 DEF IsSums
<1>7. Total(w) = h[Len(w)] /\ Total(v) = g[Len(v)]
  BY <1>1, <1>6, TotalIs
<1>8. QED
  BY <1>2, <1>5, <1>7

\* A sequence is cut in two: p has its first n numbers, s the rest.
IsCut(v, n, p, s) ==
    /\ Len(p) = n /\ \A i \in 1 .. n : p[i] = v[i]
    /\ Len(s) = Len(v) - n /\ \A i \in 1 .. Len(s) : s[i] = v[n + i]

LEMMA TotalCut ==
    ASSUME NEW v \in Seq(Int), NEW n \in 0 .. Len(v), NEW p \in Seq(Int), NEW s \in Seq(Int), IsCut(v, n, p, s)
    PROVE  Total(s) = Total(v) - Total(p)
<1>1. PICK g : IsSums(g, v)
  BY SumsExist
<1>2. PICK l \in Nat, k \in Nat : l = Len(v) /\ k = Len(s) /\ l = n + k /\ n \in Nat
  <2>1. Len(v) \in Nat /\ Len(v) - n \in Nat /\ n \in Nat /\ Len(v) = n + (Len(v) - n)
    OBVIOUS
  <2>2. QED
    BY <2>1 DEF IsCut
<1>3. g \in [0 .. n + k -> Int] /\ g[0] = 0 /\ \A i \in 0 .. n + k - 1 : g[i + 1] = g[i] + v[i + 1]
  BY <1>1, <1>2 DEF IsSums
<1> DEFINE a == [i \in 0 .. n |-> g[i]]
           b == [i \in 0 .. k |-> g[n + i] - g[n]]
<1>4. IsSums(a, p)
  <2>1. a \in [0 .. n -> Int] /\ a[0] = 0
    <3>1. \A i \in 0 .. n : i \in 0 .. n + k
      BY ONLY <1>2
    <3>2. 0 \in 0 .. n
      BY <1>2
    <3>3. QED
      BY <1>3, <3>1, <3>2
  <2>2. ASSUME NEW i \in 0 .. n - 1 PROVE a[i + 1] = a[i] + p[i + 1]
    <3>1. i \in 0 .. n + k - 1 /\ i + 1 \in 1 .. n /\ i \in 0 .. n /\ i + 1 \in 0 .. n
      BY ONLY <1>2, i \in 0 .. n - 1
    <3>2. g[i + 1] = g[i] + v[i + 1] /\ p[i + 1] = v[i + 1]
      BY <1>3, <3>1 DEF IsCut
    <3>3. QED
      BY <3>1, <3>2
  <2> HIDE DEF a
  <2>3. Len(p) = n
    BY DEF IsCut
  <2>4. QED
    BY <2>1, <2>2, <2>3 DEF IsSums
<1>5. IsSums(b, s)
  <2>1. b \in [0 .. k -> Int] /\ b[0] = 0
    <3>1. ASSUME NEW i \in 0 .. k PROVE g[n + i] - g[n] \in Int
      <4>1. n + i \in 0 .. n + k /\ n \in 0 .. n + k
        BY ONLY <1>2, i \in 0 .. k
      <4>2. QED
        BY <1>3, <4>1
    <3>2. g[n + 0] - g[n] = 0 /\ 0 \in 0 .. k
      <4>1. n \in 0 .. n + k /\ n + 0 = n
        BY ONLY <1>2
      <4>2. g[n] \in Int
        BY <4>1, <1>3
      <4>3. QED
        BY <4>1, <4>2, <1>2
    <3>3. QED
      BY <3>1, <3>2
  <2>2. ASSUME NEW i \in 0 .. k - 1 PROVE b[i + 1] = b[i] + s[i + 1]
    <3>1. /\ n + i \in 0 .. n + k - 1 /\ (n + i) + 1 = n + (i + 1) /\ n + i \in 0 .. n + k /\ n \in 0 .. n + k
          /\ i + 1 \in 1 .. k /\ i \in 0 .. k /\ i + 1 \in 0 .. k
      BY ONLY <1>2, i \in 0 .. k - 1
    <3>2. g[n + (i + 1)] = g[n + i] + v[n + (i + 1)]
      BY <1>3, <3>1
    <3>3. s[i + 1] = v[n + (i + 1)]
      BY <1>2, <3>1 DEF IsCut
    <3>4. s[i + 1] \in Int
      BY <1>2, <3>1
    <3>5. g[n + i] \in Int /\ g[n] \in Int
      BY <1>3, <3>1
    <3>6. QED
      BY <3>1, <3>2, <3>3, <3>4, <3>5
  <2> HIDE DEF b
  <2>3. QED
    BY <1>2, <2>1, <2>2 DEF IsSums
<1>6. a[n] = g[n] /\ b[k] = g[n + k] - g[n]
  BY <1>2
<1> HIDE DEF a, b
<1>7. Total(p) = a[n] /\ Total(s) = b[k] /\ Total(v) = g[n + k]
  <2>1. Total(p) = a[Len(p)] /\ Total(s) = b[Len(s)] /\ Total(v) = g[Len(v)]
    BY <1>1, <1>4, <1>5, TotalIs
  <2>2. QED
    BY <2>1, <1>2 DEF IsCut
<1>8. g[n + k] \in Int /\ g[n] \in Int
  <2>1. n + k \in 0 .. n + k /\ n \in 0 .. n + k
    BY ONLY <1>2
  <2>2. QED
    BY <1>3, <2>1
<1>9. QED
  BY <1>6, <1>7, <1>8


-----------------------------------------------------------------------------
(* The frames in flight.                                                   *)
Numbers == 0 .. Wrap - 1
InFlight == [sequence : Numbers, bytes : Sizes, alone : BOOLEAN]
Flows == [sequence : Numbers, in_flight : Seq(InFlight), bytes : Int, last : Nat,
          window : Nat, probing : BOOLEAN]

\* The frames in flight are the last ones sent, in order; the window is open as
\* long as there are any.
InOrder(f) ==
    \A i \in 1 .. Len(f.in_flight) : f.in_flight[i].sequence = (f.sequence - (Len(f.in_flight) - i)) % Wrap
Flowing(f) ==
    /\ f \in Flows /\ f.bytes = Bytes(f.in_flight) /\ InOrder(f)
    /\ f.in_flight # <<>> => f.window > 0

LEMMA BytesOf == ASSUME NEW s \in InFlight PROVE s.bytes \in Sizes /\ s.bytes \in Nat /\ s.bytes > 0
<1>1. s.bytes \in Sizes
  BY DEF InFlight
<1>2. Sizes \subseteq Nat \ {0}
  BY ViewerAssumption DEF ViewerAssumption
<1>3. s.bytes \in Nat \ {0}
  BY <1>1, <1>2
<1>4. QED
  BY <1>1, <1>3

Loads(flight) == [i \in DOMAIN flight |-> flight[i].bytes]

LEMMA LoadsOf ==
    ASSUME NEW q \in Seq(InFlight)
    PROVE  /\ Loads(q) \in Seq(Int) /\ Len(Loads(q)) = Len(q) /\ \A i \in 1 .. Len(q) : Loads(q)[i] = q[i].bytes
           /\ Bytes(q) = Total(Loads(q)) /\ Bytes(q) \in Int
<1>1. \A i \in 1 .. Len(q) : q[i].bytes \in Int
  <2> TAKE i \in 1 .. Len(q)
  <2>1. PICK s \in InFlight : s = q[i]
    OBVIOUS
  <2>2. QED
    BY <2>1, BytesOf
<1>2. DOMAIN q = 1 .. Len(q) /\ Len(q) \in Nat
  OBVIOUS
<1>3. Loads(q) = [i \in 1 .. Len(q) |-> q[i].bytes]
  BY <1>2 DEF Loads
<1>4. Loads(q) \in Seq(Int) /\ Len(Loads(q)) = Len(q)
  BY <1>1, <1>2, <1>3
<1>5. \A i \in 1 .. Len(q) : Loads(q)[i] = q[i].bytes
  BY <1>3
<1>6. Bytes(q) = Total(Loads(q))
  BY DEF Bytes, Loads
<1>7. Total(Loads(q)) \in Int
  BY <1>4, SumsExist, TotalIs
<1>8. QED
  BY <1>4, <1>5, <1>6, <1>7

LEMMA NoBytes == Bytes(<<>>) = 0
<1>1. <<>> \in Seq(InFlight) /\ Len(<<>>) = 0
  OBVIOUS
<1>2. QED
  BY <1>1, LoadsOf, TotalEmpty

LEMMA BytesAppend ==
    ASSUME NEW q \in Seq(InFlight), NEW s \in InFlight
    PROVE  Bytes(Append(q, s)) = Bytes(q) + s.bytes
<1>1. PICK a : a = Append(q, s)
  OBVIOUS
<1>2. a \in Seq(InFlight) /\ Len(a) = Len(q) + 1 /\ a[Len(a)] = s /\ \A i \in 1 .. Len(q) : a[i] = q[i]
  BY <1>1
<1>3. s.bytes \in Int
  BY BytesOf
<1>4. /\ Loads(q) \in Seq(Int) /\ Len(Loads(q)) = Len(q) /\ \A i \in 1 .. Len(q) : Loads(q)[i] = q[i].bytes
      /\ Bytes(q) = Total(Loads(q))
  BY LoadsOf
<1>5. /\ Loads(a) \in Seq(Int) /\ Len(Loads(a)) = Len(a) /\ \A i \in 1 .. Len(a) : Loads(a)[i] = a[i].bytes
      /\ Bytes(a) = Total(Loads(a))
  BY <1>2, LoadsOf
<1>6. PICK v \in Seq(Int), w \in Seq(Int) : v = Loads(q) /\ w = Loads(a)
  BY <1>4, <1>5
<1>7. Len(w) = Len(v) + 1 /\ w[Len(w)] = s.bytes /\ \A i \in 1 .. Len(v) : w[i] = v[i]
  <2>1. Len(q) \in Nat /\ Len(v) = Len(q) /\ Len(w) = Len(q) + 1 /\ Len(a) = Len(q) + 1
    BY <1>2, <1>4, <1>5, <1>6
  <2>2. Len(a) \in 1 .. Len(a) /\ \A i \in 1 .. Len(q) : i \in 1 .. Len(a)
    BY <2>1
  <2>3. w[Len(a)] = s.bytes
    BY <1>2, <1>5, <1>6, <2>2
  <2>4. QED
    BY <1>2, <1>4, <1>5, <1>6, <2>1, <2>2, <2>3
<1>8. Total(w) = Total(v) + s.bytes
  BY <1>3, <1>7, TotalAppend
<1>9. QED
  BY <1>1, <1>4, <1>5, <1>6, <1>8

LEMMA BytesCut ==
    ASSUME NEW q \in Seq(InFlight), NEW n \in 0 .. Len(q)
    PROVE  /\ SubSeq(q, n + 1, Len(q)) \in Seq(InFlight) /\ Len(SubSeq(q, n + 1, Len(q))) = Len(q) - n
           /\ \A i \in 1 .. Len(q) - n : SubSeq(q, n + 1, Len(q))[i] = q[n + i]
           /\ Bytes(SubSeq(q, n + 1, Len(q))) = Bytes(q) - Bytes(SubSeq(q, 1, n))
<1>1. PICK p : p = SubSeq(q, 1, n)
  OBVIOUS
<1>2. PICK s : s = SubSeq(q, n + 1, Len(q))
  OBVIOUS
<1>3. Len(q) \in Nat /\ n \in Nat /\ Len(q) - n \in Nat /\ n <= Len(q)
  OBVIOUS
<1>4. p \in Seq(InFlight) /\ Len(p) = n /\ \A i \in 1 .. n : p[i] = q[i]
  BY <1>1, <1>3
<1>5. s \in Seq(InFlight) /\ Len(s) = Len(q) - n /\ \A i \in 1 .. Len(q) - n : s[i] = q[n + i]
  <2>1. \A i \in 1 .. Len(q) - n : (n + 1) + i - 1 = n + i
    BY <1>3
  <2>2. Len(s) = Len(q) - n /\ s \in Seq(InFlight)
    BY <1>2, <1>3
  <2>3. \A i \in 1 .. Len(q) - n : s[i] = q[(n + 1) + i - 1]
    BY <1>2, <1>3
  <2>4. QED
    BY <2>1, <2>2, <2>3
<1>6. PICK v \in Seq(Int), u \in Seq(Int), w \in Seq(Int) : v = Loads(q) /\ u = Loads(p) /\ w = Loads(s)
  BY <1>4, <1>5, LoadsOf
<1>7. Len(v) = Len(q) /\ Len(u) = n /\ Len(w) = Len(q) - n
  BY <1>4, <1>5, <1>6, LoadsOf
<1>8. \A i \in 1 .. n : u[i] = v[i]
  <2> TAKE i \in 1 .. n
  <2>1. i \in 1 .. Len(q) /\ i \in 1 .. Len(p)
    BY <1>3, <1>4
  <2>2. u[i] = p[i].bytes /\ v[i] = q[i].bytes
    BY <1>4, <1>6, <2>1, LoadsOf
  <2>3. QED
    BY <1>4, <2>2
<1>9. \A i \in 1 .. Len(q) - n : w[i] = v[n + i]
  <2> TAKE i \in 1 .. Len(q) - n
  <2>1. n + i \in 1 .. Len(q) /\ i \in 1 .. Len(s)
    BY <1>3, <1>5
  <2>2. w[i] = s[i].bytes /\ v[n + i] = q[n + i].bytes
    BY <1>5, <1>6, <2>1, LoadsOf
  <2>3. QED
    BY <1>5, <2>2
<1>10. IsCut(v, n, u, w) /\ n \in 0 .. Len(v)
  BY <1>7, <1>8, <1>9 DEF IsCut
<1>11. Total(w) = Total(v) - Total(u)
  BY <1>10, TotalCut
<1>12. Bytes(q) = Total(v) /\ Bytes(p) = Total(u) /\ Bytes(s) = Total(w)
  BY <1>4, <1>5, <1>6, LoadsOf
<1>13. QED
  BY <1>1, <1>2, <1>5, <1>11, <1>12

-----------------------------------------------------------------------------
(* Sequence numbers.                                                       *)
LEMMA Remainder ==
    ASSUME NEW m \in Nat \ {0}, NEW a \in Int
    PROVE  a % m \in 0 .. m - 1 /\ (a + m) % m = a % m
<1> DEFINE q == a \div m
           r == a % m
<1>1. a = m * q + r /\ q \in Int /\ r \in 0 .. m - 1
  BY SMT
<1> HIDE DEF q, r
<1>2. a + m = m * (q + 1) + r
  BY <1>1, SMT
<1>3. (a + m) % m = r
  BY <1>1, <1>2, SMT
<1>4. QED
  BY <1>1, <1>3 DEF r

\* The frame sent k frames before number s is the one sent k + 1 before the next.
LEMMA NextNumber ==
    ASSUME NEW s \in Numbers, NEW k \in Nat
    PROVE  /\ (s + 1) % Wrap \in Numbers /\ (((s + 1) % Wrap) - 0) % Wrap = (s + 1) % Wrap
           /\ (s - k) % Wrap = (((s + 1) % Wrap) - (k + 1)) % Wrap
<1>1. PICK m \in Nat \ {0} : m = Wrap /\ m > 1
  BY ViewerAssumption DEF ViewerAssumption
<1>2. s \in 0 .. m - 1
  BY <1>1 DEF Numbers
<1>3. CASE s = m - 1
  <2>1. (s + 1) % m = 0 /\ (0 - 0) % m = 0
    BY <1>1, <1>3
  <2>2. s - k = (0 - (k + 1)) + m /\ 0 - (k + 1) \in Int
    BY <1>3
  <2>3. (s - k) % m = (0 - (k + 1)) % m
    BY <2>2, Remainder
  <2>4. QED
    BY <1>1, <2>1, <2>3 DEF Numbers
<1>4. CASE s < m - 1
  <2>1. s + 1 \in 0 .. m - 1 /\ (s + 1) - 0 = s + 1 /\ (s + 1) - (k + 1) = s - k
    BY <1>2, <1>4
  <2>2. (s + 1) % m = s + 1
    BY <1>2, <1>4
  <2>3. QED
    BY <1>1, <2>1, <2>2 DEF Numbers
<1>5. QED
  BY <1>2, <1>3, <1>4


LEMMA Fields ==
    ASSUME NEW f \in Flows
    PROVE  /\ f.sequence \in Numbers /\ f.in_flight \in Seq(InFlight) /\ f.bytes \in Int /\ f.last \in Nat
           /\ f.window \in Nat /\ f.probing \in BOOLEAN
BY DEF Flows

\* serve.cpp 632-667: a frame is sent, and joins those in flight.
Joined(f, size, t) ==
    t = [f EXCEPT !.sequence = (f.sequence + 1) % Wrap,
                  !.in_flight = Append(@, [sequence |-> (f.sequence + 1) % Wrap, bytes |-> size,
                                           alone |-> f.in_flight = <<>>]),
                  !.bytes = @ + size, !.last = size, !.window = IF @ = 0 THEN size ELSE @]

LEMMA SentFlows ==
    ASSUME NEW f, Flowing(f), NEW size \in Sizes, NEW t, Joined(f, size, t)
    PROVE  Flowing(t)
<1>1. f \in Flows /\ f.bytes = Bytes(f.in_flight) /\ InOrder(f)
  BY DEF Flowing
<1>2. PICK n \in Numbers : n = (f.sequence + 1) % Wrap
  BY <1>1, Fields, NextNumber
<1>3. PICK s \in InFlight : s = [sequence |-> n, bytes |-> size, alone |-> f.in_flight = <<>>]
  <2>1. PICK b \in BOOLEAN : b = (f.in_flight = <<>>)
    OBVIOUS
  <2>2. [sequence |-> n, bytes |-> size, alone |-> b] \in InFlight
    BY DEF InFlight
  <2>3. QED
    BY <2>1, <2>2
<1>4. s.bytes = size /\ s.sequence = n /\ size \in Nat /\ size > 0
  BY <1>3, BytesOf
<1>5. PICK q \in Seq(InFlight) : q = f.in_flight
  BY <1>1, Fields
<1>6. PICK a \in Seq(InFlight) : a = Append(q, s)
  <2>1. Append(q, s) \in Seq(InFlight)
    BY ONLY q \in Seq(InFlight), s \in InFlight, AppendProperties
  <2>2. QED
    BY <2>1
<1>7. /\ t.sequence = n /\ t.in_flight = a /\ t.bytes = f.bytes + size
      /\ t.window = IF f.window = 0 THEN size ELSE f.window
      /\ t \in Flows
  <2>1. PICK b \in Int, w \in Nat : b = f.bytes /\ w = f.window
    BY <1>1, Fields
  <2>2. b + size \in Int /\ (IF w = 0 THEN size ELSE w) \in Nat
    BY <1>4
  <2>3. t = [f EXCEPT !.sequence = n, !.in_flight = a, !.bytes = b + size, !.last = size,
                      !.window = IF w = 0 THEN size ELSE w]
    BY <1>1, <1>2, <1>3, <1>5, <1>6, <2>1 DEF Joined, Flows
  <2>4. QED
    BY <1>1, <1>4, <2>1, <2>2, <2>3 DEF Flows
<1>8. t.window > 0
  <2>1. PICK w \in Nat : w = f.window
    BY <1>1, Fields
  <2>2. QED
    BY <1>4, <1>7, <2>1
<1>9. t.bytes = Bytes(t.in_flight)
  BY <1>1, <1>4, <1>5, <1>6, <1>7, BytesAppend
<1>10. InOrder(t)
  <2>1. Len(a) = Len(q) + 1 /\ a[Len(q) + 1] = s /\ \A i \in 1 .. Len(q) : a[i] = q[i]
    BY <1>6
  <2>2. PICK l \in Nat : l = Len(q) /\ Len(a) = l + 1
    BY <2>1
  <2> SUFFICES ASSUME NEW i \in 1 .. l + 1 PROVE a[i].sequence = (n - (l + 1 - i)) % Wrap
    BY <1>7, <2>2 DEF InOrder
  <2>3. CASE i = l + 1
    <3>1. l + 1 - i = 0
      BY <2>3
    <3>2. (n - 0) % Wrap = n
      BY <1>1, <1>2, Fields, NextNumber
    <3>3. QED
      BY <1>4, <2>1, <2>2, <2>3, <3>1, <3>2
  <2>4. CASE i # l + 1
    <3>1. i \in 1 .. l /\ l - i \in Nat /\ l + 1 - i = (l - i) + 1
      BY <2>4
    <3>2. q[i].sequence = (f.sequence - (l - i)) % Wrap
      BY <1>1, <1>5, <2>2, <3>1 DEF InOrder
    <3>3. (f.sequence - (l - i)) % Wrap = (n - ((l - i) + 1)) % Wrap
      BY <1>1, <1>2, <3>1, Fields, NextNumber
    <3>4. QED
      BY <2>1, <2>2, <3>1, <3>2, <3>3
  <2>5. QED
    BY <2>3, <2>4
<1>11. QED
  BY <1>7, <1>8, <1>9, <1>10 DEF Flowing

\* The first frames in flight leave, for whatever reason.
LEMMA WithoutFlows ==
    ASSUME NEW f, Flowing(f), NEW n \in 0 .. Len(f.in_flight)
    PROVE  Flowing(Without(f, n))
<1>1. f \in Flows /\ f.bytes = Bytes(f.in_flight) /\ InOrder(f)
  BY DEF Flowing
<1>2. PICK q \in Seq(InFlight) : q = f.in_flight
  BY <1>1, Fields
<1>3. PICK s \in Seq(InFlight) : s = SubSeq(q, n + 1, Len(q))
  BY <1>2, BytesCut
<1>4. PICK t : t = Without(f, n)
  OBVIOUS
<1>5. SubSeq(q, 1, n) \in Seq(InFlight)
  BY <1>2
<1>6. PICK b \in Int : b = f.bytes - Bytes(SubSeq(q, 1, n))
  <2>1. PICK a \in Int, b \in Int : a = f.bytes /\ b = Bytes(SubSeq(q, 1, n))
    BY <1>1, <1>5, Fields, LoadsOf
  <2>2. QED
    BY <2>1
<1>7. /\ t \in Flows /\ t.in_flight = s /\ t.bytes = b /\ t.sequence = f.sequence /\ t.window = f.window
  BY <1>1, <1>2, <1>3, <1>4, <1>6 DEF Without, Paid, Flows
<1>8. Bytes(s) = Bytes(q) - Bytes(SubSeq(q, 1, n)) /\ Len(s) = Len(q) - n
      /\ \A i \in 1 .. Len(q) - n : s[i] = q[n + i]
  BY <1>2, <1>3, BytesCut
<1>9. InOrder(t)
  <2>1. PICK l \in Nat, k \in Nat : l = Len(q) /\ k = l - n /\ k = Len(s) /\ n \in Nat
    BY <1>2, <1>8
  <2> SUFFICES ASSUME NEW i \in 1 .. k PROVE s[i].sequence = (f.sequence - (k - i)) % Wrap
    BY <1>7, <2>1 DEF InOrder
  <2>2. n + i \in 1 .. l /\ l - (n + i) = k - i
    BY <2>1
  <2>3. q[n + i].sequence = (f.sequence - (l - (n + i))) % Wrap
    BY <1>1, <1>2, <2>1, <2>2 DEF InOrder
  <2>4. QED
    BY <1>8, <2>1, <2>2, <2>3
<1>10. t.in_flight # <<>> => t.window > 0
  <2>1. q = <<>> => s = <<>>
    BY <1>2, <1>8
  <2>2. QED
    BY <1>2, <1>7, <2>1 DEF Flowing
<1>11. QED
  BY <1>1, <1>2, <1>4, <1>6, <1>7, <1>8, <1>9, <1>10 DEF Flowing

\* The window and the probe are no part of the accounts.
LEMMA TunedFlows ==
    ASSUME NEW f, Flowing(f), NEW w \in Nat \ {0}, NEW b \in BOOLEAN
    PROVE  Flowing([f EXCEPT !.window = w, !.probing = b])
<1>1. PICK t : t = [f EXCEPT !.window = w, !.probing = b]
  OBVIOUS
<1>2. t \in Flows /\ t.window = w /\ t.sequence = f.sequence /\ t.in_flight = f.in_flight /\ t.bytes = f.bytes
  BY <1>1 DEF Flowing, Flows
<1>3. QED
  BY <1>1, <1>2 DEF Flowing, InOrder

LEMMA ProbedFlows ==
    ASSUME NEW f, Flowing(f), NEW b \in BOOLEAN
    PROVE  Flowing([f EXCEPT !.probing = b])
<1>1. PICK t : t = [f EXCEPT !.probing = b]
  OBVIOUS
<1>2. t \in Flows /\ t.window = f.window /\ t.sequence = f.sequence /\ t.in_flight = f.in_flight /\ t.bytes = f.bytes
  BY <1>1 DEF Flowing, Flows
<1>3. QED
  BY <1>1, <1>2 DEF Flowing, InOrder

-----------------------------------------------------------------------------
(* The frame that waits.                                                   *)
Highest(m, s) == m \in {s[i].level : i \in DOMAIN s} /\ \A i \in DOMAIN s : s[i].level <= m

\* p stands for the frames of w.
Stands(p, w) ==
    /\ p \in WaitingFrames /\ p.frames = Len(w) /\ w # <<>>
    /\ \A i \in DOMAIN w : w[i].peak = p.peak
    /\ IF p.peak THEN p.level[2] = 1 /\ Highest(p.level[1], w)
       ELSE p.level[1] * Len(w) = Total([i \in DOMAIN w |-> w[i].level]) * p.level[2]

ViewerTypeOK ==
    /\ pending \in WaitingFrames \cup {Nothing} /\ flow \in Flows /\ stale \in BOOLEAN
    /\ link \in Seq(Numbers) /\ acks \in Seq(Numbers) /\ waiting \in Seq(OfferedFrames) /\ offers \in Nat

ViewerInv ==
    /\ ViewerTypeOK
    /\ Flowing(flow)
    /\ IF pending = Nothing THEN waiting = <<>> ELSE Stands(pending, waiting)


LEMMA LevelsOf ==
    ASSUME NEW w \in Seq(OfferedFrames)
    PROVE  /\ [i \in DOMAIN w |-> w[i].level] \in Seq(Int)
           /\ Len([i \in DOMAIN w |-> w[i].level]) = Len(w)
           /\ \A j \in 1 .. Len(w) : [i \in DOMAIN w |-> w[i].level][j] = w[j].level
           /\ Total([i \in DOMAIN w |-> w[i].level]) \in Int
<1>1. \A i \in 1 .. Len(w) : w[i].level \in Int
  <2> TAKE i \in 1 .. Len(w)
  <2>1. PICK s \in OfferedFrames : s = w[i]
    OBVIOUS
  <2>2. s.level \in Levels /\ Levels \subseteq Int
    BY ViewerAssumption DEF ViewerAssumption, OfferedFrames
  <2>3. QED
    BY <2>1, <2>2
<1>2. DOMAIN w = 1 .. Len(w) /\ Len(w) \in Nat
  OBVIOUS
<1>3. PICK v : v = [i \in DOMAIN w |-> w[i].level]
  OBVIOUS
<1>4. v = [i \in 1 .. Len(w) |-> w[i].level]
  BY <1>2, <1>3
<1>5. v \in Seq(Int) /\ Len(v) = Len(w)
  BY <1>1, <1>2, <1>4
<1>6. \A i \in 1 .. Len(w) : v[i] = w[i].level
  BY <1>4
<1>7. Total(v) \in Int
  BY <1>5, SumsExist, TotalIs
<1>8. QED
  BY <1>3, <1>5, <1>6, <1>7

LEMMA LevelIs == ASSUME NEW offer \in OfferedFrames PROVE offer.level \in Int /\ offer.peak \in BOOLEAN
<1>1. offer.level \in Levels /\ offer.peak \in BOOLEAN
  BY DEF OfferedFrames
<1>2. QED
  BY <1>1, ViewerAssumption DEF ViewerAssumption

\* A maximum that is known is the one that Max chooses.
LEMMA MaxIs == ASSUME NEW S \in SUBSET Int, NEW m \in S, \A y \in S : y <= m PROVE Max(S) = m
<1>1. \E x \in S : \A y \in S : x >= y
  OBVIOUS
<1>2. Max(S) \in S /\ \A y \in S : Max(S) >= y
  BY <1>1 DEF Max
<1>3. PICK x \in Int : x = Max(S) /\ x >= m /\ x <= m
  BY <1>2
<1>4. QED
  BY <1>3

\* A set of numbers up to a bound that has any has a greatest one.
LEMMA Greatest ==
    ASSUME NEW N \in Nat, NEW S \in SUBSET (0 .. N), S # {}
    PROVE  Max(S) \in S
<1>1. PICK m \in S : \A y \in S : y <= m
  <2> DEFINE Gap == {k \in Nat : \E y \in S : y = N - k}
             Less == {p \in Nat \X Nat : p[1] < p[2]}
  <2>1. IsWellFoundedOn(Less, Nat)
    BY NatLessThanWellFounded DEF OpToRel
  <2>2. Gap \in SUBSET Nat /\ Gap # {}
    <3>1. PICK y \in S : TRUE
      OBVIOUS
    <3>2. N - y \in Nat /\ y = N - (N - y)
      BY <3>1
    <3>3. QED
      BY <3>1, <3>2
  <2>3. PICK k \in Gap : \A j \in Gap : ~(<<j, k>> \in Less)
    BY <2>1, <2>2, WFMin
  <2>4. N - k \in S
    OBVIOUS
  <2>5. ASSUME NEW y \in S PROVE y <= N - k
    <3>1. N - y \in Nat /\ y = N - (N - y)
      OBVIOUS
    <3>2. N - y \in Gap
      BY <3>1
    <3>3. ~(N - y < k)
      BY <2>3, <3>1, <3>2
    <3>4. QED
      BY <3>3
  <2>6. QED
    BY <2>4, <2>5
<1>2. QED
  BY <1>1, MaxIs

-----------------------------------------------------------------------------
LEMMA AloneStands ==
    ASSUME NEW offer \in OfferedFrames
    PROVE  Stands(Alone(offer), <<offer>>) /\ <<offer>> \in Seq(OfferedFrames)
<1>1. PICK w \in Seq(OfferedFrames) : w = <<offer>> /\ Len(w) = 1 /\ w[1] = offer /\ w # <<>> /\ DOMAIN w = {1}
  <2>1. <<offer>> \in Seq(OfferedFrames) /\ Len(<<offer>>) = 1 /\ <<offer>>[1] = offer
    OBVIOUS
  <2>2. PICK w \in Seq(OfferedFrames) : w = <<offer>> /\ Len(w) = 1 /\ w[1] = offer
    BY <2>1
  <2>3. DOMAIN w = {1} /\ w # <<>>
    <3>1. DOMAIN w = 1 .. 1 /\ 1 .. 1 = {1}
      BY <2>2
    <3>2. QED
      BY <2>2, <3>1
  <2>4. QED
    BY <2>2, <2>3
<1>2. PICK l \in Int, b \in BOOLEAN : l = offer.level /\ b = offer.peak
  BY LevelIs
<1>3. PICK p \in WaitingFrames : /\ p = Alone(offer) /\ p.peak = b /\ p.frames = 1
                                 /\ p.level[1] = l /\ p.level[2] = 1
  <2>1. [peak |-> b, level |-> <<l, 1>>, frames |-> 1] \in WaitingFrames
    BY DEF WaitingFrames
  <2>2. QED
    BY <1>2, <2>1 DEF Alone
<1>4. Highest(l, w)
  BY <1>1, <1>2 DEF Highest
<1>5. Total([i \in DOMAIN w |-> w[i].level]) = l
  <2>1. PICK v \in Seq(Int) : v = [i \in DOMAIN w |-> w[i].level] /\ Len(v) = 1 /\ v[1] = l
    <3>1. 1 \in 1 .. Len(w)
      BY <1>1
    <3>2. QED
      BY <1>1, <1>2, <3>1, LevelsOf
  <2>2. PICK e \in Seq(Int) : e = <<>> /\ Len(e) = 0
    <3>1. <<>> \in Seq(Int) /\ Len(<<>>) = 0
      OBVIOUS
    <3>2. QED
      BY <3>1
  <2>3. Total(e) = 0
    BY <2>2, TotalEmpty
  <2>4. Total(v) = Total(e) + l
    <3>1. Len(v) = Len(e) + 1 /\ v[Len(v)] = l /\ \A i \in 1 .. Len(e) : v[i] = e[i]
      BY <2>1, <2>2
    <3>2. QED
      BY <3>1, TotalAppend
  <2>5. QED
    BY <2>1, <2>3, <2>4
<1>6. QED
  BY <1>1, <1>2, <1>3, <1>4, <1>5 DEF Stands

LEMMA MergedStands ==
    ASSUME NEW p, NEW w \in Seq(OfferedFrames), Stands(p, w), NEW offer \in OfferedFrames, offer.peak = p.peak
    PROVE  Stands(Merged(p, offer), Append(w, offer)) /\ Append(w, offer) \in Seq(OfferedFrames)
<1>1. PICK l \in Int : l = offer.level
  BY LevelIs
<1>2. PICK m \in Int, d \in Nat, k \in Nat \ {0} :
          /\ p \in WaitingFrames /\ p.level[1] = m /\ p.level[2] = d /\ p.frames = k /\ k = Len(w)
          /\ p.level = <<m, d>>
  <2>1. p \in WaitingFrames /\ p.frames = Len(w) /\ w # <<>>
    BY DEF Stands
  <2>2. p.level \in Int \X Nat
    BY <2>1 DEF WaitingFrames
  <2>3. Len(w) \in Nat \ {0}
    BY <2>1
  <2>4. QED
    BY <2>1, <2>2, <2>3
<1>3. PICK a \in Seq(OfferedFrames) : a = Append(w, offer)
  <2>1. Append(w, offer) \in Seq(OfferedFrames)
    BY ONLY w \in Seq(OfferedFrames), offer \in OfferedFrames, AppendProperties
  <2>2. QED
    BY <2>1
<1>4. Len(a) = k + 1 /\ a[k + 1] = offer /\ (\A i \in 1 .. k : a[i] = w[i]) /\ a # <<>>
      /\ DOMAIN a = 1 .. k + 1 /\ DOMAIN w = 1 .. k
  BY <1>2, <1>3
<1>5. PICK u : u = Merged(p, offer)
  OBVIOUS
<1>6. \A i \in 1 .. k : w[i].peak = p.peak
  BY <1>4 DEF Stands
<1>7. \A i \in DOMAIN a : a[i].peak = p.peak
  BY <1>4, <1>6
<1>8. CASE p.peak
  <2>1. Highest(m, w)
    BY <1>2, <1>8 DEF Stands
  <2>2. \A i \in 1 .. k : w[i].level \in Int /\ w[i].level <= m
    <3> TAKE i \in 1 .. k
    <3>1. w[i] \in OfferedFrames
      BY <1>4
    <3>2. QED
      BY <1>4, <2>1, <3>1, LevelIs DEF Highest
  <2>3. PICK h \in Int : h = (IF l <= m THEN m ELSE l)
    OBVIOUS
  <2>4. Max({m, l}) = h
    <3>1. h \in {m, l} /\ (\A y \in {m, l} : y <= h) /\ {m, l} \in SUBSET Int
      BY <2>3
    <3>2. QED
      BY <3>1, MaxIs
  <2>5. Highest(h, a)
    <3>1. h \in {a[i].level : i \in 1 .. k + 1}
      <4>1. CASE l <= m
        <5>1. PICK i \in 1 .. k : w[i].level = m
          BY <1>4, <2>1 DEF Highest
        <5>2. i \in 1 .. k + 1 /\ a[i].level = m
          BY <1>4, <5>1
        <5>3. QED
          BY <2>3, <4>1, <5>2
      <4>2. CASE ~(l <= m)
        <5>1. k + 1 \in 1 .. k + 1 /\ a[k + 1].level = l
          BY <1>1, <1>4
        <5>2. QED
          BY <2>3, <4>2, <5>1
      <4>3. QED
        BY <4>1, <4>2
    <3>2. ASSUME NEW i \in 1 .. k + 1 PROVE a[i].level <= h
      <4>1. CASE i = k + 1
        BY <1>1, <1>4, <2>3, <4>1
      <4>2. CASE i \in 1 .. k
        <5>1. PICK x \in Int : x = w[i].level /\ x <= m
          BY <2>2, <4>2
        <5>2. a[i].level = x
          BY <1>4, <4>2, <5>1
        <5>3. QED
          BY <2>3, <5>1, <5>2
      <4>3. QED
        BY <4>1, <4>2
    <3>3. QED
      BY <1>4, <3>1, <3>2 DEF Highest
  <2>6. PICK level \in Int \X Nat, count \in Nat : level = <<h, 1>> /\ count = k + 1
    <3>1. <<h, 1>> \in Int \X Nat /\ k + 1 \in Nat
      OBVIOUS
    <3>2. QED
      BY <3>1
  <2>7. u = [p EXCEPT !.frames = count, !.level = level]
    BY <1>1, <1>2, <1>5, <1>8, <2>4, <2>6 DEF Merged
  <2>10. u \in WaitingFrames /\ u.frames = count /\ u.peak = p.peak /\ u.level = level
    BY <1>2, <2>7 DEF WaitingFrames
  <2>11. level[1] = h /\ level[2] = 1
    BY <2>6
  <2>8. QED
    BY <1>3, <1>4, <1>5, <1>7, <1>8, <2>5, <2>6, <2>10, <2>11 DEF Stands
<1>9. CASE ~p.peak
  <2>1. PICK v \in Seq(Int), z \in Seq(Int) : /\ v = [i \in DOMAIN w |-> w[i].level]
                                              /\ z = [i \in DOMAIN a |-> a[i].level]
    BY LevelsOf
  <2>2. PICK t \in Int : t = Total(v) /\ m * k = t * d
    <3>1. Total(v) \in Int
      BY <2>1, LevelsOf
    <3>2. p.level[1] * Len(w) = Total(v) * p.level[2]
      BY <1>9, <2>1 DEF Stands
    <3>3. QED
      BY <1>2, <3>1, <3>2
  <2>3. Total(z) = t + l
    <3>1. Len(z) = k + 1 /\ Len(v) = k /\ (\A i \in 1 .. k : v[i] = w[i].level)
          /\ \A i \in 1 .. k + 1 : z[i] = a[i].level
      BY <1>2, <1>4, <2>1, LevelsOf
    <3>2. k + 1 \in 1 .. k + 1 /\ \A i \in 1 .. k : i \in 1 .. k + 1
      OBVIOUS
    <3>3. z[k + 1] = l /\ \A i \in 1 .. k : z[i] = v[i]
      BY <1>1, <1>4, <3>1, <3>2
    <3>4. Len(z) = Len(v) + 1 /\ z[Len(z)] = l /\ \A i \in 1 .. Len(v) : z[i] = v[i]
      BY <3>1, <3>3
    <3>5. QED
      BY <2>2, <3>4, TotalAppend
  <2>4. (m * k + l * d) * (k + 1) = (t + l) * (d * (k + 1))
    <3>1. (m * k + l * d) = (t + l) * d
      <4>1. (t + l) * d = t * d + l * d
        BY ONLY t \in Int, l \in Int, d \in Nat, SMT
      <4>2. QED
        BY <2>2, <4>1
    <3>2. ((t + l) * d) * (k + 1) = (t + l) * (d * (k + 1))
      BY ONLY t \in Int, l \in Int, d \in Nat, k \in Nat \ {0}, SMT
    <3>3. QED
      BY <3>1, <3>2
  <2>5. PICK x \in Int, y \in Nat : x = m * k + l * d /\ y = d * (k + 1)
    OBVIOUS
  <2>6. PICK level \in Int \X Nat, count \in Nat : level = <<x, y>> /\ count = k + 1
    <3>1. <<x, y>> \in Int \X Nat /\ k + 1 \in Nat
      OBVIOUS
    <3>2. QED
      BY <3>1
  <2>7. u = [p EXCEPT !.frames = count, !.level = level]
    BY <1>1, <1>2, <1>5, <1>9, <2>5, <2>6 DEF Merged, Mean
  <2>10. u \in WaitingFrames /\ u.frames = count /\ u.peak = p.peak /\ u.level = level
    BY <1>2, <2>7 DEF WaitingFrames
  <2>11. level[1] = x /\ level[2] = y
    BY <2>6
  <2>8. x * (k + 1) = Total(z) * y
    BY <2>3, <2>4, <2>5
  <2>9. QED
    BY <1>3, <1>4, <1>5, <1>7, <1>9, <2>1, <2>6, <2>8, <2>10, <2>11 DEF Stands
<1>10. QED
  BY <1>8, <1>9


-----------------------------------------------------------------------------
(* The steps.                                                              *)

\* serve.cpp 632-667, for a frame and a flow as a handler leaves them.
LEMMA Tried ==
    ASSUME NEW p \in WaitingFrames \cup {Nothing}, NEW f, Flowing(f), NEW held \in BOOLEAN,
           stale \in BOOLEAN, link \in Seq(Numbers), TrySend(p, f, held)
    PROVE  Flowing(flow') /\ pending' \in {p, Nothing} /\ link' \in Seq(Numbers)
<1> DEFINE probed == [f EXCEPT !.probing = @ \/ stale]
<1>1. Flowing(probed)
  <2>1. PICK b \in BOOLEAN : b = (f.probing \/ stale)
    OBVIOUS
  <2>2. probed = [f EXCEPT !.probing = b]
    BY <2>1 DEF Flowing, Flows
  <2>3. QED
    BY <2>1, <2>2, ProbedFlows
<1> HIDE DEF probed
<1>2. CASE Keep(p, f)
  BY <1>2 DEF Keep
<1>3. CASE Keep(p, probed)
  BY <1>1, <1>3 DEF Keep
<1>4. CASE Send(probed)
  <2>1. PICK size \in Sizes : Joined(probed, size, flow')
    BY <1>4 DEF Send, Joined
  <2>2. link' = Append(link, (probed.sequence + 1) % Wrap) /\ pending' = Nothing
    BY <1>4 DEF Send
  <2>3. (probed.sequence + 1) % Wrap \in Numbers
    BY <1>1, Fields, NextNumber DEF Flowing
  <2>4. link' \in Seq(Numbers)
    BY <2>2, <2>3, AppendProperties
  <2>5. QED
    BY <1>1, <2>1, <2>2, <2>4, SentFlows
<1>5. QED
  BY <1>2, <1>3, <1>4 DEF TrySend, probed

LEMMA OfferKeeps ==
    ASSUME ViewerInv, NEW offer \in OfferedFrames, NEW held \in BOOLEAN, Offer(offer, held)
    PROVE  ViewerInv'
<1> DEFINE same == pending # Nothing /\ pending.peak = offer.peak
           goes_on == waiting # <<>> /\ Last(waiting).peak = offer.peak
           p == IF same THEN Merged(pending, offer) ELSE Alone(offer)
           w == IF goes_on THEN Append(waiting, offer) ELSE <<offer>>
<1>1. same <=> goes_on
  <2>1. CASE pending = Nothing
    BY <2>1 DEF ViewerInv
  <2>2. CASE pending # Nothing
    <3>1. Stands(pending, waiting) /\ waiting \in Seq(OfferedFrames)
      BY <2>2 DEF ViewerInv, ViewerTypeOK
    <3>2. waiting # <<>> /\ \A i \in DOMAIN waiting : waiting[i].peak = pending.peak
      BY <3>1 DEF Stands
    <3>3. Len(waiting) \in DOMAIN waiting
      BY <3>1, <3>2
    <3>4. Last(waiting).peak = pending.peak
      BY <3>2, <3>3 DEF Last
    <3>5. QED
      BY <2>2, <3>2, <3>4
  <2>3. QED
    BY <2>1, <2>2
<1>2. Stands(p, w) /\ w \in Seq(OfferedFrames)
  <2>1. CASE same
    <3>1. Stands(pending, waiting) /\ waiting \in Seq(OfferedFrames)
      BY <2>1 DEF ViewerInv, ViewerTypeOK
    <3>2. QED
      BY <1>1, <2>1, <3>1, MergedStands
  <2>2. CASE ~same
    BY <1>1, <2>2, AloneStands
  <2>3. QED
    BY <2>1, <2>2
<1>3. p \in WaitingFrames /\ p # Nothing
  BY <1>2, ViewerAssumption DEF Stands, ViewerAssumption
<1>4. /\ TrySend(p, flow, held) /\ waiting' = IF pending' = Nothing THEN <<>> ELSE w
      /\ offers' = offers + 1 /\ stale' = stale /\ acks' = acks
  BY DEF Offer
<1> HIDE DEF same, goes_on, p, w
<1>5. Flowing(flow') /\ pending' \in {p, Nothing} /\ link' \in Seq(Numbers)
  BY <1>3, <1>4, Tried DEF ViewerInv, ViewerTypeOK
<1>6. <<>> \in Seq(OfferedFrames)
  OBVIOUS
<1>7. /\ waiting' \in Seq(OfferedFrames)
      /\ IF pending' = Nothing THEN waiting' = <<>> ELSE Stands(pending', waiting')
  BY <1>2, <1>3, <1>4, <1>5, <1>6
<1>8. ViewerTypeOK'
  <2>1. flow' \in Flows
    BY <1>5 DEF Flowing
  <2>2. offers' \in Nat /\ stale' \in BOOLEAN /\ acks' \in Seq(Numbers)
    BY <1>4 DEF ViewerInv, ViewerTypeOK
  <2>3. QED
    BY <1>3, <1>5, <1>7, <2>1, <2>2 DEF ViewerTypeOK
<1>9. QED
  BY <1>5, <1>7, <1>8 DEF ViewerInv, Flowing, InOrder

\* What ends in try_send with the frame that waits, and any flow that is accounted for.
Tries(f, held) ==
    /\ TrySend(pending, f, held) /\ waiting' = IF pending' = Nothing THEN <<>> ELSE waiting
    /\ offers' = offers

LEMMA TriesKeeps ==
    ASSUME ViewerInv, NEW f, Flowing(f), NEW held \in BOOLEAN, Tries(f, held),
           stale' \in BOOLEAN, acks' \in Seq(Numbers)
    PROVE  ViewerInv'
<1>1. pending \in WaitingFrames \cup {Nothing} /\ stale \in BOOLEAN /\ link \in Seq(Numbers) /\ TrySend(pending, f, held)
  BY DEF ViewerInv, ViewerTypeOK, Tries
<1>2. Flowing(flow') /\ pending' \in {pending, Nothing} /\ link' \in Seq(Numbers)
  BY <1>1, Tried
<1>3. <<>> \in Seq(OfferedFrames)
  OBVIOUS
<1>4. /\ waiting' \in Seq(OfferedFrames)
      /\ IF pending' = Nothing THEN waiting' = <<>> ELSE Stands(pending', waiting')
  BY <1>2, <1>3 DEF ViewerInv, ViewerTypeOK, Tries
<1>5. ViewerTypeOK'
  <2>1. flow' \in Flows
    BY <1>2 DEF Flowing
  <2>2. offers' \in Nat
    BY DEF ViewerInv, ViewerTypeOK, Tries
  <2>3. QED
    BY <1>1, <1>2, <1>4, <2>1, <2>2 DEF ViewerTypeOK
<1>6. QED
  BY <1>2, <1>4, <1>5 DEF ViewerInv, Flowing, InOrder

LEMMA TickKeeps ==
    ASSUME ViewerInv, NEW expired \in 0 .. MaxFlight, NEW held \in BOOLEAN, Tick(expired, held)
    PROVE  ViewerInv'
<1>1. Flowing(flow)
  BY DEF ViewerInv
<1>2. expired \in 0 .. Len(flow.in_flight)
  <2>1. flow.in_flight \in Seq(InFlight)
    BY <1>1, Fields DEF Flowing
  <2>2. Len(flow.in_flight) \in Nat /\ expired \in Nat /\ expired <= Len(flow.in_flight)
    <3>1. MaxFlight \in Nat
      BY ViewerAssumption DEF ViewerAssumption
    <3>2. QED
      BY <2>1, <3>1 DEF Tick
  <2>3. QED
    BY <2>2
<1>3. PICK f : f = Without(flow, expired)
  OBVIOUS
<1>4. Flowing(f)
  BY <1>1, <1>2, <1>3, WithoutFlows
<1>5. Tries(f, held) /\ stale' = stale /\ acks' = acks
  BY <1>3 DEF Tick, Tries
<1>6. QED
  BY <1>4, <1>5, TriesKeeps DEF ViewerInv, ViewerTypeOK

\* How many frames an acknowledgement covers.
LEMMA CoveredIs ==
    ASSUME NEW number, flow.in_flight \in Seq(InFlight)
    PROVE  Covered(number) \in 0 .. Len(flow.in_flight)
<1> DEFINE S == {n \in 0 .. Len(flow.in_flight) : \A i \in 1 .. n : Covers(number, flow.in_flight[i])}
<1>1. 0 \in S
  OBVIOUS
<1>2. S \in SUBSET (0 .. Len(flow.in_flight)) /\ S # {} /\ Len(flow.in_flight) \in Nat
  BY <1>1
<1>3. Covered(number) = Max(S)
  BY DEF Covered
<1> HIDE DEF S
<1>4. Max(S) \in S
  BY <1>2, Greatest
<1>5. QED
  BY <1>2, <1>3, <1>4

\* The window that follows a round trip is open.
LEMMA WindowsOpen ==
    ASSUME flow.window \in Nat, flow.window > 0, NEW sent \in InFlight, NEW w \in Windows(sent)
    PROVE  w \in Nat \ {0}
<1>1. PICK o \in Nat, b \in Nat, m \in Nat : /\ o = flow.window /\ b = sent.bytes /\ m = MaxWindow
                                             /\ o > 0 /\ b > 0 /\ m > 0
  BY BytesOf, ViewerAssumption DEF ViewerAssumption
<1>2. ASSUME NEW x \in Nat \ {0}, NEW y \in Int PROVE Max({x, y}) \in Nat \ {0}
  <2>1. PICK h \in Nat \ {0} : h = IF y <= x THEN x ELSE y
    BY <1>2
  <2>2. h \in {x, y} /\ {x, y} \in SUBSET Int /\ \A z \in {x, y} : z <= h
    BY <2>1
  <2>3. QED
    BY <2>2, MaxIs
<1>3. ASSUME NEW x \in Nat \ {0} PROVE Min({m, x}) \in Nat \ {0}
  <2>1. PICK h \in {m, x} : \A z \in {m, x} : h <= z
    BY <1>1
  <2>2. Min({m, x}) \in {m, x}
    BY <2>1 DEF Min
  <2>3. QED
    BY <1>1, <2>2
<1>4. o \in Nat \ {0} /\ o + b \in Nat \ {0} /\ o + ((b * b) \div o) \in Nat \ {0}
  <2>1. PICK c \in Nat : c = b * b
    OBVIOUS
  <2>2. c \div o \in Nat
    BY <1>1, <2>1
  <2>3. QED
    BY <1>1, <2>1, <2>2
<1>5. Max({b, (7 * o) \div 10}) \in Nat \ {0}
  <2>1. (7 * o) \div 10 \in Int /\ b \in Nat \ {0}
    BY <1>1
  <2>2. QED
    BY <1>2, <2>1
<1>6. PICK x \in {o, o + b, o + ((b * b) \div o), Max({b, (7 * o) \div 10})} : w = Min({m, x})
  BY <1>1 DEF Windows
<1>7. x \in Nat \ {0}
  BY <1>4, <1>5, <1>6
<1>8. QED
  BY <1>3, <1>6, <1>7

LEMMA AcknowledgeKeeps ==
    ASSUME ViewerInv, NEW held \in BOOLEAN, Acknowledge(held)
    PROVE  ViewerInv'
<1>1. /\ Flowing(flow) /\ flow \in Flows /\ stale \in BOOLEAN /\ acks \in Seq(Numbers)
  BY DEF ViewerInv, ViewerTypeOK
<1>2. PICK n \in 0 .. Len(flow.in_flight) : n = Covered(Head(acks))
  BY <1>1, Fields, CoveredIs
<1>3. PICK rest : rest = Without(flow, n) /\ Flowing(rest)
  BY <1>1, WithoutFlows
<1>4. acks' \in Seq(Numbers)
  <2>1. acks # <<>> /\ acks' = Tail(acks)
    BY DEF Acknowledge
  <2>2. QED
    BY <1>1, <2>1
<1>5. CASE TrySend(pending, rest, held) /\ UNCHANGED stale
  <2>1. Tries(rest, held)
    BY <1>5 DEF Acknowledge, Tries
  <2>2. QED
    BY <1>1, <1>3, <1>4, <1>5, <2>1, TriesKeeps
<1>6. CASE n # 0 /\ ~(TrySend(pending, rest, held) /\ UNCHANGED stale)
  <2>1. PICK sent \in InFlight : sent = flow.in_flight[n]
    <3>1. flow.in_flight \in Seq(InFlight) /\ n \in 1 .. Len(flow.in_flight)
      BY <1>1, <1>6, Fields
    <3>2. QED
      BY <3>1
  <2>2. PICK best \in BOOLEAN, w \in Windows(sent) :
            LET measured == best \/ (flow.probing /\ sent.alone)
            IN  /\ stale' = (stale /\ ~measured)
                /\ TrySend(pending, [rest EXCEPT !.window = w, !.probing = @ /\ ~measured], held)
    BY <1>2, <1>3, <1>6, <2>1 DEF Acknowledge
  <2>3. PICK b \in BOOLEAN : b = (rest.probing /\ ~(best \/ (flow.probing /\ sent.alone)))
    OBVIOUS
  <2>4. PICK f : f = [rest EXCEPT !.window = w, !.probing = b]
    OBVIOUS
  <2>5. TrySend(pending, f, held)
    <3>1. f = [rest EXCEPT !.window = w, !.probing = @ /\ ~(best \/ (flow.probing /\ sent.alone))]
      BY <1>3, <2>3, <2>4 DEF Flowing, Flows
    <3>2. QED
      BY <2>2, <3>1
  <2>6. flow.window \in Nat /\ flow.window > 0
    <3>1. flow.in_flight \in Seq(InFlight) /\ n \in 1 .. Len(flow.in_flight)
      BY <1>1, <1>6, Fields
    <3>2. flow.in_flight # <<>>
      BY <3>1
    <3>3. QED
      BY <1>1, <3>2, Fields DEF Flowing
  <2>7. Flowing(f)
    BY <1>3, <2>3, <2>4, <2>6, WindowsOpen, TunedFlows
  <2>8. stale' \in BOOLEAN
    BY <2>2
  <2>9. Tries(f, held)
    BY <2>5 DEF Acknowledge, Tries
  <2>10. QED
    BY <1>4, <2>7, <2>8, <2>9, TriesKeeps
<1>7. QED
  <2>1. n = 0 => TrySend(pending, rest, held) /\ UNCHANGED stale
    BY <1>2, <1>3 DEF Acknowledge
  <2>2. QED
    BY <1>5, <1>6, <2>1

LEMMA AgeKeeps == ASSUME ViewerInv, Age PROVE ViewerInv'
BY DEF ViewerInv, ViewerTypeOK, Age, Stands, Highest, Flowing, InOrder

LEMMA ArriveKeeps == ASSUME ViewerInv, NEW answered \in BOOLEAN, Arrive(answered) PROVE ViewerInv'
<1>1. link \in Seq(Numbers) /\ acks \in Seq(Numbers) /\ link # <<>>
  BY DEF ViewerInv, ViewerTypeOK, Arrive
<1>2. Head(link) \in Numbers /\ Tail(link) \in Seq(Numbers)
  BY <1>1
<1>3. link' \in Seq(Numbers)
  BY <1>2 DEF Arrive
<1>4. acks' \in Seq(Numbers)
  <2>1. Append(acks, Head(link)) \in Seq(Numbers)
    BY <1>1, <1>2, AppendProperties
  <2>2. QED
    BY <1>1, <2>1 DEF Arrive
<1>5. /\ pending' = pending /\ flow' = flow /\ stale' = stale /\ waiting' = waiting /\ offers' = offers
  BY DEF Arrive
<1>6. QED
  BY <1>3, <1>4, <1>5 DEF ViewerInv, ViewerTypeOK, Flowing, InOrder

-----------------------------------------------------------------------------
LEMMA ViewerStarts == ASSUME ViewerInit PROVE ViewerInv
<1>1. PICK number \in {0, Wrap - 2} :
          flow = [sequence |-> number, in_flight |-> <<>>, bytes |-> 0, last |-> 0,
                  window |-> 0, probing |-> FALSE]
  BY DEF ViewerInit
<1>2. number \in Numbers
  BY ViewerAssumption DEF ViewerAssumption, Numbers
<1>3. <<>> \in Seq(InFlight) /\ Len(<<>>) = 0 /\ <<>> \in Seq(Numbers) /\ <<>> \in Seq(OfferedFrames)
  OBVIOUS
<1>4. Flowing(flow)
  <2>1. flow \in Flows
    BY <1>1, <1>2, <1>3 DEF Flows
  <2>2. InOrder(flow)
    BY <1>1, <1>3 DEF InOrder
  <2>3. QED
    BY <1>1, <2>1, <2>2, NoBytes DEF Flowing
<1>5. QED
  BY <1>3, <1>4 DEF ViewerInit, ViewerInv, ViewerTypeOK, Flowing

LEMMA ViewerKeeps == ASSUME ViewerInv, [ViewerNext]_viewer PROVE ViewerInv'
<1>1. ASSUME NEW held \in BOOLEAN, NEW offer \in OfferedFrames, Offer(offer, held) PROVE ViewerInv'
  BY <1>1, OfferKeeps
<1>2. ASSUME NEW held \in BOOLEAN, NEW expired \in 0 .. MaxFlight, Tick(expired, held) PROVE ViewerInv'
  BY <1>2, TickKeeps
<1>3. ASSUME NEW held \in BOOLEAN, Acknowledge(held) PROVE ViewerInv'
  BY <1>3, AcknowledgeKeeps
<1>4. CASE Age
  BY <1>4, AgeKeeps
<1>5. ASSUME NEW answered \in BOOLEAN, Arrive(answered) PROVE ViewerInv'
  BY <1>5, ArriveKeeps
<1>6. CASE UNCHANGED viewer
  <2>1. /\ pending' = pending /\ flow' = flow /\ stale' = stale /\ waiting' = waiting /\ offers' = offers
        /\ link' = link /\ acks' = acks
    BY <1>6 DEF viewer
  <2>2. QED
    BY <2>1 DEF ViewerInv, ViewerTypeOK, Flowing, InOrder
<1>7. QED
  BY <1>1, <1>2, <1>3, <1>4, <1>5, <1>6 DEF ViewerNext

LEMMA ViewerInvExact == ASSUME ViewerInv PROVE ViewerExact
<1>1. FlightAccounted
  BY DEF ViewerInv, Flowing, InOrder, FlightAccounted
<1>2. MergedExact
  <2>1. CASE pending = Nothing
    BY <2>1 DEF ViewerInv, MergedExact
  <2>2. CASE pending # Nothing
    <3>1. Stands(pending, waiting) /\ waiting \in Seq(OfferedFrames)
      BY <2>2 DEF ViewerInv, ViewerTypeOK
    <3>2. PICK v : v = [i \in DOMAIN waiting |-> waiting[i].level]
      OBVIOUS
    <3>3. ASSUME pending.peak PROVE pending.level = <<Max({v[i] : i \in DOMAIN v}), 1>>
      <4>1. pending.level[2] = 1 /\ Highest(pending.level[1], waiting) /\ pending.level \in Int \X Nat
        BY <3>1, <3>3 DEF Stands, WaitingFrames
      <4>2. PICK m \in Int : m = pending.level[1] /\ pending.level = <<m, 1>>
        BY <4>1
      <4>3. {v[i] : i \in DOMAIN v} = {waiting[i].level : i \in DOMAIN waiting}
        BY <3>2
      <4>4. PICK S : S = {waiting[i].level : i \in DOMAIN waiting}
        OBVIOUS
      <4>5. S \in SUBSET Int
        <5>1. ASSUME NEW i \in DOMAIN waiting PROVE waiting[i].level \in Int
          <6>1. waiting[i] \in OfferedFrames
            BY <3>1
          <6>2. QED
            BY <6>1, LevelIs
        <5>2. QED
          BY <4>4, <5>1
      <4>6. m \in S /\ \A y \in S : y <= m
        BY <4>1, <4>2, <4>4 DEF Highest
      <4>7. Max(S) = m
        BY <4>5, <4>6, MaxIs
      <4>8. QED
        BY <4>2, <4>3, <4>4, <4>7
    <3>4. QED
      BY <2>2, <3>1, <3>2, <3>3 DEF Stands, MergedExact
  <2>3. QED
    BY <2>1, <2>2
<1>3. QED
  BY <1>1, <1>2 DEF ViewerExact

(* In every state the flow of frames is accounted for, and the frame that  *)
(* waits stands for those offered.                                         *)
THEOREM ViewerInvariance == ViewerSpec => []ViewerInv
<1>1. ViewerInit => ViewerInv
  BY ViewerStarts
<1>2. ViewerInv /\ [ViewerNext]_viewer => ViewerInv'
  BY ViewerKeeps
<1>3. QED
  BY <1>1, <1>2, PTL DEF ViewerSpec

(* ViewerExact (host/src/serve.cpp 91-134, 545-685), for every size of a   *)
(* frame, every level, every limit and every width of a sequence number:   *)
(* the bytes counted are those of the frames in flight, which are the last *)
(* ones sent, and the frame that waits is the mean or the maximum of all   *)
(* the frames it stands for.                                               *)
THEOREM AccountsExact == ViewerSpec => []ViewerExact
<1>1. ViewerInv => ViewerExact
  BY ViewerInvExact
<1>2. QED
  BY <1>1, ViewerInvariance, PTL

-----------------------------------------------------------------------------
(* The decoder.                                                            *)
CallerPlaces == {"free", "submit", "flush", "finish", "finished", "thrown", "joining", "gone"}
WorkerPlaces == {"wait", "decode", "exited"}
WriterPlaces == {"wait", "get", "commit", "exited"}
Places == CallerPlaces \cup WorkerPlaces \cup WriterPlaces

\* The jobs counted in the totals: those written, but for the one the writer
\* is about to commit.
JobsCounted == IF pc[Writer] = "commit" THEN Len(output) - 1 ELSE Len(output)

\* Where each thread is, and what it holds there.
Placed ==
    /\ pc \in [Threads -> Places]
    /\ \A t \in Workers : pc[t] \in WorkerPlaces
    /\ pc[Caller] \in CallerPlaces
    /\ pc[Writer] \in WriterPlaces
    /\ asleep \subseteq Threads

Typed ==
    /\ submitted \in Seq(Job) /\ (batch = NoJob \/ batch \in Job) /\ end_seen \in BOOLEAN
    /\ jobs \in Seq(1 .. Len(submitted))
    /\ ordered \in Seq(1 .. Len(submitted)) /\ Len(ordered) <= MaxQueuedJobs
    /\ doing \in [Workers \cup {Writer} -> Nat \cup {NoJob}]
    /\ \A t \in Workers \cup {Writer} : doing[t] # NoJob => doing[t] \in 1 .. Len(submitted)
    /\ result \in Seq({"pending", "decoded", "failed"}) /\ Len(result) = Len(submitted)
    /\ totals \in [pairs : Int, span : Nat, gaps : Nat, crc : Seq(Nat), ended : BOOLEAN]
    /\ error \in BOOLEAN /\ stopping \in BOOLEAN
    /\ output \in Seq(1 .. Len(submitted))

Holding ==
    /\ pc[Caller] \in {"submit", "flush"} => batch \in Job
    /\ \A t \in Workers : pc[t] = "decode" => doing[t] # NoJob
    /\ pc[Writer] \in {"get", "commit"} =>
           ~error /\ ordered # <<>> /\ doing[Writer] = Head(ordered)
    /\ pc[Writer] = "commit" => Len(output) > 0
    /\ pc[Caller] = "finished" => ~error /\ ordered = <<>>

\* The bookkeeping of the queue.
Queued ==
    /\ error => ordered = <<>>
    /\ ~error => /\ Len(ordered) = Len(submitted) - JobsCounted
                 /\ \A i \in 1 .. Len(ordered) : ordered[i] = JobsCounted + i

\* A kept promise says whether the job is sound.
Verdicts == \A n \in 1 .. Len(submitted) : result[n] = "decoded" => submitted[n].sound

\* The totals a job is checked against, and the output.
Checked ==
    /\ Len(output) <= Len(submitted)
    /\ totals.span = (IF JobsCounted = 0 THEN 0 ELSE submitted[JobsCounted].last)
    /\ Len(totals.crc) = JobsCounted
    /\ \A i \in 1 .. JobsCounted : totals.crc[i] = i
    /\ \A i \in 1 .. Len(output) : output[i] = i /\ Order!Acceptable(i)

IInv == Placed /\ Typed /\ Holding /\ Queued /\ Verdicts /\ Checked
-----------------------------------------------------------------------------
\* What the caller cuts from the stream is a job.
LEMMA BatchTyped ==
    ASSUME Typed PROVE Batches \subseteq Job
<1>1. StreamEnd \in Nat
  <2>1. CASE submitted = <<>>
    BY <2>1 DEF StreamEnd
  <2>2. CASE submitted # <<>>
    <3>1. submitted[Len(submitted)] \in Job
      BY <2>2 DEF Typed
    <3>2. QED
      BY <2>2, <3>1 DEF StreamEnd, Job
  <2>3. QED
    BY <2>1, <2>2
<1>2. ASSUME NEW n \in Nat PROVE UpTo(n) \in Seq(Nat)
  BY <1>2 DEF UpTo
<1>3. Len(submitted) + 1 \in Nat /\ Len(submitted) + 1 - 1 \in Nat
  BY DEF Typed
<1>4. QED
  <2> SUFFICES ASSUME NEW b \in Batches PROVE b \in Job
    OBVIOUS
  <2> DEFINE n == Len(submitted) + 1
  <2>1. UpTo(n) \in Seq(Nat) /\ UpTo(n - 1) \in Seq(Nat)
    BY <1>2, <1>3
  <2>2. PICK first \in {StreamEnd, StreamEnd + 1} \cup ({StreamEnd - 1} \cap Nat),
             sound \in BOOLEAN, end \in BOOLEAN, crc \in {UpTo(n), UpTo(n - 1)} :
             b = [first |-> first, last |-> first + 1, sound |-> sound, end |-> end, crc |-> crc]
    BY DEF Batches
  <2>3. first \in Nat /\ first + 1 \in Nat /\ crc \in Seq(Nat)
    BY <1>1, <2>1, <2>2
  <2>4. QED
    BY <2>2, <2>3 DEF Job

LEMMA Start == Init => IInv
<1> SUFFICES ASSUME Init PROVE IInv
  OBVIOUS
<1> USE DecoderAssumption DEF DecoderAssumption, Init
<1>1. Placed
  BY DEF Placed, Threads, Places, CallerPlaces, WorkerPlaces, WriterPlaces
<1>2. Typed
  <2>1. totals \in [pairs : Int, span : Nat, gaps : Nat, crc : Seq(Nat), ended : BOOLEAN]
    BY DEF NoTotals
  <2>2. /\ doing \in [Workers \cup {Writer} -> Nat \cup {NoJob}]
        /\ \A t \in Workers \cup {Writer} : doing[t] = NoJob
    OBVIOUS
  <2>3. /\ submitted \in Seq(Job) /\ Len(submitted) = 0 /\ Len(ordered) = 0 /\ Len(result) = 0
        /\ jobs \in Seq(1 .. Len(submitted)) /\ ordered \in Seq(1 .. Len(submitted))
        /\ output \in Seq(1 .. Len(submitted)) /\ result \in Seq({"pending", "decoded", "failed"})
    OBVIOUS
  <2>4. end_seen \in BOOLEAN /\ error \in BOOLEAN /\ stopping \in BOOLEAN /\ batch = NoJob
    BY Zenon
  <2>5. Len(result) = Len(submitted) /\ Len(ordered) <= MaxQueuedJobs
    BY <2>3
  <2>6. \A t \in Workers \cup {Writer} : doing[t] # NoJob => doing[t] \in 1 .. Len(submitted)
    BY <2>2
  <2>7. QED
    <3> HIDE DEF Init
    <3>1. QED
      BY Zenon, <2>1, <2>2, <2>3, <2>4, <2>5, <2>6 DEF Typed
<1>3. pc[Writer] = "wait" /\ pc[Caller] = "free" /\ \A w \in Workers : pc[w] = "wait"
  BY DEF Threads
<1>4. JobsCounted = 0
  BY <1>3 DEF JobsCounted
<1>5. QED
  BY <1>1, <1>2, <1>3, <1>4 DEF IInv, Holding, Queued, Verdicts, Checked, NoTotals

\* A step of the caller that leaves the queues alone.
LEMMA CallerStep ==
    ASSUME IInv, NEW to \in CallerPlaces, Go(Caller, to),
           UNCHANGED <<doing, queues, totals, error, output>>,
           asleep' \subseteq Threads, stopping' \in BOOLEAN, end_seen' \in BOOLEAN,
           batch' = NoJob \/ batch' \in Job,
           to \in {"submit", "flush"} => batch' \in Job,
           to = "finished" => ~error /\ ordered = <<>>
    PROVE  IInv'
<1> USE DecoderAssumption DEF DecoderAssumption, queues
<1>1. /\ pc'[Caller] = to /\ pc'[Writer] = pc[Writer]
      /\ \A w \in Workers : pc'[w] = pc[w]
      /\ pc' \in [Threads -> Places]
  BY DEF IInv, Placed, Go, Threads, Places
<1>2. Placed'
  BY <1>1 DEF IInv, Placed
<1>3. Typed'
  BY DEF IInv, Typed
<1>4. Holding'
  BY <1>1 DEF IInv, Holding
<1>5. JobsCounted' = JobsCounted
  BY <1>1 DEF JobsCounted
<1>6. Queued' /\ Verdicts' /\ Checked'
  BY <1>5 DEF IInv, Queued, Verdicts, Checked, Order!Acceptable
<1>7. QED
  BY <1>2, <1>3, <1>4, <1>6 DEF IInv

LEMMA CallStep == IInv /\ (Calls \/ AwaitWritten \/ Join) => IInv'
<1> SUFFICES ASSUME IInv, Calls \/ AwaitWritten \/ Join PROVE IInv'
  OBVIOUS
<1>0. /\ Batches \subseteq Job /\ asleep \subseteq Threads /\ stopping \in BOOLEAN
      /\ end_seen \in BOOLEAN /\ (batch = NoJob \/ batch \in Job) /\ pc[Caller] \in CallerPlaces
      /\ error \in BOOLEAN
  BY BatchTyped DEF IInv, Typed, Placed
<1> USE DEF calling
<1>1. CASE Add
  <2>1. CASE error
    BY <1>0, <1>1, <2>1, CallerStep DEF Add, CallerPlaces
  <2>2. CASE ~error
    <3>1. batch' \in Job /\ end_seen' \in BOOLEAN
      BY <1>0, <1>1, <2>2 DEF Add, Job
    <3>2. QED
      BY <1>0, <1>1, <2>2, <3>1, CallerStep DEF Add, CallerPlaces
  <2>3. QED
    BY <2>1, <2>2
<1>2. CASE Reject
  BY <1>0, <1>2, CallerStep DEF Reject, CallerPlaces
<1>3. CASE Finish
  <2>1. CASE batch' \in Batches /\ Go(Caller, "flush")
    BY <1>0, <1>3, <2>1, CallerStep DEF Finish, CallerPlaces
  <2>2. CASE batch' = NoJob /\ Go(Caller, "finish")
    BY <1>0, <1>3, <2>2, CallerStep DEF Finish, CallerPlaces
  <2>3. QED
    BY <1>3, <2>1, <2>2 DEF Finish
<1>4. CASE Destroy
  BY <1>0, <1>4, CallerStep DEF Destroy, NotifyAll, CallerPlaces
<1>5. CASE AwaitWritten
  <2>1. CASE ~(AllWritten \/ error)
    <3>1. pc' = [pc EXCEPT ![Caller] = pc[Caller]] /\ pc[Caller] = "finish"
      BY <1>5, <2>1 DEF AwaitWritten, At, IInv, Placed
    <3>2. asleep' \subseteq Threads
      BY <1>0, <1>5, <2>1 DEF AwaitWritten, Sleep, Threads
    <3>3. QED
      BY <1>0, <1>5, <2>1, <3>1, <3>2, CallerStep DEF AwaitWritten, Go
  <2>2. CASE (AllWritten \/ error) /\ Go(Caller, "thrown")
    BY <1>0, <1>5, <2>2, CallerStep DEF AwaitWritten, CallerPlaces
  <2>3. CASE (AllWritten \/ error) /\ ~error /\ Go(Caller, "finished")
    BY <1>0, <1>5, <2>3, CallerStep DEF AwaitWritten, CallerPlaces, AllWritten
  <2>4. QED
    BY <1>5, <2>1, <2>2, <2>3 DEF AwaitWritten
<1>6. CASE Join
  BY <1>0, <1>6, CallerStep DEF Join, CallerPlaces
<1>7. QED
  BY <1>1, <1>2, <1>3, <1>4, <1>5, <1>6 DEF Calls

\* Appending a job keeps what is said of the jobs already there.
LEMMA AppendKeeps ==
    ASSUME Typed, NEW job \in Job, submitted' = Append(submitted, job)
    PROVE  /\ submitted' \in Seq(Job) /\ Len(submitted') = Len(submitted) + 1
           /\ \A i \in 1 .. Len(submitted) : submitted'[i] = submitted[i]
           /\ \A i \in 1 .. Len(submitted) : Order!Acceptable(i) => Order!Acceptable(i)'
<1>1. /\ submitted' \in Seq(Job) /\ Len(submitted') = Len(submitted) + 1
      /\ \A i \in 1 .. Len(submitted) : submitted'[i] = submitted[i]
  BY DEF Typed
<1>2. ASSUME NEW i \in 1 .. Len(submitted), Order!Acceptable(i)
      PROVE  Order!Acceptable(i)'
  <2>1. i # 1 => i - 1 \in 1 .. Len(submitted)
    BY DEF Typed
  <2>2. submitted'[i] = submitted[i] /\ (i # 1 => submitted'[i - 1] = submitted[i - 1])
    BY <1>1, <2>1
  <2>3. QED
    BY <1>2, <2>2 DEF Order!Acceptable
<1>3. QED
  BY <1>1, <1>2

LEMMA SubmitStep == IInv /\ SubmitBatch => IInv'
<1> SUFFICES ASSUME IInv, SubmitBatch PROVE IInv'
  OBVIOUS
<1> USE DecoderAssumption DEF DecoderAssumption, queues
<1>0. /\ batch \in Job /\ asleep \subseteq Threads /\ stopping \in BOOLEAN /\ Caller \in Threads
      /\ end_seen \in BOOLEAN /\ pc[Caller] \in {"submit", "flush"} /\ error \in BOOLEAN
  BY DEF SubmitBatch, At, IInv, Typed, Placed, Holding, Threads
<1>1. CASE ~(Room \/ error)
  <2>1. pc' = [pc EXCEPT ![Caller] = pc[Caller]]
    BY <1>1 DEF SubmitBatch, IInv, Placed
  <2>2. asleep' \subseteq Threads
    BY <1>0, <1>1 DEF SubmitBatch, Sleep
  <2>3. QED
    BY <1>0, <1>1, <2>1, <2>2, CallerStep DEF SubmitBatch, Go, CallerPlaces
<1>2. CASE error
  BY <1>0, <1>2, CallerStep DEF SubmitBatch, CallerPlaces
<1>3. CASE Room /\ ~error
  <2> DEFINE n == Len(submitted) + 1
             to == IF pc[Caller] = "flush" THEN "finish" ELSE "free"
  <2>1. /\ submitted' = Append(submitted, batch) /\ batch' = NoJob
        /\ result' = Append(result, "pending")
        /\ ordered' = Append(ordered, n) /\ jobs' = Append(jobs, n)
        /\ asleep' = {} /\ pc' = [pc EXCEPT ![Caller] = to]
        /\ UNCHANGED <<doing, end_seen, totals, error, stopping, output>>
    BY <1>3 DEF SubmitBatch, NotifyAll, Go
  <2>2. /\ submitted' \in Seq(Job) /\ Len(submitted') = n
        /\ \A i \in 1 .. Len(submitted) : submitted'[i] = submitted[i]
        /\ \A i \in 1 .. Len(submitted) : Order!Acceptable(i) => Order!Acceptable(i)'
    BY <1>0, <2>1, AppendKeeps DEF IInv
  <2>3. /\ pc'[Caller] = to /\ pc'[Writer] = pc[Writer]
        /\ \A w \in Workers : pc'[w] = pc[w]
        /\ pc' \in [Threads -> Places] /\ to \in {"finish", "free"}
    BY <1>0, <2>1 DEF IInv, Placed, Threads, Places, CallerPlaces
  <2>4. Placed'
    BY <2>1, <2>3 DEF IInv, Placed, CallerPlaces
  <2>5. /\ Len(submitted) \in Nat /\ 1 .. Len(submitted) \subseteq 1 .. n /\ n \in 1 .. n
        /\ ordered \in Seq(1 .. n) /\ jobs \in Seq(1 .. n) /\ output \in Seq(1 .. n)
    <3>1. Len(submitted) \in Nat /\ 1 .. Len(submitted) \subseteq 1 .. n /\ n \in 1 .. n
      BY DEF IInv, Typed
    <3>2. QED
      BY <3>1 DEF IInv, Typed
  <2>6. /\ ordered' \in Seq(1 .. n) /\ jobs' \in Seq(1 .. n) /\ Len(ordered') = Len(ordered) + 1
        /\ Len(ordered) \in Nat /\ ordered'[Len(ordered) + 1] = n
        /\ \A i \in 1 .. Len(ordered) : ordered'[i] = ordered[i]
    BY <2>1, <2>5
  <2>7. Len(ordered') <= MaxQueuedJobs
    BY <1>3, <2>6 DEF Room
  <2>8. /\ result' \in Seq({"pending", "decoded", "failed"}) /\ Len(result') = n
        /\ \A i \in 1 .. Len(submitted) : result'[i] = result[i]
        /\ result'[n] = "pending"
    BY <2>1 DEF IInv, Typed
  <2>9. Typed'
    BY <2>1, <2>2, <2>5, <2>6, <2>7, <2>8 DEF IInv, Typed
  <2>10. Holding'
    <3>1. pc'[Writer] \in {"get", "commit"} => ordered' # <<>> /\ Head(ordered') = Head(ordered)
      <4>1. pc[Writer] \in {"get", "commit"} => ordered # <<>>
        BY DEF IInv, Holding
      <4>2. ordered # <<>> => ordered' # <<>> /\ Head(ordered') = Head(ordered)
        <5>1. ordered # <<>> => 1 \in 1 .. Len(ordered)
          BY <2>5
        <5>2. ordered # <<>> => Head(ordered) = ordered[1]
          BY <2>5
        <5>3. ordered' # <<>> /\ Head(ordered') = ordered'[1]
          BY <2>6
        <5>4. QED
          BY <2>6, <5>1, <5>2, <5>3
      <4>3. QED
        BY <2>3, <4>1, <4>2
    <3>2. QED
      BY <2>1, <2>3, <3>1 DEF IInv, Holding
  <2>11. JobsCounted' = JobsCounted
    BY <2>1, <2>3 DEF JobsCounted
  <2>12. Queued'
    <3>1. JobsCounted \in Int /\ Len(ordered) = Len(submitted) - JobsCounted
          /\ \A i \in 1 .. Len(ordered) : ordered[i] = JobsCounted + i
      BY <1>3 DEF IInv, Queued, Typed, JobsCounted
    <3> DEFINE c == JobsCounted
    <3>2. /\ Len(ordered') = Len(submitted') - c
          /\ \A i \in 1 .. Len(ordered') : ordered'[i] = c + i
      <4> HIDE DEF c
      <4>1. c \in Int /\ Len(ordered) = Len(submitted) - c
            /\ \A i \in 1 .. Len(ordered) : ordered[i] = c + i
        BY <3>1 DEF c
      <4> DEFINE m == Len(ordered)
      <4>2. /\ m \in Nat /\ Len(ordered') = m + 1 /\ Len(submitted') = Len(submitted) + 1
            /\ Len(submitted) \in Nat /\ ordered'[m + 1] = Len(submitted) + 1
            /\ \A i \in 1 .. m : ordered'[i] = ordered[i]
        BY <2>2, <2>5, <2>6
      <4>3. Len(submitted) + 1 = c + m + 1
        BY <4>1, <4>2
      <4>4. ASSUME NEW i \in 1 .. Len(ordered') PROVE ordered'[i] = c + i
        <5>1. i \in 1 .. m + 1
          BY <4>2
        <5>2. CASE i \in 1 .. m
          BY <4>1, <4>2, <5>2
        <5>3. CASE i = m + 1
          BY <4>1, <4>2, <4>3, <5>3
        <5>4. QED
          BY <4>2, <5>1, <5>2, <5>3
      <4>5. QED
        BY <4>1, <4>2, <4>3, <4>4
    <3>3. QED
      BY <1>3, <2>1, <2>11, <3>2 DEF Queued
  <2>13. Verdicts'
    <3>1. \A i \in 1 .. n : i \in 1 .. Len(submitted) \/ i = n
      BY <2>5
    <3>2. \A i \in 1 .. n : result'[i] = "decoded" => submitted'[i].sound
      BY <3>1, <2>2, <2>8 DEF IInv, Verdicts
    <3>3. QED
      BY <2>2, <3>2 DEF Verdicts
  <2>14. Checked'
    <3>1. Len(output) <= Len(submitted) /\ Len(output) \in Nat
          /\ JobsCounted \in 0 .. Len(output)
      BY DEF IInv, Checked, Typed, JobsCounted, Holding
    <3>2. JobsCounted # 0 => submitted'[JobsCounted] = submitted[JobsCounted]
      <4>1. JobsCounted # 0 => JobsCounted \in 1 .. Len(submitted)
        BY <2>5, <3>1
      <4>2. QED
        BY <2>2, <4>1
    <3>3. \A i \in 1 .. Len(output) : output[i] = i /\ Order!Acceptable(i)'
      BY <2>2, <2>5, <3>1 DEF IInv, Checked
    <3>4. Len(output) <= Len(submitted')
      BY <2>2, <2>5, <3>1
    <3>5. QED
      BY <2>1, <2>11, <3>2, <3>3, <3>4 DEF IInv, Checked
  <2>15. QED
    BY <2>4, <2>9, <2>10, <2>12, <2>13, <2>14 DEF IInv
<1>4. QED
  BY <1>1, <1>2, <1>3

\* A step of a worker: the writer's and the caller's places stay.
LEMMA WorkerStep == \A w \in Workers : IInv /\ Worker(w) => IInv'
<1> SUFFICES ASSUME NEW w \in Workers, IInv, Worker(w) PROVE IInv'
  OBVIOUS
<1> USE DecoderAssumption DEF DecoderAssumption
<1>0. /\ w \in Threads /\ w # Caller /\ w # Writer
      /\ doing \in [Workers \cup {Writer} -> Nat \cup {NoJob}]
      /\ pc \in [Threads -> Places]
  BY DEF Threads, IInv, Typed, Placed
<1>1. ASSUME NEW to \in WorkerPlaces, pc' = [pc EXCEPT ![w] = to]
      PROVE  /\ pc'[Caller] = pc[Caller] /\ pc'[Writer] = pc[Writer] /\ pc'[w] = to
             /\ \A t \in Workers : t # w => pc'[t] = pc[t]
             /\ pc' \in [Threads -> Places]
  BY <1>0, <1>1 DEF Threads, Places
<1>2. CASE TakeJob(w)
  <2>1. /\ UNCHANGED <<submitted, ordered, result, batch, end_seen, totals, error, stopping, output>>
        /\ pc[w] = "wait"
    BY <1>2 DEF TakeJob, calling, At
  <2>2. CASE ~(stopping \/ jobs # <<>>)
    <3>1. /\ pc' = pc /\ doing' = doing /\ jobs' = jobs /\ asleep' \subseteq Threads
      BY <1>0, <1>2, <2>2 DEF TakeJob, Sleep, IInv, Placed
    <3>2. JobsCounted' = JobsCounted
      BY <2>1, <3>1 DEF JobsCounted
    <3>3. Placed' /\ Typed' /\ Holding'
      BY <2>1, <3>1 DEF IInv, Placed, Typed, Holding
    <3>4. Queued' /\ Verdicts' /\ Checked'
      BY <2>1, <3>2 DEF IInv, Queued, Verdicts, Checked, Order!Acceptable
    <3>5. QED
      BY <3>3, <3>4 DEF IInv
  <2>3. CASE (stopping \/ jobs # <<>>) /\ WorkerLeaves
    <3>1. /\ pc' = [pc EXCEPT ![w] = "exited"] /\ UNCHANGED <<asleep, doing, jobs>>
      BY <1>2, <2>3 DEF TakeJob, Go
    <3>2. /\ pc'[Caller] = pc[Caller] /\ pc'[Writer] = pc[Writer] /\ pc'[w] = "exited"
          /\ \A t \in Workers : t # w => pc'[t] = pc[t]
          /\ pc' \in [Threads -> Places]
      BY <1>1, <3>1 DEF WorkerPlaces
    <3>3. JobsCounted' = JobsCounted
      BY <2>1, <3>2 DEF JobsCounted
    <3>4. Placed'
      BY <3>1, <3>2 DEF IInv, Placed, WorkerPlaces
    <3>5. Typed' /\ Holding'
      BY <2>1, <3>1, <3>2 DEF IInv, Typed, Holding
    <3>6. Queued' /\ Verdicts' /\ Checked'
      BY <2>1, <3>3 DEF IInv, Queued, Verdicts, Checked, Order!Acceptable
    <3>7. QED
      BY <3>4, <3>5, <3>6 DEF IInv
  <2>4. CASE jobs # <<>>
    <3>1. /\ pc' = [pc EXCEPT ![w] = "decode"] /\ asleep' = asleep
          /\ doing' = [doing EXCEPT ![w] = Head(jobs)] /\ jobs' = Tail(jobs)
      BY <1>2, <2>4 DEF TakeJob, Go, WorkerLeaves
    <3>2. /\ pc'[Caller] = pc[Caller] /\ pc'[Writer] = pc[Writer] /\ pc'[w] = "decode"
          /\ \A t \in Workers : t # w => pc'[t] = pc[t]
          /\ pc' \in [Threads -> Places]
      BY <1>1, <3>1 DEF WorkerPlaces
    <3>3. JobsCounted' = JobsCounted
      BY <2>1, <3>2 DEF JobsCounted
    <3>4. Placed'
      BY <3>1, <3>2 DEF IInv, Placed, WorkerPlaces
    <3>5. Head(jobs) \in 1 .. Len(submitted) /\ jobs' \in Seq(1 .. Len(submitted))
          /\ Head(jobs) # NoJob /\ Len(submitted) \in Nat
      BY <2>4, <3>1 DEF IInv, Typed
    <3>6. /\ doing' \in [Workers \cup {Writer} -> Nat \cup {NoJob}]
          /\ doing'[w] = Head(jobs)
          /\ \A t \in Workers \cup {Writer} : t # w => doing'[t] = doing[t]
      BY <1>0, <3>1, <3>5
    <3>7. Typed'
      BY <2>1, <3>5, <3>6 DEF IInv, Typed
    <3>8. Holding'
      BY <1>0, <2>1, <3>2, <3>5, <3>6 DEF IInv, Holding
    <3>9. Queued' /\ Verdicts' /\ Checked'
      BY <2>1, <3>3 DEF IInv, Queued, Verdicts, Checked, Order!Acceptable
    <3>10. QED
      BY <3>4, <3>7, <3>8, <3>9 DEF IInv
  <2>5. QED
    BY <2>2, <2>3, <2>4 DEF WorkerLeaves
<1>3. CASE Decode(w)
  <2> DEFINE verdict == IF submitted[doing[w]].sound THEN "decoded" ELSE "failed"
  <2>1. /\ UNCHANGED <<asleep, submitted, jobs, ordered, batch, end_seen, totals, error, stopping, output>>
        /\ pc[w] = "decode" /\ pc' = [pc EXCEPT ![w] = "wait"]
        /\ result' = [result EXCEPT ![doing[w]] = verdict]
        /\ doing' = [doing EXCEPT ![w] = NoJob]
    BY <1>3 DEF Decode, calling, Go
  <2>2. /\ pc'[Caller] = pc[Caller] /\ pc'[Writer] = pc[Writer] /\ pc'[w] = "wait"
        /\ \A t \in Workers : t # w => pc'[t] = pc[t]
        /\ pc' \in [Threads -> Places]
    BY <1>1, <2>1 DEF WorkerPlaces
  <2>3. JobsCounted' = JobsCounted
    BY <2>1, <2>2 DEF JobsCounted
  <2>4. Placed'
    BY <2>1, <2>2 DEF IInv, Placed, WorkerPlaces
  <2>5. /\ doing' \in [Workers \cup {Writer} -> Nat \cup {NoJob}]
        /\ doing'[w] = NoJob
        /\ \A t \in Workers \cup {Writer} : t # w => doing'[t] = doing[t]
    BY <1>0, <2>1
  <2>6. doing[w] \in 1 .. Len(submitted)
    BY <2>1 DEF IInv, Holding, Typed
  <2>7. /\ result' \in Seq({"pending", "decoded", "failed"}) /\ Len(result') = Len(submitted)
        /\ result'[doing[w]] = verdict
        /\ \A n \in 1 .. Len(submitted) : n # doing[w] => result'[n] = result[n]
    BY <2>1, <2>6 DEF IInv, Typed
  <2>8. Typed'
    BY <2>1, <2>5, <2>7 DEF IInv, Typed
  <2>9. Holding'
    BY <1>0, <2>1, <2>2, <2>5 DEF IInv, Holding
  <2>10. Verdicts'
    BY <2>1, <2>6, <2>7 DEF IInv, Verdicts
  <2>11. Queued' /\ Checked'
    BY <2>1, <2>3 DEF IInv, Queued, Checked, Order!Acceptable
  <2>12. QED
    BY <2>4, <2>8, <2>9, <2>10, <2>11 DEF IInv
<1>4. QED
  BY <1>2, <1>3 DEF Worker

\* The job the writer has is the first one not counted.
LEMMA AtFront ==
    ASSUME IInv, pc[Writer] \in {"get", "commit"}
    PROVE  /\ ~error /\ JobsCounted \in Nat /\ Len(ordered) \in Nat /\ Len(ordered) >= 1
           /\ Len(submitted) \in Nat /\ JobsCounted + 1 <= Len(submitted)
           /\ doing[Writer] = JobsCounted + 1
           /\ doing[Writer] \in 1 .. Len(submitted)
           /\ Len(ordered) = Len(submitted) - JobsCounted
           /\ \A i \in 1 .. Len(ordered) : ordered[i] = JobsCounted + i
<1>1. ~error /\ ordered # <<>> /\ doing[Writer] = Head(ordered)
  BY DEF IInv, Holding
<1>2. JobsCounted \in Nat
  BY DEF IInv, Holding, JobsCounted, Typed
<1>3. Len(ordered) \in Nat /\ Len(ordered) >= 1 /\ Len(submitted) \in Nat /\ Head(ordered) = ordered[1]
  BY <1>1 DEF IInv, Typed
<1>4. Len(ordered) = Len(submitted) - JobsCounted /\ \A i \in 1 .. Len(ordered) : ordered[i] = JobsCounted + i
  BY <1>1 DEF IInv, Queued
<1>5. doing[Writer] = JobsCounted + 1
  BY <1>1, <1>3, <1>4
<1>6. JobsCounted + 1 <= Len(submitted)
  BY <1>2, <1>3, <1>4
<1>7. QED
  BY <1>1, <1>2, <1>3, <1>4, <1>5, <1>6

\* What the writer writes follows what is written.
LEMMA FrontAcceptable ==
    ASSUME IInv, pc[Writer] = "get", Sound(doing[Writer])
    PROVE  Order!Acceptable(doing[Writer])
<1> DEFINE n == doing[Writer]
<1>1. /\ n = JobsCounted + 1 /\ JobsCounted \in Nat /\ n \in 1 .. Len(submitted) /\ Len(submitted) \in Nat
  BY AtFront
<1>2. submitted[n] \in Job /\ (n # 1 => submitted[n - 1] \in Job)
  <2>1. n # 1 => n - 1 \in 1 .. Len(submitted)
    BY <1>1
  <2>2. submitted \in Seq(Job)
    BY DEF IInv, Typed
  <2>3. QED
    BY <1>1, <2>1, <2>2
<1>3. submitted[n].sound
  BY <1>1 DEF Sound, IInv, Verdicts
<1>4. totals.span = (IF n = 1 THEN 0 ELSE submitted[n - 1].last)
  <2>1. n = 1 <=> JobsCounted = 0
    BY <1>1
  <2>2. JobsCounted = n - 1
    BY <1>1
  <2>3. QED
    BY <2>1, <2>2 DEF IInv, Checked
<1>5. submitted[n].first >= totals.span
  <2>1. submitted[n].first \in Int /\ totals.span \in Int
    BY <1>2 DEF Job, IInv, Typed
  <2>2. ~(submitted[n].first < totals.span)
    BY DEF Sound, Backwards
  <2>3. QED
    BY <2>1, <2>2
<1>6. Append(totals.crc, n) = [i \in 1 .. n |-> i]
  <2> DEFINE all == Append(totals.crc, n)
  <2>1. totals.crc \in Seq(Nat) /\ Len(totals.crc) = JobsCounted /\ \A i \in 1 .. JobsCounted : totals.crc[i] = i
    BY DEF IInv, Typed, Checked
  <2>2. all \in Seq(Nat) /\ Len(all) = n
        /\ \A i \in 1 .. n : all[i] = IF i \in 1 .. JobsCounted THEN totals.crc[i] ELSE n
    BY <1>1, <2>1
  <2>3. \A i \in 1 .. n : i \in 1 .. JobsCounted \/ i = n
    BY <1>1
  <2> HIDE DEF all
  <2>4. \A i \in 1 .. n : all[i] = i
    BY <2>1, <2>2, <2>3
  <2>5. DOMAIN all = 1 .. n /\ all = [i \in DOMAIN all |-> all[i]]
    BY <2>2
  <2>6. all = [i \in 1 .. n |-> i]
    BY <2>4, <2>5
  <2>7. QED
    BY <2>6 DEF all
<1>7. submitted[n].end => submitted[n].crc = [i \in 1 .. n |-> i]
  BY <1>6 DEF Sound, Mismatch
<1>8. submitted[n].first >= (IF n = 1 THEN 0 ELSE submitted[n - 1].last)
  BY <1>4, <1>5
<1>9. QED
  BY <1>3, <1>7, <1>8 DEF Order!Acceptable

LEMMA WritingStep == IInv /\ WriterActs => IInv'
<1> SUFFICES ASSUME IInv, WriterActs PROVE IInv'
  OBVIOUS
<1> USE DecoderAssumption DEF DecoderAssumption, queues, calling
<1>0. /\ Writer \in Threads
      /\ doing \in [Workers \cup {Writer} -> Nat \cup {NoJob}]
      /\ pc \in [Threads -> Places]
  BY DEF Threads, IInv, Typed, Placed
<1>1. ASSUME NEW to \in WriterPlaces, pc' = [pc EXCEPT ![Writer] = to]
      PROVE  /\ pc'[Caller] = pc[Caller] /\ pc'[Writer] = to
             /\ \A t \in Workers : pc'[t] = pc[t]
             /\ pc' \in [Threads -> Places]
  BY <1>0, <1>1 DEF Threads, Places
<1>2. ASSUME NEW j \in 1 .. Len(submitted) \cup {NoJob}, doing' = [doing EXCEPT ![Writer] = j]
      PROVE  /\ doing' \in [Workers \cup {Writer} -> Nat \cup {NoJob}]
             /\ doing'[Writer] = j /\ \A t \in Workers : doing'[t] = doing[t]
  <2>1. j \in Nat \cup {NoJob}
    BY DEF IInv, Typed
  <2>2. QED
    BY <1>0, <1>2, <2>1
<1>3. CASE Await
  <2>1. /\ UNCHANGED <<submitted, jobs, ordered, result, batch, end_seen, totals, error, stopping, output>>
        /\ pc[Writer] = "wait"
    BY <1>3 DEF Await, At
  <2>2. CASE ~(stopping \/ ordered # <<>>)
    <3>1. pc' = pc /\ doing' = doing /\ asleep' \subseteq Threads
      BY <1>0, <1>3, <2>2 DEF Await, Sleep, IInv, Placed
    <3>2. JobsCounted' = JobsCounted
      BY <2>1, <3>1 DEF JobsCounted
    <3>3. Placed' /\ Typed' /\ Holding'
      BY <2>1, <3>1 DEF IInv, Placed, Typed, Holding
    <3>4. Queued' /\ Verdicts' /\ Checked'
      BY <2>1, <3>2 DEF IInv, Queued, Verdicts, Checked, Order!Acceptable
    <3>5. QED
      BY <3>3, <3>4 DEF IInv
  <2>3. CASE stopping /\ ordered = <<>>
    <3>1. pc' = [pc EXCEPT ![Writer] = "exited"] /\ UNCHANGED <<asleep, doing>>
      BY <1>3, <2>3 DEF Await, Go
    <3>2. /\ pc'[Caller] = pc[Caller] /\ pc'[Writer] = "exited"
          /\ \A t \in Workers : pc'[t] = pc[t]
          /\ pc' \in [Threads -> Places]
      BY <1>1, <3>1 DEF WriterPlaces
    <3>3. JobsCounted' = JobsCounted
      BY <2>1, <3>2 DEF JobsCounted
    <3>4. Placed'
      BY <3>1, <3>2 DEF IInv, Placed, WriterPlaces
    <3>5. Typed' /\ Holding'
      BY <2>1, <3>1, <3>2 DEF IInv, Typed, Holding
    <3>6. Queued' /\ Verdicts' /\ Checked'
      BY <2>1, <3>3 DEF IInv, Queued, Verdicts, Checked, Order!Acceptable
    <3>7. QED
      BY <3>4, <3>5, <3>6 DEF IInv
  <2>4. CASE ordered # <<>>
    <3>1. /\ pc' = [pc EXCEPT ![Writer] = "get"] /\ asleep' = asleep
          /\ doing' = [doing EXCEPT ![Writer] = Head(ordered)]
      BY <1>3, <2>4 DEF Await, Go
    <3>2. /\ pc'[Caller] = pc[Caller] /\ pc'[Writer] = "get"
          /\ \A t \in Workers : pc'[t] = pc[t]
          /\ pc' \in [Threads -> Places]
      BY <1>1, <3>1 DEF WriterPlaces
    <3>3. JobsCounted' = JobsCounted
      BY <2>1, <3>2 DEF JobsCounted
    <3>4. Placed'
      BY <3>1, <3>2 DEF IInv, Placed, WriterPlaces
    <3>5. Head(ordered) \in 1 .. Len(submitted) \cup {NoJob} /\ Head(ordered) \in 1 .. Len(submitted)
      BY <2>4 DEF IInv, Typed
    <3>6. /\ doing' \in [Workers \cup {Writer} -> Nat \cup {NoJob}]
          /\ doing'[Writer] = Head(ordered) /\ \A t \in Workers : doing'[t] = doing[t]
      BY <1>2, <3>1, <3>5
    <3>7. Typed'
      BY <2>1, <3>5, <3>6 DEF IInv, Typed
    <3>8. ~error
      BY <2>4 DEF IInv, Queued
    <3>9. Holding'
      BY <2>1, <2>4, <3>2, <3>6, <3>8 DEF IInv, Holding
    <3>10. Queued' /\ Verdicts' /\ Checked'
      BY <2>1, <3>3 DEF IInv, Queued, Verdicts, Checked, Order!Acceptable
    <3>11. QED
      BY <3>4, <3>7, <3>9, <3>10 DEF IInv
  <2>5. QED
    BY <2>2, <2>3, <2>4
<1>4. CASE WriteJob
  <2> DEFINE n == doing[Writer]
  <2>1. /\ UNCHANGED <<asleep, doing, submitted, jobs, ordered, result, batch, end_seen, totals, error, stopping>>
        /\ pc[Writer] = "get" /\ Sound(n) /\ output' = Append(output, n)
        /\ pc' = [pc EXCEPT ![Writer] = "commit"]
    BY <1>4 DEF WriteJob, Go
  <2>2. /\ pc'[Caller] = pc[Caller] /\ pc'[Writer] = "commit"
        /\ \A t \in Workers : pc'[t] = pc[t]
        /\ pc' \in [Threads -> Places]
    BY <1>1, <2>1 DEF WriterPlaces
  <2>3. /\ JobsCounted = Len(output) /\ Len(output) \in Nat
    BY <2>1 DEF JobsCounted, IInv, Typed
  <2>4. /\ n = Len(output) + 1 /\ n \in 1 .. Len(submitted) /\ ~error /\ Len(submitted) \in Nat
    BY <2>1, <2>3, AtFront
  <2>5. /\ output' \in Seq(1 .. Len(submitted)) /\ Len(output') = n
        /\ output'[n] = n /\ \A i \in 1 .. Len(output) : output'[i] = output[i]
    BY <2>1, <2>4 DEF IInv, Typed
  <2>6. JobsCounted' = JobsCounted
    <3>1. Len(output') - 1 = Len(output)
      BY <2>3, <2>4, <2>5
    <3>2. QED
      BY <2>2, <2>3, <3>1 DEF JobsCounted
  <2>7. Placed'
    BY <2>1, <2>2 DEF IInv, Placed, WriterPlaces
  <2>8. Typed'
    BY <2>1, <2>5 DEF IInv, Typed
  <2>9. Holding'
    <3>1. Len(output') > 0
      BY <2>3, <2>4, <2>5
    <3>2. QED
      BY <2>1, <2>2, <3>1 DEF IInv, Holding
  <2>10. Queued' /\ Verdicts'
    BY <2>1, <2>6 DEF IInv, Queued, Verdicts
  <2>11. Checked'
    <3>1. Order!Acceptable(n)
      BY <2>1, FrontAcceptable
    <3>2. \A i \in 1 .. n : i \in 1 .. Len(output) \/ i = n
      BY <2>3, <2>4
    <3>3. \A i \in 1 .. n : output'[i] = i /\ Order!Acceptable(i)
      BY <2>5, <3>1, <3>2 DEF IInv, Checked
    <3>4. \A i \in 1 .. Len(output') : output'[i] = i /\ Order!Acceptable(i)'
      BY <2>1, <2>5, <3>3 DEF Order!Acceptable
    <3>5. Len(output') <= Len(submitted')
      BY <2>1, <2>4, <2>5
    <3>6. QED
      BY <2>1, <2>6, <3>4, <3>5 DEF IInv, Checked
  <2>12. QED
    BY <2>7, <2>8, <2>9, <2>10, <2>11 DEF IInv
<1>5. CASE CommitJob
  <2> DEFINE n == doing[Writer]
             job == submitted[n]
  <2>1. /\ UNCHANGED <<submitted, jobs, result, batch, end_seen, error, stopping, output>>
        /\ pc[Writer] = "commit" /\ ordered' = Tail(ordered) /\ asleep' = {}
        /\ totals' = [pairs |-> totals.pairs + (job.last - job.first),
                      span  |-> job.last,
                      gaps  |-> totals.gaps + GapBefore(job),
                      crc   |-> Append(totals.crc, n),
                      ended |-> totals.ended \/ job.end]
        /\ doing' = [doing EXCEPT ![Writer] = NoJob]
        /\ pc' = [pc EXCEPT ![Writer] = "wait"]
    BY <1>5 DEF CommitJob, CommitNotice, NotifyAll, Go
  <2>2. /\ pc'[Caller] = pc[Caller] /\ pc'[Writer] = "wait"
        /\ \A t \in Workers : pc'[t] = pc[t]
        /\ pc' \in [Threads -> Places]
    BY <1>1, <2>1 DEF WriterPlaces
  <2>3. /\ doing' \in [Workers \cup {Writer} -> Nat \cup {NoJob}]
        /\ doing'[Writer] = NoJob /\ \A t \in Workers : doing'[t] = doing[t]
    BY <1>2, <2>1
  <2>4. /\ JobsCounted = Len(output) - 1 /\ Len(output) \in Nat
    BY <2>1 DEF JobsCounted, IInv, Typed
  <2>5. /\ n = JobsCounted + 1 /\ n \in 1 .. Len(submitted) /\ ~error /\ Len(submitted) \in Nat
        /\ JobsCounted \in Nat /\ Len(ordered) \in Nat /\ Len(ordered) >= 1
        /\ Len(ordered) = Len(submitted) - JobsCounted
        /\ \A i \in 1 .. Len(ordered) : ordered[i] = JobsCounted + i
    BY <2>1, AtFront
  <2>6. n = Len(output) /\ JobsCounted' = n
    BY <2>1, <2>2, <2>4, <2>5 DEF JobsCounted
  <2>7. job \in Job /\ totals \in [pairs : Int, span : Nat, gaps : Nat, crc : Seq(Nat), ended : BOOLEAN]
    BY <2>5 DEF IInv, Typed
  <2>8. totals' \in [pairs : Int, span : Nat, gaps : Nat, crc : Seq(Nat), ended : BOOLEAN]
        /\ totals'.span = job.last /\ totals'.crc = Append(totals.crc, n)
    <3>1. totals.pairs + (job.last - job.first) \in Int /\ job.last \in Nat
      BY <2>7 DEF Job
    <3>2. totals.gaps + GapBefore(job) \in Nat
      BY <2>7 DEF GapBefore
    <3>3. Append(totals.crc, n) \in Seq(Nat)
      BY <2>5, <2>7
    <3>4. totals.ended \in BOOLEAN /\ job.end \in BOOLEAN
      BY <2>7 DEF Job
    <3>5. (totals.ended \/ job.end) \in BOOLEAN
      BY Zenon, <3>4
    <3>6. QED
      BY <2>1, <3>1, <3>2, <3>3, <3>5
  <2>9. Placed'
    BY <2>1, <2>2 DEF IInv, Placed, WriterPlaces
  <2>10. /\ ordered' \in Seq(1 .. Len(submitted)) /\ Len(ordered') = Len(ordered) - 1
         /\ \A i \in 1 .. Len(ordered') : ordered'[i] = ordered[i + 1]
    BY <2>1, <2>5 DEF IInv, Typed
  <2>11. Len(ordered') <= MaxQueuedJobs
    BY <2>5, <2>10 DEF IInv, Typed
  <2>12. Typed'
    BY <2>1, <2>3, <2>8, <2>10, <2>11 DEF IInv, Typed
  <2>13. Holding'
    <3>1. pc[Caller] # "finished"
      BY <2>1 DEF IInv, Holding
    <3>2. QED
      BY <2>1, <2>2, <2>3, <3>1 DEF IInv, Holding
  <2>14. Queued'
    <3> DEFINE c == JobsCounted
               m == Len(ordered)
               l == Len(submitted)
               rest == Len(ordered')
    <3>1. /\ c \in Nat /\ m \in Nat /\ m = l - c /\ l \in Nat /\ m >= 1
          /\ \A i \in 1 .. m : ordered[i] = c + i
          /\ rest = m - 1 /\ n = c + 1
      BY <2>5, <2>10
    <3> HIDE DEF c, m, n, l, rest
    <3>2. rest = l - n
      BY <3>1
    <3>3. ASSUME NEW i \in 1 .. rest PROVE ordered'[i] = n + i
      <4>1. i \in 1 .. m - 1 /\ i + 1 \in 1 .. m
        BY <3>1
      <4>2. ordered'[i] = ordered[i + 1]
        BY <2>10 DEF rest
      <4>3. ordered[i + 1] = c + (i + 1)
        BY <3>1, <4>1
      <4>4. QED
        BY <3>1, <4>1, <4>2, <4>3
    <3>4. QED
      BY <2>1, <2>5, <2>6, <3>2, <3>3 DEF Queued, rest, l
  <2>15. Verdicts'
    BY <2>1 DEF IInv, Verdicts
  <2>16. Checked'
    <3>1. totals.crc \in Seq(Nat) /\ Len(totals.crc) = JobsCounted /\ \A i \in 1 .. JobsCounted : totals.crc[i] = i
      BY DEF IInv, Typed, Checked
    <3> DEFINE c == JobsCounted
               all == Append(totals.crc, n)
    <3>2. Len(all) = n /\ \A i \in 1 .. n : all[i] = IF i \in 1 .. c THEN totals.crc[i] ELSE n
      <4>1. n \in Nat /\ n = Len(totals.crc) + 1 /\ c = Len(totals.crc)
        BY <2>5, <3>1
      <4>2. n \notin 1 .. c
        BY <4>1, <3>1
      <4>3. /\ Len(all) = Len(totals.crc) + 1
            /\ \A i \in 1 .. Len(totals.crc) : all[i] = totals.crc[i]
            /\ all[Len(totals.crc) + 1] = n
        BY <3>1, <4>1, AppendProperties
      <4>4. \A i \in 1 .. n : i \in 1 .. c \/ i = n
        BY <4>1, <3>1
      <4> HIDE DEF all, c
      <4>5. QED
        BY <4>1, <4>2, <4>3, <4>4
    <3>3. \A i \in 1 .. n : i \in 1 .. c \/ i = n
      BY <2>5
    <3>4. \A i \in 1 .. n : all[i] = i
      BY <3>1, <3>2, <3>3
    <3>5. n # 0
      BY <2>5
    <3>6. QED
      BY <2>1, <2>6, <2>8, <3>2, <3>4, <3>5 DEF IInv, Checked, Order!Acceptable
  <2>17. QED
    BY <2>9, <2>12, <2>13, <2>14, <2>15, <2>16 DEF IInv
<1>6. CASE FailJob
  <2>1. /\ UNCHANGED <<submitted, jobs, result, batch, end_seen, totals, stopping, output>>
        /\ pc[Writer] = "get" /\ ordered' = <<>> /\ asleep' = {} /\ error' = TRUE
        /\ doing' = [doing EXCEPT ![Writer] = NoJob]
        /\ pc' = [pc EXCEPT ![Writer] = "wait"]
    BY <1>6 DEF FailJob, RestGivenUp, NotifyAll, Go
  <2>2. /\ pc'[Caller] = pc[Caller] /\ pc'[Writer] = "wait"
        /\ \A t \in Workers : pc'[t] = pc[t]
        /\ pc' \in [Threads -> Places]
    BY <1>1, <2>1 DEF WriterPlaces
  <2>3. /\ doing' \in [Workers \cup {Writer} -> Nat \cup {NoJob}]
        /\ doing'[Writer] = NoJob /\ \A t \in Workers : doing'[t] = doing[t]
    BY <1>2, <2>1
  <2>4. JobsCounted' = JobsCounted
    BY <2>1, <2>2 DEF JobsCounted
  <2>5. Placed'
    BY <2>1, <2>2 DEF IInv, Placed, WriterPlaces
  <2>6. ordered' \in Seq(1 .. Len(submitted)) /\ Len(ordered') <= MaxQueuedJobs
    BY <2>1
  <2>7. Typed'
    BY <2>1, <2>3, <2>6 DEF IInv, Typed
  <2>8. Holding'
    <3>1. pc[Caller] # "finished"
      BY <2>1 DEF IInv, Holding
    <3>2. QED
      BY <2>1, <2>2, <2>3, <3>1 DEF IInv, Holding
  <2>9. Queued' /\ Verdicts' /\ Checked'
    BY <2>1, <2>4 DEF IInv, Queued, Verdicts, Checked, Order!Acceptable
  <2>10. QED
    BY <2>5, <2>7, <2>8, <2>9 DEF IInv
<1>7. QED
  BY <1>3, <1>4, <1>5, <1>6 DEF WriterActs
-----------------------------------------------------------------------------
THEOREM Invariance == Spec => []IInv
<1>1. IInv /\ [Next]_vars => IInv'
  <2> SUFFICES ASSUME IInv, [Next]_vars PROVE IInv'
    OBVIOUS
  <2>1. CASE UNCHANGED vars
    <3>1. UNCHANGED <<pc, asleep, doing, submitted, jobs, ordered, result, batch, end_seen,
                      totals, error, stopping, output>>
      BY <2>1 DEF vars, threads, queues, calling
    <3>2. JobsCounted' = JobsCounted
      BY <3>1 DEF JobsCounted
    <3>3. Placed' /\ Typed' /\ Holding'
      BY <3>1 DEF IInv, Placed, Typed, Holding
    <3>4. Queued' /\ Verdicts' /\ Checked'
      BY <3>1, <3>2 DEF IInv, Queued, Verdicts, Checked, Order!Acceptable
    <3>5. QED
      BY <3>3, <3>4 DEF IInv
  <2>2. CASE CallerWaits \/ Calls
    BY <2>2, SubmitStep, CallStep DEF CallerWaits
  <2>3. CASE WriterActs
    BY <2>3, WritingStep
  <2>4. CASE \E w \in Workers : Worker(w)
    BY <2>4, WorkerStep
  <2>5. QED
    BY <2>1, <2>2, <2>3, <2>4 DEF Next, Gone
<1>2. QED
  BY <1>1, Start, PTL DEF Spec

\* decoder.cpp 84-96: every variable keeps its type, and the queue of the
\* writer never outgrows kMaxQueuedJobs.
THEOREM TypeCorrect == Spec => []TypeOK
<1>1. IInv => TypeOK
  <2> SUFFICES ASSUME IInv PROVE TypeOK
    OBVIOUS
  <2>1. DOMAIN doing = Workers \cup {Writer}
    BY DEF IInv, Typed
  <2>2. QED
    BY <2>1 DEF IInv, Placed, Typed, TypeOK, CallerPlaces, WorkerPlaces, WriterPlaces
<1>2. QED
  BY <1>1, Invariance, PTL

\* decoder.cpp 98-107: finish() returns only with every submitted job
\* acceptable and in the output, for any number of workers.
THEOREM FinishedMeansWhole == Spec => []FinishedWhole
<1>1. IInv => FinishedWhole
  <2> SUFFICES ASSUME IInv, pc[Caller] = "finished"
               PROVE  /\ output = UpTo(Len(submitted))
                      /\ \A n \in DOMAIN submitted : Order!Acceptable(n)
    BY DEF FinishedWhole
  <2>1. ~error /\ ordered = <<>> /\ pc[Writer] \notin {"get", "commit"}
    BY DEF IInv, Holding
  <2>2. /\ JobsCounted = Len(output) /\ Len(output) \in Nat /\ Len(submitted) \in Nat
        /\ output \in Seq(1 .. Len(submitted)) /\ DOMAIN submitted = 1 .. Len(submitted)
    BY <2>1 DEF JobsCounted, IInv, Typed
  <2>3. Len(output) = Len(submitted)
    <3>1. Len(ordered) = Len(submitted) - JobsCounted /\ Len(ordered) = 0
      BY <2>1 DEF IInv, Queued
    <3>2. QED
      BY <2>2, <3>1
  <2>4. output = [i \in 1 .. Len(submitted) |-> i]
    <3>1. output = [i \in 1 .. Len(output) |-> output[i]]
      BY <2>2
    <3>2. QED
      BY <2>3, <3>1 DEF IInv, Checked
  <2>5. QED
    BY <2>2, <2>3, <2>4 DEF IInv, Checked, UpTo
<1>2. QED
  BY <1>1, Invariance, PTL

\* decoder.h: the output is at any time an in-order run of acceptable jobs
\* from the first one submitted, whatever order the workers finish in, and
\* ends for good at the first failure.
THEOREM OrderPreserved == Spec => ImplementsOrder
<1>1. Init => Order!Init
  BY DEF Init, Order!Init
<1>2. IInv /\ [Next]_vars => [Order!Next]_(Order!order)
  <2> SUFFICES ASSUME IInv, [Next]_vars,
                      ~ UNCHANGED <<submitted, output, error>>
               PROVE  Order!Next
    BY DEF Order!order
  <2>1. SubmitBatch \/ WriteJob \/ FailJob
    BY DEF Next, vars, threads, queues, calling, CallerWaits, Calls, WriterActs, Worker, Gone,
           Add, Reject, Finish, Destroy, AwaitWritten, Join, TakeJob, Decode, Await, CommitJob
  <2>2. CASE SubmitBatch
    <3>1. /\ ~error /\ submitted' = Append(submitted, batch) /\ UNCHANGED <<output, error>>
          /\ pc[Caller] \in {"submit", "flush"}
      BY <2>2 DEF SubmitBatch, queues, At
    <3>2. submitted \in Seq(Job) /\ batch \in Job
      BY <3>1 DEF IInv, Typed, Holding
    <3>3. /\ Len(submitted') = Len(submitted) + 1
          /\ SubSeq(submitted', 1, Len(submitted)) = submitted
      BY <3>1, <3>2
    <3>4. QED
      BY <3>1, <3>3 DEF Order!Next, Order!Submit
  <2>3. CASE WriteJob
    <3>1. /\ pc[Writer] = "get" /\ Sound(doing[Writer]) /\ output' = Append(output, doing[Writer])
          /\ UNCHANGED <<submitted, error>>
      BY <2>3 DEF WriteJob, queues
    <3>2. JobsCounted = Len(output) /\ Len(output) \in Nat
      BY <3>1 DEF JobsCounted, IInv, Typed
    <3>3. /\ ~error /\ doing[Writer] = Len(output) + 1 /\ Len(output) + 1 <= Len(submitted)
          /\ Len(submitted) \in Nat /\ doing[Writer] \in 1 .. Len(submitted)
      BY <3>1, <3>2, AtFront
    <3>4. Order!Acceptable(Len(output) + 1)
      BY <3>1, <3>3, FrontAcceptable
    <3>5. Len(output') = Len(output) + 1
      BY <3>1, <3>3 DEF IInv, Typed
    <3>6. Len(output) < Len(submitted)
      BY <3>2, <3>3
    <3>7. QED
      BY <3>1, <3>3, <3>4, <3>5, <3>6 DEF Order!Next, Order!Write
  <2>4. CASE FailJob
    <3>1. pc[Writer] = "get" /\ error' = TRUE /\ UNCHANGED <<submitted, output>>
      BY <2>4 DEF FailJob
    <3>2. JobsCounted = Len(output) /\ Len(output) \in Nat
      BY <3>1 DEF JobsCounted, IInv, Typed
    <3>3. ~error /\ Len(output) < Len(submitted)
      BY <3>1, <3>2, AtFront
    <3>4. QED
      BY <3>1, <3>3 DEF Order!Next, Order!Fail
  <2>5. QED
    BY <2>1, <2>2, <2>3, <2>4
<1>3. QED
  BY <1>1, <1>2, Invariance, PTL DEF Spec, ImplementsOrder, Order!Spec
-----------------------------------------------------------------------------
\* The totals.  Reference is a recursive function, so that it is what its
\* definition says has to be shown first: the prefixes of it exist by the
\* well-foundedness of the naturals, agree with each other and make it up.
LEMMA Least ==
    ASSUME NEW T \in SUBSET Nat, T # {}
    PROVE  \E i \in T : \A j \in T : i <= j
<1> DEFINE Less == {p \in Nat \X Nat : p[1] < p[2]}
<1>1. IsWellFoundedOn(Less, Nat)
  BY NatLessThanWellFounded DEF OpToRel
<1>2. PICK i \in T : \A j \in T : ~(<<j, i>> \in Less)
  BY <1>1, WFMin
<1>3. \A j \in T : <<j, i>> \in Nat \X Nat
  OBVIOUS
<1>4. \A j \in T : ~(j < i)
  BY <1>2, <1>3
<1>5. QED
  BY <1>4

\* The totals after the next job.
Plus(s, before, n) ==
    [pairs |-> before.pairs + 1,
     span  |-> s[n].last,
     gaps  |-> before.gaps + (IF s[n].first = before.span THEN 0 ELSE 1),
     crc   |-> UpTo(n),
     ended |-> s[n].end]
After(s, f, n) == IF n = 0 THEN NoTotals ELSE Plus(s, f[n - 1], n)
Prefix(s, m, f) == f = [n \in 0 .. m |-> After(s, f, n)]
WholeRun(s, f) == f = [n \in Nat |-> After(s, f, n)]

LEMMA PrefixValue ==
    ASSUME NEW s, NEW m \in Nat, NEW f, Prefix(s, m, f), NEW n \in 0 .. m
    PROVE  f[n] = After(s, f, n)
BY DEF Prefix

LEMMA PrefixesAgree ==
    ASSUME NEW s, NEW t, NEW k \in Nat, NEW m \in Nat,
           NEW f, NEW g, Prefix(s, m, f), Prefix(t, k, g), k <= m,
           \A i \in 1 .. k : s[i] = t[i]
    PROVE  f[k] = g[k]
<1> DEFINE T == {i \in 0 .. k : f[i] # g[i]}
<1>1. SUFFICES ASSUME T # {} PROVE FALSE
  OBVIOUS
<1>2. PICK i \in T : \A j \in T : i <= j
  <2>1. T \in SUBSET Nat
    OBVIOUS
  <2> HIDE DEF T
  <2>2. QED
    BY <1>1, <2>1, Least
<1>3. i \in 0 .. k /\ i \in 0 .. m /\ f[i] # g[i]
  BY <1>2
<1>4. f[i] = After(s, f, i) /\ g[i] = After(t, g, i)
  BY <1>3, PrefixValue
<1>5. i # 0
  BY <1>3, <1>4 DEF After
<1>6. i - 1 \in 0 .. k /\ ~(i <= i - 1) /\ i \in 1 .. k
  BY <1>3, <1>5
<1>7. f[i - 1] = g[i - 1]
  BY <1>2, <1>6
<1>8. s[i] = t[i]
  BY <1>6
<1>9. QED
  BY <1>3, <1>4, <1>7, <1>8 DEF After, Plus

LEMMA PrefixExists ==
    ASSUME NEW s, NEW m \in Nat
    PROVE  \E f : Prefix(s, m, f)
<1> DEFINE T == {i \in Nat : ~\E f : Prefix(s, i, f)}
<1>1. SUFFICES ASSUME T # {} PROVE FALSE
  OBVIOUS
<1>2. PICK i \in T : \A j \in T : i <= j
  BY <1>1, Least
<1>3. CASE i = 0
  <2> DEFINE f == [n \in 0 .. 0 |-> NoTotals]
  <2>1. Prefix(s, 0, f)
    BY DEF Prefix, After
  <2>2. QED
    BY <1>2, <1>3, <2>1
<1>4. CASE i # 0
  <2>1. i - 1 \in Nat /\ ~(i <= i - 1)
    BY <1>2, <1>4
  <2>2. PICK f : Prefix(s, i - 1, f)
    BY <1>2, <2>1
  <2> DEFINE g == [n \in 0 .. i |-> IF n = i THEN Plus(s, f[i - 1], i) ELSE f[n]]
  <2>3. ASSUME NEW n \in 0 .. i PROVE g[n] = After(s, g, n)
    <3>1. CASE n = i
      <4>1. g[n] = Plus(s, f[i - 1], i) /\ g[i - 1] = f[i - 1]
        BY <2>1, <3>1
      <4>2. QED
        BY <1>4, <3>1, <4>1 DEF After
    <3>2. CASE n # i
      <4>1. n \in 0 .. i - 1 /\ g[n] = f[n]
        BY <2>1, <3>2
      <4>2. n # 0 => g[n - 1] = f[n - 1]
        BY <2>1, <4>1
      <4>3. f[n] = After(s, f, n)
        BY <2>1, <2>2, <4>1, PrefixValue
      <4>4. QED
        BY <4>1, <4>2, <4>3 DEF After
    <3>3. QED
      BY <3>1, <3>2
  <2>4. g = [n \in 0 .. i |-> g[n]]
    OBVIOUS
  <2> HIDE DEF g
  <2>5. Prefix(s, i, g)
    BY <2>3, <2>4 DEF Prefix
  <2>6. QED
    BY <1>2, <2>5
<1>5. QED
  BY <1>3, <1>4

LEMMA WholeExists == ASSUME NEW s PROVE \E f : WholeRun(s, f)
<1> DEFINE Part(n) == CHOOSE f : Prefix(s, n, f)
           f == [n \in Nat |-> Part(n)[n]]
<1>1. ASSUME NEW n \in Nat PROVE Prefix(s, n, Part(n))
  BY PrefixExists
<1>2. ASSUME NEW n \in Nat PROVE f[n] = After(s, f, n)
  <2>1. f[n] = After(s, Part(n), n)
    <3> HIDE DEF Part
    <3>1. QED
      BY <1>1, PrefixValue
  <2>2. CASE n = 0
    BY <2>1, <2>2 DEF After
  <2>3. CASE n # 0
    <3>1. n - 1 \in Nat /\ n - 1 <= n
      BY <2>3
    <3>2. Prefix(s, n, Part(n)) /\ Prefix(s, n - 1, Part(n - 1))
      BY <1>1, <3>1
    <3> HIDE DEF Part
    <3>3. Part(n)[n - 1] = Part(n - 1)[n - 1]
      BY <3>1, <3>2, PrefixesAgree
    <3>4. f[n - 1] = Part(n - 1)[n - 1]
      BY <3>1
    <3>5. QED
      BY <2>1, <2>3, <3>3, <3>4 DEF After
  <2>4. QED
    BY <2>2, <2>3
<1>3. f = [n \in Nat |-> f[n]]
  OBVIOUS
<1> HIDE DEF f
<1>4. WholeRun(s, f)
  BY <1>2, <1>3 DEF WholeRun
<1>5. QED
  BY <1>4

\* The reference is what its definition says.
LEMMA ReferenceWhole == WholeRun(submitted, Reference)
<1>1. Reference = CHOOSE f : WholeRun(submitted, f)
  BY DEF Reference, WholeRun, After, Plus
<1>2. QED
  BY <1>1, WholeExists

\* A job submitted later leaves the reference of those before it alone.
LEMMA ReferenceKept ==
    ASSUME Len(submitted) \in Nat, NEW n \in 0 .. Len(submitted),
           \A i \in 1 .. Len(submitted) : submitted'[i] = submitted[i]
    PROVE  Reference'[n] = Reference[n]
<1>1. WholeRun(submitted, Reference) /\ WholeRun(submitted', Reference')
  <2>1. Reference' = CHOOSE f : WholeRun(submitted', f)
    BY DEF Reference, WholeRun, After, Plus, NoTotals, UpTo
  <2>2. QED
    BY <2>1, ReferenceWhole, WholeExists
<1>2. ASSUME NEW s, NEW f, WholeRun(s, f)
      PROVE  /\ Prefix(s, n, [i \in 0 .. n |-> f[i]])
             /\ [i \in 0 .. n |-> f[i]][n] = f[n]
  <2> DEFINE g == [i \in 0 .. n |-> f[i]]
  <2>1. ASSUME NEW i \in 0 .. n PROVE g[i] = After(s, g, i)
    <3>1. g[i] = f[i] /\ f[i] = After(s, f, i)
      BY <1>2 DEF WholeRun
    <3>2. i # 0 => g[i - 1] = f[i - 1]
      OBVIOUS
    <3>3. QED
      BY <3>1, <3>2 DEF After
  <2>2. g = [i \in 0 .. n |-> g[i]]
    OBVIOUS
  <2>3. n \in 0 .. n
    OBVIOUS
  <2>4. g[n] = f[n]
    BY <2>3
  <2> HIDE DEF g
  <2>5. Prefix(s, n, g)
    BY <2>1, <2>2 DEF Prefix
  <2>6. QED
    BY <2>4, <2>5 DEF g
<1>3. PICK f : Prefix(submitted, n, f) /\ f[n] = Reference[n]
  BY <1>1, <1>2
<1>4. PICK g : Prefix(submitted', n, g) /\ g[n] = Reference'[n]
  BY <1>1, <1>2
<1>5. n \in Nat /\ n <= n /\ \A i \in 1 .. n : submitted[i] = submitted'[i]
  OBVIOUS
<1>6. f[n] = g[n]
  <2>1. \A s, t : Prefix(s, n, f) /\ Prefix(t, n, g) /\ (\A i \in 1 .. n : s[i] = t[i])
                   => f[n] = g[n]
    <3>1. ASSUME NEW s, NEW t, Prefix(s, n, f), Prefix(t, n, g), \A i \in 1 .. n : s[i] = t[i]
          PROVE  f[n] = g[n]
      <4>1. n \in Nat
        BY <1>5
      <4>2. QED
        BY <3>1, <4>1, PrefixesAgree
    <3>2. QED
      BY <3>1
  <2>2. QED
    BY <1>3, <1>4, <1>5, <2>1, Zenon
<1>7. QED
  BY <1>3, <1>4, <1>6

\* What the caller submits: jobs of one pair, and nothing behind an END record.
Cut ==
    /\ \A i \in 1 .. Len(submitted) : /\ submitted[i].last = submitted[i].first + 1
                                      /\ submitted[i].end => end_seen /\ i = Len(submitted)
    /\ pc[Caller] \in {"submit", "flush"} =>
           /\ batch.last = batch.first + 1
           /\ batch.end => end_seen
           /\ \A i \in 1 .. Len(submitted) : ~submitted[i].end
Totals == ~error => totals = Reference[JobsCounted]

LEMMA CutStart == Init => Cut /\ Totals
<1> SUFFICES ASSUME Init PROVE Cut /\ Totals
  OBVIOUS
<1>1. Len(submitted) = 0 /\ pc[Caller] = "free" /\ pc[Writer] = "wait" /\ output = <<>>
  BY DecoderAssumption DEF DecoderAssumption, Init, Threads
<1>2. Reference[0] = NoTotals
  BY ReferenceWhole DEF WholeRun, After
<1>3. JobsCounted = 0
  BY <1>1 DEF JobsCounted
<1>4. Cut
  BY <1>1 DEF Cut
<1>5. Totals
  BY <1>2, <1>3 DEF Totals, Init
<1>6. QED
  BY <1>4, <1>5

LEMMA CutStep == IInv /\ Cut /\ [Next]_vars => Cut'
<1> SUFFICES ASSUME IInv, Cut, [Next]_vars PROVE Cut'
  OBVIOUS
<1>0. /\ \A to : Go(Caller, to) => pc'[Caller] = to
      /\ \A t \in Threads \ {Caller} : \A to : Go(t, to) => pc'[Caller] = pc[Caller]
      /\ Writer \in Threads \ {Caller} /\ Workers \subseteq Threads \ {Caller}
  BY DecoderAssumption DEF DecoderAssumption, IInv, Placed, Go, Threads
<1>1. ASSUME UNCHANGED <<submitted, end_seen>>, pc'[Caller] \notin {"submit", "flush"}
      PROVE  Cut'
  BY <1>1 DEF Cut
<1>2. ASSUME UNCHANGED <<submitted, end_seen, batch>>, pc'[Caller] = pc[Caller]
      PROVE  Cut'
  BY <1>2 DEF Cut
<1>3. ASSUME NEW b \in Batches PROVE b.last = b.first + 1
  BY DEF Batches
<1>4. CASE Add
  <2>1. CASE error
    BY <1>0, <1>1, <1>4, <2>1 DEF Add, queues, calling
  <2>2. CASE ~error
    BY <1>0, <1>3, <1>4, <2>2 DEF Add, queues, Cut
  <2>3. QED
    BY <2>1, <2>2
<1>5. CASE Reject \/ Destroy \/ Join
  BY <1>0, <1>1, <1>5 DEF Reject, Destroy, Join, queues, calling
<1>6. CASE Finish
  <2>1. CASE batch' \in Batches /\ ~batch'.end /\ ~end_seen
    BY <1>0, <1>3, <1>6, <2>1 DEF Finish, queues, Cut
  <2>2. CASE Go(Caller, "finish")
    BY <1>0, <1>1, <1>6, <2>2 DEF Finish, queues
  <2>3. QED
    BY <1>6, <2>1, <2>2 DEF Finish
<1>7. CASE AwaitWritten
  BY <1>0, <1>1, <1>2, <1>7 DEF AwaitWritten, queues, calling
<1>8. CASE SubmitBatch
  <2>1. CASE ~(Room \/ error)
    BY <1>2, <1>8, <2>1 DEF SubmitBatch, queues
  <2>2. CASE error
    BY <1>0, <1>1, <1>8, <2>2 DEF SubmitBatch, queues
  <2>3. CASE Room /\ ~error
    <3>1. /\ submitted' = Append(submitted, batch) /\ pc[Caller] \in {"submit", "flush"}
          /\ end_seen' = end_seen
      BY <1>8, <2>3 DEF SubmitBatch, At
    <3>2. pc'[Caller] \notin {"submit", "flush"}
      BY <1>0, <1>8, <2>3 DEF SubmitBatch
    <3>3. submitted \in Seq(Job) /\ batch \in Job
      BY <3>1 DEF IInv, Typed, Holding
    <3>4. /\ Len(submitted) \in Nat /\ Len(submitted') = Len(submitted) + 1
          /\ \A i \in 1 .. Len(submitted) : submitted'[i] = submitted[i]
          /\ submitted'[Len(submitted) + 1] = batch
      BY <3>1, <3>3
    <3>5. \A i \in 1 .. Len(submitted) + 1 : i \in 1 .. Len(submitted) \/ i = Len(submitted) + 1
      BY <3>4
    <3>6. \A i \in 1 .. Len(submitted) : submitted[i].last = submitted[i].first + 1 /\ ~submitted[i].end
      BY <3>1 DEF Cut
    <3>7. batch.last = batch.first + 1 /\ (batch.end => end_seen)
      BY <3>1 DEF Cut
    <3>8. QED
      BY <3>1, <3>2, <3>4, <3>5, <3>6, <3>7 DEF Cut
  <2>4. QED
    BY <2>1, <2>2, <2>3
<1>9. CASE WriterActs
  BY <1>0, <1>2, <1>9 DEF WriterActs, Await, WriteJob, CommitJob, FailJob, queues, calling
<1>10. CASE \E w \in Workers : Worker(w)
  BY <1>0, <1>2, <1>10 DEF Worker, TakeJob, Decode, queues, calling
<1>11. CASE UNCHANGED vars
  BY <1>2, <1>11 DEF vars, threads, queues, calling
<1>12. QED
  BY <1>4, <1>5, <1>6, <1>7, <1>8, <1>9, <1>10, <1>11 DEF Next, CallerWaits, Calls, Gone

\* Nothing but a commit changes the totals, and a commit counts one job more.
LEMMA TotalsStep == IInv /\ Cut /\ Totals /\ [Next]_vars => Totals'
<1> SUFFICES ASSUME IInv, Cut, Totals, [Next]_vars, ~error' PROVE totals' = Reference'[JobsCounted']
  BY DEF Totals
<1>1. /\ Len(submitted) \in Nat /\ submitted \in Seq(Job) /\ Len(output) \in Nat
      /\ output \in Seq(1 .. Len(submitted))
      /\ Len(output) <= Len(submitted)
      /\ pc[Writer] = "commit" => Len(output) > 0
      /\ Writer \in Threads /\ Writer # Caller /\ Caller \in Threads
      /\ Workers \subseteq Threads \ {Writer}
      /\ pc \in [Threads -> Places]
  BY DecoderAssumption DEF DecoderAssumption, IInv, Typed, Checked, Holding, Placed, Threads
<1>2. JobsCounted \in 0 .. Len(submitted)
  BY <1>1 DEF JobsCounted
<1>3. /\ \A to : Go(Writer, to) => pc'[Writer] = to
      /\ \A t \in Threads \ {Writer} : \A to : Go(t, to) => pc'[Writer] = pc[Writer]
  BY <1>1 DEF Go
<1>4. ASSUME ~error, UNCHANGED totals, JobsCounted' = JobsCounted,
             \A i \in 1 .. Len(submitted) : submitted'[i] = submitted[i]
      PROVE  totals' = Reference'[JobsCounted']
  BY <1>1, <1>2, <1>4, ReferenceKept DEF Totals
<1>5. ASSUME ~error, UNCHANGED <<totals, output, submitted>>, pc'[Writer] = pc[Writer]
      PROVE  totals' = Reference'[JobsCounted']
  <2>1. JobsCounted' = JobsCounted
    BY <1>5 DEF JobsCounted
  <2>2. QED
    BY <1>4, <1>5, <2>1
<1>6. CASE Calls \/ AwaitWritten \/ Join
  BY <1>1, <1>3, <1>5, <1>6
     DEF Calls, Add, Reject, Finish, Destroy, AwaitWritten, Join, queues, calling
<1>7. CASE SubmitBatch
  <2>1. /\ UNCHANGED <<totals, output, error>> /\ pc'[Writer] = pc[Writer]
        /\ (UNCHANGED submitted \/ submitted' = Append(submitted, batch))
    BY <1>1, <1>3, <1>7 DEF SubmitBatch, queues
  <2>2. \A i \in 1 .. Len(submitted) : submitted'[i] = submitted[i]
    <3>1. batch \in Job
      BY <1>7 DEF SubmitBatch, At, IInv, Holding
    <3>2. CASE submitted' = Append(submitted, batch)
      BY <1>1, <3>1, <3>2
    <3>3. QED
      BY <2>1, <3>2
  <2>3. JobsCounted' = JobsCounted
    BY <2>1 DEF JobsCounted
  <2>4. QED
    BY <1>4, <2>1, <2>2, <2>3
<1>8. CASE \E w \in Workers : Worker(w)
  BY <1>1, <1>3, <1>5, <1>8 DEF Worker, TakeJob, Decode, queues, calling
<1>9. CASE Await \/ WriteJob
  <2>1. UNCHANGED <<totals, submitted, error>>
    BY <1>9 DEF Await, WriteJob, queues
  <2>2. JobsCounted' = JobsCounted
    <3>1. CASE Await
      BY <1>1, <1>3, <3>1 DEF Await, At, JobsCounted
    <3>2. CASE WriteJob
      <4>1. /\ pc[Writer] = "get" /\ pc'[Writer] = "commit"
            /\ output' = Append(output, doing[Writer])
        BY <1>3, <3>2 DEF WriteJob
      <4>2. Len(output') = Len(output) + 1
        BY <1>1, <4>1
      <4>3. QED
        BY <1>1, <4>1, <4>2 DEF JobsCounted
    <3>3. QED
      BY <1>9, <3>1, <3>2
  <2>3. QED
    BY <1>4, <2>1, <2>2
<1>10. CASE CommitJob
  <2> DEFINE c == JobsCounted
             n == JobsCounted + 1
             job == submitted[n]
             before == Reference[c]
  <2>1. /\ pc[Writer] = "commit" /\ pc'[Writer] = "wait"
        /\ ~error /\ UNCHANGED <<output, submitted, error>>
        /\ ordered # <<>> /\ doing[Writer] = Head(ordered)
    BY <1>3, <1>10 DEF CommitJob, IInv, Holding
  <2>2. /\ Len(output) = n /\ JobsCounted' = n /\ n \in 1 .. Len(submitted) /\ c \in Nat
    BY <1>1, <2>1 DEF JobsCounted
  <2>3. doing[Writer] = n
    <3>1. Len(ordered) \in Nat /\ Head(ordered) = ordered[1] /\ 1 \in 1 .. Len(ordered)
      BY <2>1 DEF IInv, Typed
    <3>2. QED
      BY <2>1, <3>1 DEF IInv, Queued
  <2>4. totals = before
    BY <2>1 DEF Totals
  <2>5. totals' = [pairs |-> totals.pairs + (job.last - job.first),
                   span  |-> job.last,
                   gaps  |-> totals.gaps + GapBefore(job),
                   crc   |-> Append(totals.crc, n),
                   ended |-> totals.ended \/ job.end]
    BY <1>10, <2>3 DEF CommitJob
  <2>6. Reference[n] = Plus(submitted, before, n)
    <3>1. n \in Nat /\ n # 0 /\ n - 1 = c
      BY <2>2
    <3>2. QED
      BY <3>1, ReferenceWhole DEF WholeRun, After
  <2>7. job \in Job /\ job.last - job.first = 1
    <3>1. job \in Job
      BY <1>1, <2>2
    <3>2. job.last = job.first + 1 /\ job.first \in Nat
      BY <2>2, <3>1 DEF Cut, Job
    <3>3. QED
      BY <3>1, <3>2
  <2>8. GapBefore(job) = IF job.first = totals.span THEN 0 ELSE 1
    <3>1. job.first >= totals.span
      <4>1. Order!Acceptable(n)
        BY <2>2 DEF IInv, Checked
      <4>2. job.first >= (IF n = 1 THEN 0 ELSE submitted[n - 1].last)
        BY <4>1 DEF Order!Acceptable
      <4>3. totals.span = (IF c = 0 THEN 0 ELSE submitted[c].last)
        BY DEF IInv, Checked
      <4>4. (n = 1 <=> c = 0) /\ n - 1 = c
        BY <2>2
      <4>5. QED
        BY <4>2, <4>3, <4>4
    <3>2. job.first \in Nat /\ totals.span \in Nat
      BY <2>7 DEF Job, IInv, Typed
    <3>3. QED
      BY <3>1, <3>2 DEF GapBefore
  <2>9. Append(totals.crc, n) = UpTo(n)
    <3>1. totals.crc \in Seq(Nat) /\ Len(totals.crc) = c /\ \A i \in 1 .. c : totals.crc[i] = i
      BY DEF IInv, Typed, Checked
    <3> DEFINE l == totals.crc
               a == Append(l, n)
    <3>2. n \in Nat /\ n = c + 1
      BY <2>2
    <3> HIDE DEF c, n, l
    <3>3. l \in Seq(Nat) /\ Len(l) = c /\ \A i \in 1 .. c : l[i] = i
      BY <3>1 DEF l
    <3>4. /\ a \in Seq(Nat) /\ Len(a) = n
          /\ \A i \in 1 .. c : a[i] = l[i]
          /\ a[n] = n
      BY <2>2, <3>2, <3>3
    <3>5. \A i \in 1 .. n : i \in 1 .. c \/ i = n
      BY <2>2, <3>2
    <3>6. \A i \in 1 .. n : a[i] = i
      BY <3>3, <3>4, <3>5
    <3> HIDE DEF a
    <3>7. a = [i \in 1 .. n |-> a[i]]
      BY <3>4
    <3>8. QED
      BY <3>6, <3>7 DEF UpTo, a, l
  <2>10. totals.ended = FALSE
    <3>1. CASE c = 0
      BY <2>4, <3>1, ReferenceWhole DEF WholeRun, After, NoTotals
    <3>2. CASE c # 0
      <4>1. c \in 1 .. Len(submitted) /\ c # Len(submitted) /\ c \in Nat
        BY <2>2, <3>2
      <4>2. ~submitted[c].end /\ submitted[c] \in Job
        BY <1>1, <4>1 DEF Cut
      <4>3. totals.ended = submitted[c].end
        BY <2>4, <3>2, <4>1, ReferenceWhole DEF WholeRun, After, Plus
      <4>4. QED
        BY <4>2, <4>3 DEF Job
    <3>3. QED
      BY <3>1, <3>2
  <2>11. (totals.ended \/ job.end) = job.end
    BY <2>7, <2>10 DEF Job
  <2>12. totals' = Reference[n]
    <3> HIDE DEF before, n, job
    <3>1. Plus(submitted, before, n) = [pairs |-> before.pairs + 1,
                                        span  |-> job.last,
                                        gaps  |-> before.gaps + (IF job.first = before.span THEN 0 ELSE 1),
                                        crc   |-> UpTo(n),
                                        ended |-> job.end]
      BY DEF Plus, job
    <3>2. QED
      BY <2>4, <2>5, <2>6, <2>7, <2>8, <2>9, <2>11, <3>1
  <2>13. Reference'[n] = Reference[n]
    <3>1. n \in 0 .. Len(submitted)
      BY <2>2
    <3>2. QED
      BY <1>1, <2>1, <3>1, ReferenceKept
  <2>14. QED
    BY <2>2, <2>12, <2>13
<1>11. CASE FailJob
  BY <1>11 DEF FailJob
<1>12. CASE UNCHANGED vars
  BY <1>5, <1>12 DEF vars, threads, queues
<1>13. QED
  BY <1>6, <1>7, <1>8, <1>9, <1>10, <1>11, <1>12 DEF Next, CallerWaits, WriterActs, Gone

\* decoder.cpp 98-107 and 224-233: what finish() returns is the whole stream
\* and its true totals, and at no time is a job counted that is not in the
\* output, or one counted twice.
THEOREM FinishedRight == Spec => []FinishedExact
<1>1. Spec => [](IInv /\ Cut /\ Totals)
  BY CutStart, CutStep, TotalsStep, Start, Invariance, PTL DEF Spec
<1>2. IInv /\ Totals => TotalsExact
  <2> SUFFICES ASSUME IInv, Totals, ~error PROVE totals = Reference[Len(submitted) - Len(ordered)]
    BY DEF TotalsExact
  <2>1. Len(ordered) = Len(submitted) - JobsCounted /\ Len(ordered) \in Nat /\ Len(submitted) \in Nat
    BY DEF IInv, Typed, Queued
  <2>2. JobsCounted \in Int
    BY DEF JobsCounted, IInv, Typed
  <2>3. QED
    BY <2>1, <2>2 DEF Totals
<1>3. QED
  BY <1>1, <1>2, FinishedMeansWhole, PTL DEF FinishedExact

-----------------------------------------------------------------------------
(* The spectrum engine.                                                    *)
Sample == Nat \X Nat
Samples(s, r, first) == \A i \in 1 .. Len(s) : s[i] = <<r, first + i - 1>>
WholeBatch(b) == b \in SpectrumBatches /\ Len(b.samples) > 0 /\ Samples(b.samples, b.run, b.first)
BatchEnd(b) == b.first + Len(b.samples)
Configured == engine.applied # 0
\* The end of the last batch the engine has taken.
Horizon == IF current = NoBatch THEN carry_first + Len(carry) ELSE End

SpectrumTypeOK ==
    /\ run \in Nat /\ next \in Nat /\ wanted \in SpectrumSettings /\ version \in Nat \ {0}
    /\ queue \in Seq(SpectrumBatches) /\ current \in SpectrumBatches \cup {NoBatch} /\ available \in Nat
    /\ engine \in Engines /\ carry \in Seq(Sample) /\ carry_first \in Nat
    /\ frame \in Nat /\ slot \in Nat /\ blocks \in Seq(Seq(Sample))
    /\ heard \in SUBSET Nat /\ made \in FramesMade \cup {NoBatch}

EngineOK ==
    /\ engine.applied <= version /\ engine.run <= run
    /\ engine.run = run => Configured /\ Horizon <= next
    /\ Configured => /\ engine.size > 0 /\ engine.size <= engine.frame_pairs /\ slot < engine.per_frame
                     /\ (engine.per_frame - 1) * engine.stride + engine.size <= engine.frame_pairs
    /\ ~Configured => engine.run = 0 /\ current = NoBatch /\ carry = <<>> /\ blocks = <<>> /\ made = NoBatch
                      /\ slot = 0

AheadOf(b) == b.run >= engine.run /\ (b.run = engine.run => b.first >= Horizon)
Before(b) == b.run <= run /\ (b.run = run => BatchEnd(b) <= next)
Successive(a, b) == a.run <= b.run /\ (a.run = b.run => BatchEnd(a) <= b.first)
Waiting(q) ==
    /\ \A i \in 1 .. Len(q) : WholeBatch(q[i]) /\ AheadOf(q[i]) /\ Before(q[i])
    /\ \A i \in 1 .. Len(q) : \A j \in i + 1 .. Len(q) : Successive(q[i], q[j])
QueueOK == Waiting(queue)

CurrentOK ==
    /\ Samples(carry, engine.run, carry_first)
    /\ current # NoBatch =>
           /\ WholeBatch(current) /\ current.run = engine.run
           /\ IF carry = <<>> THEN available = current.first
              ELSE available = carry_first /\ carry_first + Len(carry) = current.first

From(block) == block[1][2]
BlockOK(block) ==
    /\ Len(block) = engine.size /\ Samples(block, engine.run, From(block))
    /\ From(block) >= FrameStart /\ From(block) + engine.size <= FrameStart + engine.frame_pairs
    /\ From(block) + engine.size <= Horizon /\ From(block) + engine.stride <= Position
BlocksOK ==
    /\ \A b \in 1 .. Len(blocks) : BlockOK(blocks[b])
    /\ \A b \in 2 .. Len(blocks) : From(blocks[b - 1]) + engine.stride <= From(blocks[b])

MadeOK ==
    /\ BlocksWhole
    /\ made # NoBatch => /\ made.run <= engine.run
                         /\ made.run = engine.run => made.index < FrameStart /\ made.index < Horizon

\* What was heard ends at the horizon; a slot passed over was one of a period
\* of which a sample is missing for good; the engine passes over slots only
\* where nothing was heard.
Unheard(low, high) == \A x \in low .. high : x \notin heard
HeardOK ==
    /\ \A x \in heard : x < Horizon
    /\ slot # Len(blocks) => \E x \in Period(frame) : x \notin heard /\ x < Horizon
    /\ current # NoBatch /\ Position < available =>
           /\ available = current.first
           /\ \E h \in 0 .. available - 1 : h < FrameStart + engine.frame_pairs /\ Unheard(h, available - 1)
    /\ current = NoBatch /\ Configured => carry_first <= Position /\ Horizon < Position + engine.size

SpectrumInv ==
    SpectrumTypeOK /\ EngineOK /\ QueueOK /\ CurrentOK /\ BlocksOK /\ MadeOK /\ HeardOK

-----------------------------------------------------------------------------
(* Arithmetic and sequences.                                               *)
LEMMA Divided ==
    ASSUME NEW n \in Nat, NEW d \in Nat, d > 0
    PROVE  n \div d \in Nat /\ (n \div d) * d <= n /\ n < (n \div d) * d + d
OBVIOUS

LEMMA Multiples ==
    ASSUME NEW a \in Nat, NEW b \in Nat, NEW c \in Nat
    PROVE  /\ a * c \in Nat /\ (a + 1) * c = a * c + c
           /\ a <= b => a * c <= b * c
           /\ a < b => a * c + c <= b * c
<1>1. a * c \in Nat /\ b * c \in Nat /\ (a + 1) * c = a * c + c
  OBVIOUS
<1>2. ASSUME a <= b PROVE a * c <= b * c
  <2>1. PICK k \in Nat : b = a + k
    <3>1. b - a \in Nat /\ b = a + (b - a)
      BY <1>2
    <3>2. QED
      BY <3>1
  <2>2. b * c = a * c + k * c /\ k * c \in Nat
    BY <2>1
  <2>3. QED
    BY <1>1, <2>2
<1>3. ASSUME a < b PROVE a * c + c <= b * c
  <2>1. PICK k \in Nat : b = (a + 1) + k
    <3>1. b - (a + 1) \in Nat /\ b = (a + 1) + (b - (a + 1))
      BY <1>3
    <3>2. QED
      BY <3>1
  <2>2. b * c = (a * c + c) + k * c /\ k * c \in Nat
    BY <2>1
  <2>3. QED
    BY <1>1, <2>2
<1>4. QED
  BY <1>1, <1>2, <1>3

\* Rounding up.
LEMMA RoundedUp ==
    ASSUME NEW n \in Nat, NEW d \in Nat, d > 0
    PROVE  LET q == (n + d - 1) \div d IN q \in Nat /\ n <= q * d
<1> DEFINE q == (n + d - 1) \div d
<1>1. n + d - 1 \in Nat
  OBVIOUS
<1>2. q \in Nat /\ n + d - 1 < q * d + d
  BY <1>1, Divided
<1>3. q * d \in Nat
  BY <1>2, Multiples
<1>4. n <= q * d
  BY <1>2, <1>3
<1>5. QED
  BY <1>2, <1>4

LEMMA GreaterOf ==
    ASSUME NEW a \in Nat, NEW b \in Nat
    PROVE  Max({a, b}) \in {a, b} /\ Max({a, b}) >= a /\ Max({a, b}) >= b
<1>1. \E x \in {a, b} : \A y \in {a, b} : x >= y
  OBVIOUS
<1>2. QED
  BY <1>1 DEF Max

LEMMA LesserOf ==
    ASSUME NEW a \in Nat, NEW b \in Nat
    PROVE  Min({a, b}) \in {a, b} /\ Min({a, b}) <= a /\ Min({a, b}) <= b
<1>1. \E x \in {a, b} : \A y \in {a, b} : x <= y
  OBVIOUS
<1>2. QED
  BY <1>1 DEF Min

LEMMA SamplesJoined ==
    ASSUME NEW p \in Seq(Sample), NEW q \in Seq(Sample)
    PROVE  \E s \in Seq(Sample) :
             /\ s = p \o q /\ Len(s) = Len(p) + Len(q) /\ \A i \in 1 .. Len(p) : s[i] = p[i]
             /\ \A i \in 1 .. Len(q) : s[Len(p) + i] = q[i]
<1>1. /\ p \o q \in Seq(Sample) /\ Len(p \o q) = Len(p) + Len(q)
      /\ \A i \in 1 .. Len(p) : (p \o q)[i] = p[i]
      /\ \A i \in 1 .. Len(q) : (p \o q)[Len(p) + i] = q[i]
  OBVIOUS
<1>2. QED
  BY <1>1, Zenon

\* Consecutive samples, cut out of consecutive samples or put together.
LEMMA CutOut ==
    ASSUME NEW s \in Seq(Sample), NEW r \in Nat, NEW first \in Nat, Samples(s, r, first),
           NEW m \in 1 .. Len(s) + 1, NEW n \in m - 1 .. Len(s)
    PROVE  LET t == SubSeq(s, m, n)
           IN  t \in Seq(Sample) /\ Len(t) = n - m + 1 /\ Samples(t, r, first + m - 1)
<1> DEFINE t == SubSeq(s, m, n)
<1>1. m \in Nat /\ n \in Nat /\ Len(s) \in Nat /\ m <= n + 1 /\ n <= Len(s) /\ m >= 1
  OBVIOUS
<1>2. t \in Seq(Sample) /\ Len(t) = (IF m <= n THEN n - m + 1 ELSE 0) /\ \A i \in 1 .. n - m + 1 : t[i] = s[m + i - 1]
  BY <1>1, SubSeqProperties
<1>3. Len(t) = n - m + 1
  BY <1>1, <1>2
<1>4. ASSUME NEW i \in 1 .. Len(t) PROVE t[i] = <<r, (first + m - 1) + i - 1>>
  <2>1. m + i - 1 \in 1 .. Len(s) /\ i \in 1 .. n - m + 1 /\ i \in Nat
    BY <1>1, <1>3
  <2>2. t[i] = s[m + i - 1] /\ s[m + i - 1] = <<r, first + (m + i - 1) - 1>>
    BY <1>2, <2>1 DEF Samples
  <2>3. first + (m + i - 1) - 1 = (first + m - 1) + i - 1
    BY <1>1, <2>1
  <2>4. QED
    BY <2>2, <2>3
<1>5. QED
  BY <1>2, <1>3, <1>4 DEF Samples

LEMMA PutTogether ==
    ASSUME NEW p \in Seq(Sample), NEW q \in Seq(Sample), NEW r \in Nat, NEW first \in Nat,
           Samples(p, r, first), Samples(q, r, first + Len(p))
    PROVE  p \o q \in Seq(Sample) /\ Len(p \o q) = Len(p) + Len(q) /\ Samples(p \o q, r, first)
<1>1. PICK s \in Seq(Sample) :
             /\ s = p \o q /\ Len(s) = Len(p) + Len(q) /\ \A i \in 1 .. Len(p) : s[i] = p[i]
             /\ \A i \in 1 .. Len(q) : s[Len(p) + i] = q[i]
  BY SamplesJoined
<1>2. Len(p) \in Nat /\ Len(q) \in Nat
  OBVIOUS
<1>3. ASSUME NEW i \in 1 .. Len(s) PROVE s[i] = <<r, first + i - 1>>
  <2>1. CASE i \in 1 .. Len(p)
    BY <2>1, <1>1 DEF Samples
  <2>2. CASE i \notin 1 .. Len(p)
    <3>1. i - Len(p) \in 1 .. Len(q) /\ Len(p) + (i - Len(p)) = i /\ i \in Nat
      BY <1>1, <1>2, <2>2
    <3>2. s[i] = q[i - Len(p)] /\ q[i - Len(p)] = <<r, (first + Len(p)) + (i - Len(p)) - 1>>
      BY <3>1, <1>1 DEF Samples
    <3>3. (first + Len(p)) + (i - Len(p)) - 1 = first + i - 1
      BY <1>2, <3>1
    <3>4. QED
      BY <3>2, <3>3
  <2>3. QED
    BY <2>1, <2>2
<1>4. Len(s) = Len(p) + Len(q) /\ Samples(s, r, first)
  BY <1>1, <1>3 DEF Samples
<1>5. QED
  BY <1>1, <1>4, Zenon

-----------------------------------------------------------------------------
(* SpectrumPlaces in the sample time, and the engine's part.                       *)
LEMMA Settings ==
    ASSUME NEW s \in SpectrumSettings
    PROVE  s.size \in Nat /\ s.size > 0 /\ s.pairs \in Nat /\ s.averaging \in Nat
BY SpectrumAssumption

LEMMA SetUpIs ==
    ASSUME NEW s \in SpectrumSettings, NEW r \in Nat, version \in Nat
    PROVE  LET e == SetUp(s, r)
           IN  /\ e \in Engines /\ e.applied = version /\ e.run = r
               /\ e.size > 0 /\ e.size <= e.frame_pairs /\ e.per_frame > 0
               /\ (e.per_frame - 1) * e.stride + e.size <= e.frame_pairs
<1> DEFINE e == SetUp(s, r)
           pairs == Max({s.size, s.pairs})
           number == IF s.averaging # 0 THEN s.averaging ELSE Max({1, pairs \div s.size})
           step == IF number > 1 THEN (pairs - s.size) \div (number - 1) ELSE 0
<1>1. s.size \in Nat /\ s.size > 0 /\ s.pairs \in Nat /\ s.averaging \in Nat
  BY Settings
<1>2. pairs \in Nat /\ pairs >= s.size
  BY <1>1, GreaterOf
<1>3. pairs \div s.size \in Nat
  BY <1>1, <1>2, Divided
<1>4. Max({1, pairs \div s.size}) \in Nat /\ Max({1, pairs \div s.size}) >= 1
  BY <1>3, GreaterOf
<1>5. number \in Nat /\ number > 0
  BY <1>1, <1>4
<1> HIDE DEF pairs, number
<1>6. step \in Nat /\ (number - 1) * step + s.size <= pairs
  <2>1. CASE number > 1
    <3>1. number - 1 \in Nat /\ number - 1 > 0 /\ pairs - s.size \in Nat
      BY <1>1, <1>2, <1>5, <2>1
    <3>2. step = (pairs - s.size) \div (number - 1)
      BY <2>1
    <3>3. step \in Nat /\ step * (number - 1) <= pairs - s.size
      BY <3>1, <3>2, Divided
    <3>4. step * (number - 1) = (number - 1) * step /\ (number - 1) * step \in Nat
      BY <3>1, <3>3
    <3>5. QED
      BY <1>1, <1>2, <3>3, <3>4
  <2>2. CASE ~(number > 1)
    BY <1>1, <1>2, <1>5, <2>2
  <2>3. QED
    BY <2>1, <2>2
<1> HIDE DEF step
<1>7. e = [applied |-> version, run |-> r, size |-> s.size, frame_pairs |-> pairs, per_frame |-> number, stride |-> step]
  BY DEF SetUp, pairs, number, step
<1>8. QED
  BY <1>1, <1>2, <1>5, <1>6, <1>7 DEF Engines

LEMMA EngineIs ==
    ASSUME engine \in Engines
    PROVE  /\ engine.applied \in Nat /\ engine.run \in Nat /\ engine.size \in Nat /\ engine.frame_pairs \in Nat
           /\ engine.per_frame \in Nat /\ engine.stride \in Nat
BY DEF Engines

LEMMA BatchIs ==
    ASSUME NEW b \in SpectrumBatches
    PROVE  /\ b.run \in Nat /\ b.first \in Nat /\ b.samples \in Seq(Sample) /\ Len(b.samples) \in Nat
           /\ BatchEnd(b) \in Nat /\ b # NoBatch
<1>1. b.run \in Nat /\ b.first \in Nat /\ b.samples \in Seq(Sample)
  BY DEF SpectrumBatches, Sample
<1>2. Len(b.samples) \in Nat
  BY <1>1
<1>3. QED
  BY <1>1, <1>2, SpectrumAssumption DEF BatchEnd

\* The periods and the blocks in them.
LEMMA SpectrumPlaces ==
    ASSUME SpectrumInv
    PROVE  /\ FrameStart \in Nat /\ Position \in Nat /\ FrameStart <= Position
           /\ Configured => Position + engine.size <= FrameStart + engine.frame_pairs
           /\ Horizon \in Nat /\ (current # NoBatch => End \in Nat /\ End = BatchEnd(current) /\ Horizon = End)
           /\ (current = NoBatch => Horizon = carry_first + Len(carry)) /\ Len(carry) \in Nat
<1>1. frame \in Nat /\ slot \in Nat /\ engine \in Engines /\ carry \in Seq(Sample) /\ carry_first \in Nat
  BY DEF SpectrumInv, SpectrumTypeOK
<1>2. /\ engine.size \in Nat /\ engine.frame_pairs \in Nat /\ engine.per_frame \in Nat /\ engine.stride \in Nat
  BY <1>1, EngineIs
<1>3. FrameStart \in Nat
  BY <1>1, <1>2, Multiples DEF FrameStart
<1>4. slot * engine.stride \in Nat
  BY <1>1, <1>2, Multiples
<1>5. Position = FrameStart + slot * engine.stride
  BY DEF Position
<1>6. ASSUME Configured PROVE Position + engine.size <= FrameStart + engine.frame_pairs
  <2>1. /\ slot < engine.per_frame
        /\ (engine.per_frame - 1) * engine.stride + engine.size <= engine.frame_pairs
    BY <1>6 DEF SpectrumInv, EngineOK
  <2>2. engine.per_frame - 1 \in Nat /\ slot <= engine.per_frame - 1
    BY <1>1, <1>2, <2>1
  <2>3. slot * engine.stride <= (engine.per_frame - 1) * engine.stride /\ (engine.per_frame - 1) * engine.stride \in Nat
    BY <1>1, <1>2, <2>2, Multiples
  <2>4. QED
    BY <1>2, <1>3, <1>4, <1>5, <2>1, <2>3
<1>7. Len(carry) \in Nat
  BY <1>1
<1>8. ASSUME current # NoBatch PROVE End \in Nat /\ End = BatchEnd(current) /\ Horizon = End
  <2>1. current \in SpectrumBatches
    BY <1>8 DEF SpectrumInv, SpectrumTypeOK
  <2>2. QED
    BY <1>8, <2>1, BatchIs DEF End, BatchEnd, Horizon
<1>9. current = NoBatch => Horizon = carry_first + Len(carry)
  BY DEF Horizon
<1>10. Horizon \in Nat
  BY <1>1, <1>7, <1>8, <1>9
<1>11. QED
  BY <1>3, <1>4, <1>5, <1>6, <1>7, <1>8, <1>9, <1>10

-----------------------------------------------------------------------------
(* The decoder's side and the settings.                                    *)
LEMMA EngineKept ==
    ASSUME SpectrumInv, EngineStays
    PROVE  /\ CurrentOK' /\ BlocksOK' /\ MadeOK' /\ HeardOK' /\ Horizon' = Horizon /\ engine' = engine
           /\ Configured' = Configured
           /\ /\ current' \in SpectrumBatches \cup {NoBatch} /\ available' \in Nat
              /\ engine' \in Engines /\ carry' \in Seq(Sample) /\ carry_first' \in Nat
              /\ frame' \in Nat /\ slot' \in Nat /\ blocks' \in Seq(Seq(Sample))
              /\ heard' \in SUBSET Nat /\ made' \in FramesMade \cup {NoBatch}
<1>1. /\ current' = current /\ available' = available /\ engine' = engine /\ carry' = carry
      /\ carry_first' = carry_first /\ heard' = heard /\ frame' = frame /\ slot' = slot /\ blocks' = blocks
      /\ made' = made
  BY DEF EngineStays, accumulator
<1>2. /\ FrameStart' = FrameStart /\ Position' = Position /\ Horizon' = Horizon
      /\ \A f : Period(f)' = Period(f)
  BY <1>1 DEF FrameStart, Position, Horizon, End, Period
<1>3. CurrentOK'
  BY <1>1 DEF SpectrumInv, CurrentOK
<1>4. BlocksOK'
  BY <1>1, <1>2 DEF SpectrumInv, BlocksOK, BlockOK
<1>5. MadeOK'
  BY <1>1, <1>2 DEF SpectrumInv, MadeOK, BlocksWhole
<1>6. HeardOK'
  BY <1>1, <1>2 DEF SpectrumInv, HeardOK, Configured, Unheard
<1>7. Configured' = Configured
  BY <1>1 DEF Configured
<1>8. QED
  BY <1>1, <1>2, <1>3, <1>4, <1>5, <1>6, <1>7 DEF SpectrumInv, SpectrumTypeOK

LEMMA LaterQueue ==
    ASSUME NEW q \in Seq(SpectrumBatches), q # <<>>, Waiting(q)
    PROVE  Tail(q) \in Seq(SpectrumBatches) /\ Waiting(Tail(q)) /\ Len(Tail(q)) = Len(q) - 1
           /\ \A i \in 1 .. Len(Tail(q)) : Tail(q)[i] = q[i + 1]
<1>1. PICK t \in Seq(SpectrumBatches) : t = Tail(q) /\ Len(t) = Len(q) - 1 /\ \A i \in 1 .. Len(t) : t[i] = q[i + 1]
  <2>1. Tail(q) \in Seq(SpectrumBatches) /\ Len(Tail(q)) = Len(q) - 1 /\ \A i \in 1 .. Len(Tail(q)) : Tail(q)[i] = q[i + 1]
    OBVIOUS
  <2>2. QED
    BY <2>1, Zenon
<1>2. Len(q) \in Nat /\ Len(t) \in Nat
  OBVIOUS
<1>3. ASSUME NEW i \in 1 .. Len(t) PROVE WholeBatch(t[i]) /\ AheadOf(t[i]) /\ Before(t[i])
  <2>1. i + 1 \in 1 .. Len(q) /\ t[i] = q[i + 1]
    BY <1>1, <1>2
  <2>2. QED
    BY <2>1 DEF Waiting
<1>4. ASSUME NEW i \in 1 .. Len(t), NEW j \in i + 1 .. Len(t) PROVE Successive(t[i], t[j])
  <2>1. i + 1 \in 1 .. Len(q) /\ j + 1 \in (i + 1) + 1 .. Len(q) /\ j \in 1 .. Len(t)
    BY <1>1, <1>2
  <2>2. t[i] = q[i + 1] /\ t[j] = q[j + 1]
    BY <1>1, <2>1
  <2>3. QED
    BY <2>1, <2>2 DEF Waiting
<1>5. Waiting(t)
  BY <1>3, <1>4 DEF Waiting
<1>6. QED
  BY <1>1, <1>5

LEMMA SpectrumStarts == SpectrumInit => SpectrumInv
<1> SUFFICES ASSUME SpectrumInit PROVE SpectrumInv
  OBVIOUS
<1>1. /\ run = 1 /\ next = 0 /\ wanted \in SpectrumSettings /\ version = 1 /\ queue = <<>> /\ current = NoBatch
      /\ available = 0 /\ carry = <<>> /\ carry_first = 0 /\ frame = 0 /\ slot = 0 /\ blocks = <<>> /\ heard = {}
      /\ made = NoBatch
      /\ engine = [applied |-> 0, run |-> 0, size |-> 0, frame_pairs |-> 0, per_frame |-> 0, stride |-> 0]
  BY DEF SpectrumInit
<1>2. SpectrumTypeOK
  BY <1>1 DEF SpectrumTypeOK, Engines
<1>3. Len(carry) = 0 /\ Len(queue) = 0 /\ Len(blocks) = 0 /\ ~Configured
  BY <1>1 DEF Configured
<1>4. EngineOK
  BY <1>1, <1>3 DEF EngineOK
<1>5. QueueOK /\ CurrentOK /\ BlocksOK /\ MadeOK
  BY <1>1, <1>3 DEF QueueOK, Waiting, CurrentOK, Samples, BlocksOK, MadeOK, BlocksWhole
<1>6. HeardOK
  BY <1>1, <1>3 DEF HeardOK
<1>7. QED
  BY <1>2, <1>4, <1>5, <1>6 DEF SpectrumInv

LEMMA NewRunKeeps == ASSUME SpectrumInv, NewRun PROVE SpectrumInv'
<1>1. EngineStays /\ run' = run + 1 /\ next' = 0 /\ wanted' = wanted /\ version' = version /\ queue' = queue
  BY DEF NewRun
<1>2. CurrentOK' /\ BlocksOK' /\ MadeOK' /\ HeardOK' /\ Horizon' = Horizon /\ engine' = engine /\ Configured' = Configured
  BY <1>1, EngineKept
<1>3. SpectrumTypeOK'
  BY <1>1, EngineKept DEF SpectrumInv, SpectrumTypeOK
<1>4. run \in Nat /\ engine.run \in Nat /\ engine.run <= run /\ queue \in Seq(SpectrumBatches)
  BY EngineIs DEF SpectrumInv, SpectrumTypeOK, EngineOK
<1>5. EngineOK'
  BY <1>1, <1>2, <1>4 DEF SpectrumInv, EngineOK, EngineStays, accumulator
<1>6. ASSUME NEW i \in 1 .. Len(queue) PROVE AheadOf(queue[i])' /\ Before(queue[i])'
  <2>1. queue[i] \in SpectrumBatches
    BY <1>4
  <2>2. queue[i].run \in Nat /\ AheadOf(queue[i]) /\ Before(queue[i])
    BY <2>1, BatchIs DEF SpectrumInv, QueueOK, Waiting
  <2>3. QED
    BY <1>1, <1>2, <1>4, <2>2 DEF AheadOf, Before
<1>7. QueueOK'
  BY <1>1, <1>6 DEF SpectrumInv, QueueOK, Waiting
<1>8. QED
  BY <1>2, <1>3, <1>5, <1>7 DEF SpectrumInv

LEMMA ConfigureKeeps == ASSUME SpectrumInv, NEW s \in SpectrumSettings, ConfigureSpectrum(s) PROVE SpectrumInv'
<1>1. EngineStays /\ run' = run /\ next' = next /\ wanted' = s /\ version' = version + 1 /\ queue' = queue
  BY DEF ConfigureSpectrum, producer
<1>2. CurrentOK' /\ BlocksOK' /\ MadeOK' /\ HeardOK' /\ Horizon' = Horizon /\ engine' = engine /\ Configured' = Configured
  BY <1>1, EngineKept
<1>3. SpectrumTypeOK'
  BY <1>1, EngineKept DEF SpectrumInv, SpectrumTypeOK
<1>4. version \in Nat /\ engine.applied \in Nat
  BY EngineIs DEF SpectrumInv, SpectrumTypeOK
<1>5. EngineOK'
  BY <1>1, <1>2, <1>4 DEF SpectrumInv, EngineOK, EngineStays, accumulator
<1>6. QueueOK'
  BY <1>1, <1>2 DEF SpectrumInv, QueueOK, Waiting, AheadOf, Before
<1>7. QED
  BY <1>2, <1>3, <1>5, <1>6 DEF SpectrumInv

LEMMA TimePasses ==
    ASSUME SpectrumInv, EngineStays, run' = run, wanted' = wanted, version' = version, NEW n \in Nat, next' = next + n
    PROVE  EngineOK' /\ CurrentOK' /\ BlocksOK' /\ MadeOK' /\ HeardOK' /\ engine' = engine /\ Horizon' = Horizon
           /\ \A b \in SpectrumBatches : AheadOf(b) /\ Before(b) => AheadOf(b)' /\ Before(b)'
<1>1. CurrentOK' /\ BlocksOK' /\ MadeOK' /\ HeardOK' /\ Horizon' = Horizon /\ engine' = engine /\ Configured' = Configured
  BY EngineKept
<1>2. next \in Nat /\ Horizon \in Nat
  BY SpectrumPlaces DEF SpectrumInv, SpectrumTypeOK
<1>3. EngineOK'
  BY <1>1, <1>2 DEF SpectrumInv, EngineOK, EngineStays, accumulator
<1>4. ASSUME NEW b \in SpectrumBatches, AheadOf(b), Before(b) PROVE AheadOf(b)' /\ Before(b)'
  <2>1. BatchEnd(b) \in Nat
    BY BatchIs
  <2>2. QED
    BY <1>1, <1>2, <1>4, <2>1 DEF AheadOf, Before
<1>5. QED
  BY <1>1, <1>3, <1>4

LEMMA LoseKeeps == ASSUME SpectrumInv, NEW count \in BatchSizes, Lose(count) PROVE SpectrumInv'
<1>1. EngineStays /\ run' = run /\ next' = next + count /\ wanted' = wanted /\ version' = version /\ queue' = queue
  BY DEF Lose
<1>2. count \in Nat
  BY SpectrumAssumption
<1>3. /\ EngineOK' /\ CurrentOK' /\ BlocksOK' /\ MadeOK' /\ HeardOK'
      /\ \A b \in SpectrumBatches : AheadOf(b) /\ Before(b) => AheadOf(b)' /\ Before(b)'
  BY <1>1, <1>2, TimePasses
<1>4. SpectrumTypeOK'
  BY <1>1, <1>2, EngineKept DEF SpectrumInv, SpectrumTypeOK
<1>5. QueueOK'
  <2>1. PICK q \in Seq(SpectrumBatches) : q = queue
    BY DEF SpectrumInv, SpectrumTypeOK
  <2>2. Waiting(q)
    BY <2>1 DEF SpectrumInv, QueueOK
  <2>3. ASSUME NEW i \in 1 .. Len(q) PROVE WholeBatch(q[i]) /\ AheadOf(q[i])' /\ Before(q[i])'
    <3>1. q[i] \in SpectrumBatches /\ WholeBatch(q[i]) /\ AheadOf(q[i]) /\ Before(q[i])
      BY <2>2 DEF Waiting
    <3>2. QED
      BY <1>3, <3>1
  <2>4. queue' = q
    BY <1>1, <2>1
  <2>5. QED
    BY <2>2, <2>3, <2>4 DEF QueueOK, Waiting
<1>6. QED
  BY <1>3, <1>4, <1>5 DEF SpectrumInv

LEMMA NewBatch ==
    ASSUME NEW count \in Nat \ {0}, run \in Nat, next \in Nat,
           NEW b, b = [run |-> run, first |-> next, samples |-> [i \in 1 .. count |-> <<run, next + i - 1>>]]
    PROVE  WholeBatch(b) /\ BatchEnd(b) = next + count /\ b.run = run /\ b.first = next
<1> DEFINE s == [i \in 1 .. count |-> <<run, next + i - 1>>]
<1>1. \A i \in 1 .. count : <<run, next + i - 1>> \in Nat \X Nat
  OBVIOUS
<1>2. s \in [1 .. count -> Nat \X Nat]
  BY <1>1
<1>3. s \in Seq(Nat \X Nat) /\ Len(s) = count
  BY <1>2
<1>4. \A i \in 1 .. Len(s) : s[i] = <<run, next + i - 1>>
  BY <1>3
<1> HIDE DEF s
<1>5. b.run = run /\ b.first = next /\ b.samples = s
  BY DEF s
<1>6. b \in SpectrumBatches
  BY <1>3 DEF SpectrumBatches, s
<1>7. Samples(b.samples, b.run, b.first)
  BY <1>4, <1>5 DEF Samples
<1>8. QED
  BY <1>3, <1>5, <1>6, <1>7 DEF WholeBatch, BatchEnd

LEMMA AddKeeps == ASSUME SpectrumInv, NEW count \in BatchSizes, AddBatch(count) PROVE SpectrumInv'
<1>0. PICK b : b = [run |-> run, first |-> next, samples |-> [i \in 1 .. count |-> <<run, next + i - 1>>]]
  OBVIOUS
<1>1. /\ EngineStays /\ run' = run /\ next' = next + count /\ wanted' = wanted /\ version' = version
      /\ queue' = Append(WithRoom(queue), b)
  BY <1>0 DEF AddBatch
<1>2. count \in Nat \ {0} /\ run \in Nat /\ next \in Nat /\ queue \in Seq(SpectrumBatches) /\ Waiting(queue) /\ engine \in Engines
  BY SpectrumAssumption DEF SpectrumInv, SpectrumTypeOK, QueueOK
<1>3. WholeBatch(b) /\ BatchEnd(b) = next + count /\ b.run = run /\ b.first = next
  BY <1>0, <1>2, NewBatch
<1>4. PICK q \in Seq(SpectrumBatches) : q = WithRoom(queue) /\ Waiting(q)
  <2>1. CASE queue = <<>>
    <3>1. ~(Len(queue) >= QueuedBatches)
      BY <2>1, SpectrumAssumption
    <3>2. WithRoom(queue) = queue
      BY <3>1 DEF WithRoom
    <3>3. QED
      BY <1>2, <3>2
  <2>2. CASE queue # <<>>
    BY <1>2, <2>2, LaterQueue DEF WithRoom
  <2>3. QED
    BY <2>1, <2>2
<1>5. /\ EngineOK' /\ CurrentOK' /\ BlocksOK' /\ MadeOK' /\ HeardOK' /\ engine' = engine /\ Horizon' = Horizon
      /\ \A c \in SpectrumBatches : AheadOf(c) /\ Before(c) => AheadOf(c)' /\ Before(c)'
  BY <1>1, <1>2, TimePasses
<1>6. PICK w \in Seq(SpectrumBatches) : w = Append(q, b) /\ Len(w) = Len(q) + 1 /\ w[Len(q) + 1] = b
                                /\ \A i \in 1 .. Len(q) : w[i] = q[i]
  <2>1. b \in SpectrumBatches
    BY <1>3 DEF WholeBatch
  <2>2. /\ Append(q, b) \in Seq(SpectrumBatches) /\ Len(Append(q, b)) = Len(q) + 1 /\ Append(q, b)[Len(q) + 1] = b
        /\ \A i \in 1 .. Len(q) : Append(q, b)[i] = q[i]
    BY <2>1
  <2>3. QED
    BY <2>2, Zenon
<1>7. Len(q) \in Nat /\ Horizon \in Nat /\ engine.run \in Nat
  BY <1>2, <1>4, SpectrumPlaces, EngineIs
<1>8. ASSUME NEW i \in 1 .. Len(q)
      PROVE  WholeBatch(q[i]) /\ AheadOf(q[i])' /\ Before(q[i])' /\ Successive(q[i], b)
  <2>1. q[i] \in SpectrumBatches /\ WholeBatch(q[i]) /\ AheadOf(q[i]) /\ Before(q[i])
    BY <1>4 DEF Waiting
  <2>2. BatchEnd(q[i]) \in Nat /\ q[i].run \in Nat
    BY <2>1, BatchIs
  <2>3. QED
    BY <1>2, <1>3, <1>5, <2>1, <2>2 DEF Before, Successive
<1>9. AheadOf(b)' /\ Before(b)'
  <2>1. engine.run <= run /\ (engine.run = run => Horizon <= next)
    BY DEF SpectrumInv, EngineOK
  <2>2. QED
    BY <1>1, <1>2, <1>3, <1>5, <1>7, <2>1 DEF AheadOf, Before
<1>10. ASSUME NEW i \in 1 .. Len(w) PROVE WholeBatch(w[i]) /\ AheadOf(w[i])' /\ Before(w[i])'
  <2>1. CASE i \in 1 .. Len(q)
    BY <1>6, <1>8, <2>1
  <2>2. CASE i \notin 1 .. Len(q)
    <3>1. i = Len(q) + 1
      BY <1>6, <1>7, <2>2
    <3>2. QED
      BY <1>3, <1>6, <1>9, <3>1
  <2>3. QED
    BY <2>1, <2>2
<1>11. ASSUME NEW i \in 1 .. Len(w), NEW j \in i + 1 .. Len(w) PROVE Successive(w[i], w[j])
  <2>1. i \in 1 .. Len(q) /\ w[i] = q[i]
    BY <1>6, <1>7
  <2>2. CASE j \in 1 .. Len(q)
    <3>1. j \in i + 1 .. Len(q) /\ w[j] = q[j]
      BY <1>6, <1>7, <2>2
    <3>2. QED
      BY <1>4, <2>1, <3>1 DEF Waiting
  <2>3. CASE j \notin 1 .. Len(q)
    <3>1. j = Len(q) + 1
      BY <1>6, <1>7, <2>3
    <3>2. QED
      BY <1>6, <1>8, <2>1, <3>1
  <2>4. QED
    BY <2>2, <2>3
<1>12. queue' = w
  BY <1>1, <1>4, <1>6
<1>13. QueueOK'
  BY <1>10, <1>11, <1>12 DEF QueueOK, Waiting
<1>14. SpectrumTypeOK'
  BY <1>1, <1>2, <1>12, EngineKept DEF SpectrumInv, SpectrumTypeOK
<1>15. QED
  BY <1>5, <1>13, <1>14 DEF SpectrumInv

-----------------------------------------------------------------------------
(* The engine takes a batch.                                               *)
LEMMA BatchTaken ==
    ASSUME SpectrumInv, Take
    PROVE  \E b \in SpectrumBatches, t \in Seq(SpectrumBatches) :
              /\ current' = b /\ queue' = t /\ b = Head(queue) /\ current = NoBatch
              /\ WholeBatch(b) /\ AheadOf(b) /\ Before(b)
              /\ \A i \in 1 .. Len(t) : WholeBatch(t[i]) /\ AheadOf(t[i]) /\ Before(t[i]) /\ Successive(b, t[i])
              /\ Waiting(t)
<1>1. queue \in Seq(SpectrumBatches) /\ queue # <<>> /\ current = NoBatch /\ current' = Head(queue) /\ queue' = Tail(queue)
      /\ Waiting(queue)
  BY DEF SpectrumInv, SpectrumTypeOK, QueueOK, Take
<1>2. PICK t \in Seq(SpectrumBatches) : t = Tail(queue) /\ Waiting(t) /\ Len(t) = Len(queue) - 1
                                /\ \A i \in 1 .. Len(t) : t[i] = queue[i + 1]
  <2>1. /\ Tail(queue) \in Seq(SpectrumBatches) /\ Waiting(Tail(queue)) /\ Len(Tail(queue)) = Len(queue) - 1
        /\ \A i \in 1 .. Len(Tail(queue)) : Tail(queue)[i] = queue[i + 1]
    BY <1>1, LaterQueue
  <2>2. QED
    BY <2>1, Zenon
<1>3. 1 \in 1 .. Len(queue) /\ Len(queue) \in Nat /\ Head(queue) = queue[1] /\ Len(t) \in Nat
  BY <1>1
<1>4. PICK b \in SpectrumBatches : b = Head(queue)
  BY <1>1, <1>3
<1>5. WholeBatch(b) /\ AheadOf(b) /\ Before(b)
  BY <1>1, <1>3, <1>4 DEF Waiting
<1>6. ASSUME NEW i \in 1 .. Len(t)
      PROVE  WholeBatch(t[i]) /\ AheadOf(t[i]) /\ Before(t[i]) /\ Successive(b, t[i])
  <2>1. i + 1 \in 1 + 1 .. Len(queue) /\ t[i] = queue[i + 1]
    BY <1>2, <1>3
  <2>2. Successive(queue[1], queue[i + 1])
    BY <1>1, <1>3, <2>1 DEF Waiting
  <2>3. QED
    BY <1>2, <1>3, <1>4, <2>1, <2>2 DEF Waiting
<1>7. QED
  BY <1>1, <1>2, <1>4, <1>5, <1>6

\* What was taken is behind all that was heard before, and its own samples follow.
LEMMA HeardOf ==
    ASSUME NEW b \in SpectrumBatches, WholeBatch(b)
    PROVE  {sample[2] : sample \in Range(b.samples)} = b.first .. BatchEnd(b) - 1
<1>1. /\ b.first \in Nat /\ b.samples \in Seq(Sample) /\ Len(b.samples) \in Nat /\ BatchEnd(b) = b.first + Len(b.samples)
  BY BatchIs DEF BatchEnd
<1>2. Range(b.samples) = {b.samples[i] : i \in 1 .. Len(b.samples)}
  BY <1>1 DEF Range
<1>3. \A i \in 1 .. Len(b.samples) : b.samples[i][2] = b.first + i - 1
  BY DEF WholeBatch, Samples
<1>4. ASSUME NEW x \in b.first .. BatchEnd(b) - 1 PROVE x \in {sample[2] : sample \in Range(b.samples)}
  <2>1. x - b.first + 1 \in 1 .. Len(b.samples) /\ b.first + (x - b.first + 1) - 1 = x
    BY <1>1
  <2>2. b.samples[x - b.first + 1][2] = x
    BY <1>3, <2>1
  <2>3. QED
    BY <1>2, <2>1, <2>2
<1>5. ASSUME NEW x \in {sample[2] : sample \in Range(b.samples)} PROVE x \in b.first .. BatchEnd(b) - 1
  <2>1. PICK i \in 1 .. Len(b.samples) : x = b.samples[i][2]
    BY <1>2
  <2>2. x = b.first + i - 1
    BY <1>3, <2>1
  <2>3. QED
    BY <1>1, <2>2
<1>6. QED
  BY <1>4, <1>5

\* All starts anew.
LEMMA AnewKeeps == ASSUME SpectrumInv, Take, StartsAnew PROVE SpectrumInv' /\ engine' # engine
<1> DEFINE e == SetUp(wanted, Head(queue).run)
<1>1. PICK b \in SpectrumBatches, t \in Seq(SpectrumBatches) :
              /\ current' = b /\ queue' = t /\ b = Head(queue) /\ current = NoBatch
              /\ WholeBatch(b) /\ AheadOf(b) /\ Before(b)
              /\ \A i \in 1 .. Len(t) : WholeBatch(t[i]) /\ AheadOf(t[i]) /\ Before(t[i]) /\ Successive(b, t[i])
              /\ Waiting(t)
  BY BatchTaken
<1>2. /\ wanted \in SpectrumSettings /\ version \in Nat /\ version # 0 /\ run \in Nat /\ next \in Nat
      /\ engine \in Engines /\ engine.run \in Nat /\ engine.applied \in Nat
      /\ b.run \in Nat /\ b.first \in Nat /\ BatchEnd(b) \in Nat /\ b # NoBatch /\ b.samples \in Seq(Sample)
      /\ Len(b.samples) \in Nat /\ BatchEnd(b) = b.first + Len(b.samples) /\ Len(b.samples) > 0
  BY <1>1, BatchIs, EngineIs DEF SpectrumInv, SpectrumTypeOK, WholeBatch, BatchEnd
<1>3. PICK f \in Engines : f = e
  BY <1>1, <1>2, SetUpIs
<1>4. /\ f.applied = version /\ f.run = b.run /\ f.size > 0 /\ f.size <= f.frame_pairs /\ f.per_frame > 0
      /\ (f.per_frame - 1) * f.stride + f.size <= f.frame_pairs
      /\ f.frame_pairs \in Nat /\ f.size \in Nat /\ f.per_frame \in Nat /\ f.stride \in Nat
  BY <1>1, <1>2, <1>3, SetUpIs DEF Engines
<1>5. /\ engine' = f /\ frame' = FirstWhole(b.first, f.frame_pairs) /\ slot' = 0 /\ blocks' = <<>>
      /\ carry' = <<>> /\ available' = b.first /\ heard' = {sample[2] : sample \in Range(b.samples)}
      /\ run' = run /\ next' = next /\ wanted' = wanted /\ version' = version /\ carry_first' = carry_first
      /\ made' = made
  BY <1>1, <1>3 DEF Take, producer
<1> HIDE DEF e
<1>6. PICK n \in Nat : n = FirstWhole(b.first, f.frame_pairs) /\ b.first <= n * f.frame_pairs /\ n * f.frame_pairs \in Nat
  <2>1. LET q == (b.first + f.frame_pairs - 1) \div f.frame_pairs IN q \in Nat /\ b.first <= q * f.frame_pairs
    <3>1. f.frame_pairs > 0
      BY <1>4
    <3>2. QED
      BY <1>2, <1>4, <3>1, RoundedUp
  <2>2. QED
    BY <1>4, <2>1, Multiples DEF FirstWhole
<1>7. /\ FrameStart' = n * f.frame_pairs /\ Position' = n * f.frame_pairs /\ End' = BatchEnd(b) /\ Horizon' = BatchEnd(b)
  <2>1. 0 * f.stride = 0
    BY <1>4
  <2>2. QED
    BY <1>1, <1>2, <1>4, <1>5, <1>6, <2>1 DEF FrameStart, Position, End, BatchEnd, Horizon
<1>8. heard' = b.first .. BatchEnd(b) - 1
  BY <1>1, <1>5, HeardOf
<1>9. engine' # engine
  <2>1. version # engine.applied \/ b.run # engine.run
    BY <1>1 DEF StartsAnew
  <2>2. QED
    BY <1>4, <1>5, <2>1
<1>10. Len(<<>>) = 0 /\ \A i \in 1 .. Len(<<>>) : FALSE
  OBVIOUS
<1>11. SpectrumTypeOK'
  <2>1. heard' \in SUBSET Nat
    BY <1>2, <1>8
  <2>2. carry_first \in Nat /\ made \in FramesMade \cup {NoBatch}
    BY DEF SpectrumInv, SpectrumTypeOK
  <2>3. QED
    BY <1>1, <1>2, <1>5, <1>6, <2>1, <2>2 DEF SpectrumTypeOK
<1>12. EngineOK'
  <2>1. b.run <= run /\ (b.run = run => BatchEnd(b) <= next)
    BY <1>1 DEF Before
  <2>2. Configured'
    BY <1>2, <1>4, <1>5 DEF Configured
  <2>3. QED
    BY <1>2, <1>4, <1>5, <1>7, <2>1, <2>2 DEF EngineOK
<1>13. QueueOK'
  <2>1. ASSUME NEW i \in 1 .. Len(t) PROVE AheadOf(t[i])' /\ Before(t[i])'
    <3>1. Successive(b, t[i]) /\ Before(t[i]) /\ t[i] \in SpectrumBatches
      BY <1>1
    <3>2. t[i].run \in Nat /\ t[i].first \in Nat
      BY <3>1, BatchIs
    <3>3. QED
      BY <1>2, <1>4, <1>5, <1>7, <3>1, <3>2 DEF AheadOf, Before, Successive
  <2>2. QED
    BY <1>1, <2>1 DEF QueueOK, Waiting
<1>14. CurrentOK'
  BY <1>1, <1>2, <1>4, <1>5, <1>10 DEF CurrentOK, Samples
<1>15. BlocksOK'
  BY <1>5, <1>10 DEF BlocksOK
<1>16. MadeOK'
  <2>1. BlocksWhole'
    BY <1>5 DEF SpectrumInv, MadeOK, BlocksWhole
  <2>2. ASSUME made # NoBatch PROVE made.run <= b.run /\ (made.run = b.run => made.index < n * f.frame_pairs /\ made.index < BatchEnd(b))
    <3>1. /\ made \in FramesMade /\ made.run <= engine.run /\ (made.run = engine.run => made.index < Horizon)
      BY <2>2 DEF SpectrumInv, SpectrumTypeOK, MadeOK
    <3>2. made.run \in Nat /\ made.index \in Nat
      BY <3>1 DEF FramesMade
    <3>3. b.run >= engine.run /\ (b.run = engine.run => b.first >= Horizon) /\ Horizon \in Nat
      BY <1>1, SpectrumPlaces DEF AheadOf
    <3>4. QED
      BY <1>2, <1>6, <3>1, <3>2, <3>3
  <2>3. QED
    BY <1>4, <1>5, <1>7, <2>1, <2>2 DEF MadeOK
<1>17. HeardOK'
  <2>1. \A x \in heard' : x < Horizon'
    BY <1>2, <1>7, <1>8
  <2>2. slot' = Len(blocks')
    BY <1>5, <1>10
  <2>3. ~(Position' < available')
    BY <1>2, <1>5, <1>6, <1>7
  <2>4. current' # NoBatch
    BY <1>1, <1>2
  <2>5. QED
    BY <2>1, <2>2, <2>3, <2>4 DEF HeardOK
<1>18. QED
  BY <1>9, <1>11, <1>12, <1>13, <1>14, <1>15, <1>16, <1>17 DEF SpectrumInv

\* The batch goes on with the frames in progress.
LEMMA TakeKeeps == ASSUME SpectrumInv, Take, ~StartsAnew PROVE SpectrumInv' /\ frame' = frame
<1>1. PICK b \in SpectrumBatches, t \in Seq(SpectrumBatches) :
              /\ current' = b /\ queue' = t /\ b = Head(queue) /\ current = NoBatch
              /\ WholeBatch(b) /\ AheadOf(b) /\ Before(b)
              /\ \A i \in 1 .. Len(t) : WholeBatch(t[i]) /\ AheadOf(t[i]) /\ Before(t[i]) /\ Successive(b, t[i])
              /\ Waiting(t)
  BY BatchTaken
<1>30. heard \in SUBSET Nat /\ carry \in Seq(Sample) /\ engine \in Engines /\ current = NoBatch
  BY <1>1 DEF SpectrumInv, SpectrumTypeOK
<1>31. /\ engine.run \in Nat /\ engine.applied \in Nat /\ engine.size \in Nat
       /\ engine.frame_pairs \in Nat /\ engine.stride \in Nat
  BY <1>30, EngineIs
<1>32. /\ b.run \in Nat /\ b.first \in Nat /\ BatchEnd(b) \in Nat /\ b # NoBatch
       /\ Len(b.samples) \in Nat /\ BatchEnd(b) = b.first + Len(b.samples) /\ Len(b.samples) > 0
  BY <1>1, BatchIs DEF WholeBatch, BatchEnd
<1>33. /\ version \in Nat /\ version # 0 /\ run \in Nat /\ next \in Nat /\ carry_first \in Nat
  BY DEF SpectrumInv, SpectrumTypeOK
<1>34. Len(carry) \in Nat
  BY <1>30
<1>2. /\ version \in Nat /\ version # 0 /\ run \in Nat /\ next \in Nat /\ Len(carry) \in Nat
      /\ carry_first \in Nat /\ engine.run \in Nat /\ engine.applied \in Nat /\ engine.size \in Nat
      /\ engine.frame_pairs \in Nat /\ engine.stride \in Nat
      /\ b.run \in Nat /\ b.first \in Nat /\ BatchEnd(b) \in Nat /\ b # NoBatch
      /\ Len(b.samples) \in Nat /\ BatchEnd(b) = b.first + Len(b.samples) /\ Len(b.samples) > 0
  BY <1>31, <1>32, <1>33, <1>34
<1>3. engine.applied = version /\ b.run = engine.run /\ Configured
  BY <1>1, <1>2 DEF StartsAnew, Configured
<1>4. /\ carry' = (IF Joins(b) THEN carry ELSE <<>>) /\ available' = (IF Joins(b) THEN carry_first ELSE b.first)
      /\ heard' = heard \cup {sample[2] : sample \in Range(b.samples)}
      /\ engine' = engine /\ frame' = frame /\ slot' = slot /\ blocks' = blocks
      /\ run' = run /\ next' = next /\ wanted' = wanted /\ version' = version /\ carry_first' = carry_first
      /\ made' = made
  BY <1>1 DEF Take, producer
<1>5. /\ heard' = heard \cup (b.first .. BatchEnd(b) - 1)
  BY <1>1, <1>4, HeardOf
<1>6. /\ FrameStart' = FrameStart /\ Position' = Position /\ End' = BatchEnd(b) /\ Horizon' = BatchEnd(b)
      /\ Configured' /\ \A x : Period(x)' = Period(x)
  BY <1>1, <1>2, <1>3, <1>4 DEF FrameStart, Position, End, BatchEnd, Horizon, Configured, Period
<1>7. /\ FrameStart \in Nat /\ Position \in Nat /\ FrameStart <= Position /\ Horizon \in Nat
      /\ Position + engine.size <= FrameStart + engine.frame_pairs /\ Horizon = carry_first + Len(carry)
  BY <1>1, <1>3, SpectrumPlaces
<1>8. b.first >= Horizon /\ BatchEnd(b) > Horizon
  <2>1. b.first >= Horizon
    BY <1>1, <1>3 DEF AheadOf
  <2>2. QED
    BY <1>2, <1>7, <2>1
<1>9. carry_first <= Position /\ Horizon < Position + engine.size
  BY <1>1, <1>3 DEF SpectrumInv, HeardOK
<1>10. Len(<<>>) = 0 /\ \A i \in 1 .. Len(<<>>) : FALSE
  OBVIOUS
<1>11. SpectrumTypeOK'
  <2>1. heard' \in SUBSET Nat
    <3>1. \A x \in b.first .. BatchEnd(b) - 1 : x \in Nat
      BY <1>32
    <3>2. QED
      BY <1>5, <1>30, <3>1
  <2>2. carry' \in Seq(Sample) /\ available' \in Nat
    BY <1>2, <1>4, <1>30
  <2>3. QED
    BY <1>1, <1>2, <1>4, <2>1, <2>2 DEF SpectrumInv, SpectrumTypeOK
<1>12. EngineOK'
  <2>1. b.run <= run /\ (b.run = run => BatchEnd(b) <= next)
    BY <1>1 DEF Before
  <2>2. QED
    BY <1>1, <1>2, <1>3, <1>4, <1>6, <2>1 DEF SpectrumInv, EngineOK
<1>13. QueueOK'
  <2>1. ASSUME NEW i \in 1 .. Len(t) PROVE AheadOf(t[i])' /\ Before(t[i])'
    <3>1. Successive(b, t[i]) /\ Before(t[i]) /\ t[i] \in SpectrumBatches
      BY <1>1
    <3>2. t[i].run \in Nat /\ t[i].first \in Nat
      BY <3>1, BatchIs
    <3>3. QED
      BY <1>2, <1>3, <1>4, <1>6, <3>1, <3>2 DEF AheadOf, Before, Successive
  <2>2. QED
    BY <1>1, <2>1 DEF QueueOK, Waiting
<1>14. CurrentOK'
  <2>1. CASE Joins(b)
    <3>1. carry' = carry /\ available' = carry_first /\ carry # <<>> /\ carry_first + Len(carry) = b.first
      BY <1>4, <2>1 DEF Joins
    <3>2. QED
      BY <1>1, <1>2, <1>3, <1>4, <3>1 DEF SpectrumInv, CurrentOK, Samples
  <2>2. CASE ~Joins(b)
    BY <1>1, <1>2, <1>3, <1>4, <1>10, <2>2 DEF CurrentOK, Samples
  <2>3. QED
    BY <2>1, <2>2
<1>15. BlocksOK'
  <2>1. ASSUME NEW i \in 1 .. Len(blocks) PROVE BlockOK(blocks[i])'
    <3>1. PICK a \in Seq(Sample) : a = blocks[i]
      BY DEF SpectrumInv, SpectrumTypeOK
    <3>2. BlockOK(a)
      BY <3>1 DEF SpectrumInv, BlocksOK
    <3>3. From(a) \in Nat
      <4>1. Len(a) = engine.size /\ engine.size > 0 /\ Len(a) \in Nat
        BY <1>3, <3>2 DEF BlockOK, SpectrumInv, EngineOK
      <4>2. a[1] \in Sample
        BY <4>1
      <4>3. QED
        BY <4>2 DEF From, Sample
    <3>4. From(a) + engine.size <= BatchEnd(b)
      <4>1. From(a) + engine.size <= Horizon
        BY <3>2 DEF BlockOK
      <4>2. QED
        BY <1>2, <1>7, <1>8, <3>3, <4>1
    <3>5. BlockOK(a)'
      BY <1>4, <1>6, <3>2, <3>4 DEF BlockOK
    <3>6. blocks'[i] = a
      BY <1>4, <3>1
    <3>7. QED
      BY <3>5, <3>6
  <2>2. QED
    BY <1>4, <2>1 DEF SpectrumInv, BlocksOK
<1>16. MadeOK'
  <2>1. BlocksWhole'
    BY <1>4 DEF SpectrumInv, MadeOK, BlocksWhole
  <2>2. ASSUME made # NoBatch, made.run = engine.run PROVE made.index < BatchEnd(b)
    <3>1. /\ made \in FramesMade /\ made.index < Horizon
      BY <2>2 DEF SpectrumInv, SpectrumTypeOK, MadeOK
    <3>2. made.index \in Nat
      BY <3>1 DEF FramesMade
    <3>3. QED
      BY <1>2, <1>7, <1>8, <3>1, <3>2
  <2>3. QED
    BY <1>4, <1>6, <2>1, <2>2 DEF SpectrumInv, MadeOK
<1>17. \A x \in heard : x < Horizon
  BY DEF SpectrumInv, HeardOK
<1>18. \A x \in heard' : x < BatchEnd(b)
  <2>1. ASSUME NEW x \in heard PROVE x < BatchEnd(b)
    BY <1>7, <1>8, <1>17, <1>30, <1>32
  <2>2. ASSUME NEW x \in b.first .. BatchEnd(b) - 1 PROVE x < BatchEnd(b)
    BY <1>32
  <2>3. QED
    BY <1>5, <2>1, <2>2
<1>19. ASSUME slot # Len(blocks) PROVE \E x \in Period(frame) : x \notin heard' /\ x < BatchEnd(b)
  <2>1. PICK x \in Period(frame) : x \notin heard /\ x < Horizon
    BY <1>19 DEF SpectrumInv, HeardOK
  <2>2. x \in Int
    BY DEF Period
  <2>3. x < b.first /\ x < BatchEnd(b)
    BY <1>32, <1>7, <1>8, <2>1, <2>2
  <2>4. x \notin b.first .. BatchEnd(b) - 1
    BY <1>32, <2>2, <2>3
  <2>5. QED
    BY <1>5, <2>1, <2>3, <2>4
<1>20. ASSUME Position < available'
       PROVE  available' = b.first
              /\ \E h \in 0 .. b.first - 1 : h < FrameStart + engine.frame_pairs /\ \A x \in h .. b.first - 1 : x \notin heard'
  <2>1. ~Joins(b)
    BY <1>2, <1>4, <1>7, <1>9, <1>20
  <2>2. available' = b.first
    BY <1>4, <2>1
  <2>3. Horizon # b.first
    <3>1. CASE carry = <<>>
      BY <1>2, <1>7, <1>9, <1>10, <1>20, <2>2, <3>1
    <3>2. CASE carry # <<>>
      BY <1>7, <2>1, <3>2 DEF Joins
    <3>3. QED
      BY <3>1, <3>2
  <2>4. Horizon \in 0 .. b.first - 1 /\ Horizon < FrameStart + engine.frame_pairs
    <3>1. Horizon < b.first
      BY <1>7, <1>8, <1>32, <2>3
    <3>2. Horizon < FrameStart + engine.frame_pairs
      BY <1>7, <1>9, <1>31
    <3>3. QED
      BY <1>7, <1>32, <3>1, <3>2
  <2>5. \A x \in Horizon .. b.first - 1 : x \notin heard'
    <3>1. ASSUME NEW x \in Horizon .. b.first - 1 PROVE x \notin heard'
      <4>1. x >= Horizon /\ x < b.first /\ x \in Int
        BY <1>7, <1>32
      <4>2. x \notin heard
        BY <1>7, <1>17, <4>1
      <4>3. x \notin b.first .. BatchEnd(b) - 1
        BY <1>32, <4>1
      <4>4. QED
        BY <1>5, <4>2, <4>3
    <3>2. QED
      BY <3>1
  <2>6. QED
    BY <2>2, <2>4, <2>5
<1>21. HeardOK'
  BY <1>1, <1>2, <1>4, <1>6, <1>18, <1>19, <1>20 DEF HeardOK, Unheard
<1>22. QED
  BY <1>4, <1>11, <1>12, <1>13, <1>14, <1>15, <1>16, <1>21 DEF SpectrumInv

-----------------------------------------------------------------------------
(* Frames.                                                                 *)
LEMMA PeriodIs ==
    ASSUME engine.frame_pairs \in Nat, NEW f \in Nat
    PROVE  Period(f) = f * engine.frame_pairs .. f * engine.frame_pairs + engine.frame_pairs - 1
<1>1. (f + 1) * engine.frame_pairs = f * engine.frame_pairs + engine.frame_pairs
  BY Multiples
<1>2. QED
  BY <1>1 DEF Period

LEMMA Within ==
    ASSUME NEW a \in Nat, NEW low \in Nat, NEW size \in Nat, NEW length \in Nat, NEW i \in 1 .. size,
           a >= low, a + size <= low + length
    PROVE  a + i - 1 \in low .. low + length - 1
OBVIOUS

\* What the blocks made so far say of a frame made of them.
LEMMA FrameOf ==
    ASSUME SpectrumInv, NEW w \in Seq(Seq(Sample)), w # <<>>,
           \A b \in 1 .. Len(w) :
               /\ Len(w[b]) = engine.size /\ Samples(w[b], engine.run, From(w[b]))
               /\ From(w[b]) >= FrameStart
               /\ From(w[b]) + engine.size <= FrameStart + engine.frame_pairs
               /\ From(w[b]) + engine.size <= Horizon,
           \A b \in 2 .. Len(w) : From(w[b - 1]) + engine.stride <= From(w[b]),
           made' = [run |-> engine.run, index |-> FrameStart, of |-> engine, blocks |-> w],
           engine' = engine, Horizon' = Horizon, NEW start \in Nat, FrameStart < start, FrameStart' = start,
           Configured
    PROVE  MadeOK' /\ made' \in FramesMade /\ made' # NoBatch
<1>1. PICK m : m = [run |-> engine.run, index |-> FrameStart, of |-> engine, blocks |-> w]
  OBVIOUS
<1>2. m.run = engine.run /\ m.index = FrameStart /\ m.of = engine /\ m.blocks = w /\ made' = m
  BY <1>1
<1>3. engine \in Engines /\ engine.run \in Nat /\ FrameStart \in Nat /\ engine.size \in Nat /\ engine.frame_pairs \in Nat
      /\ engine.size > 0 /\ engine.stride \in Nat /\ Horizon \in Nat
  BY EngineIs, SpectrumPlaces DEF SpectrumInv, SpectrumTypeOK, EngineOK
<1>4. m \in FramesMade
  BY <1>1, <1>3 DEF FramesMade, Sample
<1>5. m # NoBatch
  BY <1>4, SpectrumAssumption
<1>6. ASSUME NEW b \in 1 .. Len(w)
      PROVE  /\ From(w[b]) \in Nat /\ Len(w[b]) = engine.size
             /\ \A i \in DOMAIN w[b] : w[b][i] = <<engine.run, From(w[b]) + i - 1>>
             /\ Indices(w[b]) \subseteq FrameStart .. FrameStart + engine.frame_pairs - 1
  <2>1. PICK a \in Seq(Sample) : a = w[b]
    OBVIOUS
  <2>2. Len(a) = engine.size /\ Samples(a, engine.run, From(a)) /\ From(a) >= FrameStart
        /\ From(a) + engine.size <= FrameStart + engine.frame_pairs
    BY <2>1
  <2>3. 1 \in 1 .. Len(a) /\ a[1] \in Sample /\ DOMAIN a = 1 .. Len(a)
    BY <1>3, <2>2
  <2>4. From(a) \in Nat
    BY <2>3 DEF From, Sample
  <2>5. \A i \in DOMAIN a : a[i] = <<engine.run, From(a) + i - 1>>
    BY <2>2, <2>3 DEF Samples
  <2>6. ASSUME NEW x \in Indices(a) PROVE x \in FrameStart .. FrameStart + engine.frame_pairs - 1
    <3>1. PICK i \in DOMAIN a : x = a[i][2]
      BY DEF Indices
    <3>2. x = From(a) + i - 1 /\ i \in 1 .. engine.size
      BY <2>2, <2>3, <2>5, <3>1
    <3>3. QED
      BY ONLY <1>3, <2>2, <2>4, <3>2, Within
  <2>7. QED
    BY <2>1, <2>2, <2>4, <2>5, <2>6
<1>7. DOMAIN m.blocks = 1 .. Len(w)
  BY <1>2
<1>8. BlocksWhole'
  <2>1. ASSUME NEW b \in 1 .. Len(w), b > 1 PROVE w[b - 1][1][2] + engine.stride <= w[b][1][2]
    <3>1. b \in 2 .. Len(w)
      BY <2>1
    <3>2. QED
      BY <3>1 DEF From
  <2>2. ASSUME NEW b \in 1 .. Len(w)
        PROVE  LET block == w[b] IN
               /\ Len(block) = engine.size
               /\ \A i \in DOMAIN block : block[i] = <<engine.run, block[1][2] + i - 1>>
               /\ Indices(block) \subseteq FrameStart .. FrameStart + engine.frame_pairs - 1
               /\ b > 1 => w[b - 1][1][2] + engine.stride <= block[1][2]
    BY <1>6, <2>1 DEF From
  <2>3. QED
    <3>1. made'.blocks = w /\ made'.of = engine /\ made'.run = engine.run /\ made'.index = FrameStart
          /\ DOMAIN made'.blocks = 1 .. Len(w)
      BY <1>2, <1>7
    <3>2. ASSUME NEW b \in DOMAIN made'.blocks
          PROVE  LET block == made'.blocks[b] IN
                 /\ Len(block) = made'.of.size
                 /\ \A i \in DOMAIN block : block[i] = <<made'.run, block[1][2] + i - 1>>
                 /\ Indices(block) \subseteq made'.index .. made'.index + made'.of.frame_pairs - 1
                 /\ b > 1 => made'.blocks[b - 1][1][2] + made'.of.stride <= block[1][2]
      BY <2>2, <3>1
    <3>3. QED
      BY <3>2 DEF BlocksWhole
<1>9. FrameStart < Horizon
  <2>1. 1 \in 1 .. Len(w)
    OBVIOUS
  <2>2. From(w[1]) \in Nat /\ From(w[1]) >= FrameStart /\ From(w[1]) + engine.size <= Horizon
    BY <1>6, <2>1
  <2>3. QED
    BY <1>3, <2>2
<1>10. MadeOK'
  BY <1>2, <1>3, <1>8, <1>9 DEF MadeOK
<1>11. QED
  BY <1>2, <1>4, <1>5, <1>10

\* The frames stay what they were, and later ones come.
LEMMA FrameLeft ==
    ASSUME SpectrumInv, Configured, FinishFrame, engine' = engine, Horizon' = Horizon,
           NEW start \in Nat, FrameStart < start, FrameStart' = start
    PROVE  MadeOK' /\ made' \in FramesMade \cup {NoBatch} /\ BlocksOK' /\ blocks' = <<>>
<1>1. Len(<<>>) = 0 /\ \A i \in 1 .. Len(<<>>) : FALSE
  OBVIOUS
<1>2. blocks' = <<>>
  BY DEF FinishFrame
<1>3. BlocksOK'
  BY <1>1, <1>2 DEF BlocksOK
<1>4. CASE blocks = <<>>
  <2>1. made' = made
    BY <1>4 DEF FinishFrame
  <2>2. made \in FramesMade \cup {NoBatch} /\ FrameStart \in Nat
    BY SpectrumPlaces DEF SpectrumInv, SpectrumTypeOK
  <2>3. BlocksWhole'
    BY <2>1 DEF SpectrumInv, MadeOK, BlocksWhole
  <2>4. made # NoBatch => made.index \in Nat
    BY <2>2 DEF FramesMade
  <2>5. MadeOK'
    BY <2>1, <2>2, <2>3, <2>4 DEF SpectrumInv, MadeOK
  <2>6. QED
    BY <1>2, <1>3, <2>1, <2>2, <2>5
<1>5. CASE blocks # <<>>
  <2>1. PICK w \in Seq(Seq(Sample)) : w = blocks
    BY DEF SpectrumInv, SpectrumTypeOK
  <2>2. made' = [run |-> engine.run, index |-> FrameStart, of |-> engine, blocks |-> w]
    BY <1>5, <2>1 DEF FinishFrame
  <2>3. /\ \A b \in 1 .. Len(w) :
               /\ Len(w[b]) = engine.size /\ Samples(w[b], engine.run, From(w[b]))
               /\ From(w[b]) >= FrameStart
               /\ From(w[b]) + engine.size <= FrameStart + engine.frame_pairs
               /\ From(w[b]) + engine.size <= Horizon
        /\ \A b \in 2 .. Len(w) : From(w[b - 1]) + engine.stride <= From(w[b])
    BY <2>1 DEF SpectrumInv, BlocksOK, BlockOK
  <2>4. MadeOK' /\ made' \in FramesMade
    BY <1>5, <2>1, <2>2, <2>3, FrameOf
  <2>5. QED
    BY <1>2, <1>3, <2>4
<1>6. QED
  BY <1>4, <1>5

\* A step that leaves the batch, what was heard and what waits alone.
LEMMA ProcessKeeps ==
    ASSUME SpectrumInv, ProcessStays, UNCHANGED <<current, available, carry, carry_first>>, current # NoBatch
    PROVE  /\ QueueOK' /\ CurrentOK' /\ Horizon' = Horizon /\ engine' = engine /\ Configured' /\ Configured
           /\ (\A x : Period(x)' = Period(x)) /\ heard' = heard
           /\ slot' < engine.per_frame => EngineOK'
           /\ frame' \in Nat /\ slot' \in Nat /\ blocks' \in Seq(Seq(Sample)) /\ made' \in FramesMade \cup {NoBatch}
              => SpectrumTypeOK'
<1>1. /\ current' = current /\ available' = available /\ carry' = carry /\ carry_first' = carry_first
      /\ run' = run /\ next' = next /\ wanted' = wanted /\ version' = version /\ queue' = queue /\ engine' = engine
      /\ heard' = heard
  BY DEF ProcessStays, producer
<1>2. Horizon' = Horizon
  BY <1>1 DEF Horizon, End
<1>3. QueueOK' /\ CurrentOK'
  BY <1>1, <1>2 DEF SpectrumInv, QueueOK, Waiting, CurrentOK, AheadOf, Before
<1>4. Configured /\ Configured'
  BY <1>1 DEF SpectrumInv, EngineOK, Configured
<1>5. slot' < engine.per_frame => EngineOK'
  BY <1>1, <1>2, <1>4 DEF SpectrumInv, EngineOK
<1>6. \A x : Period(x)' = Period(x)
  BY <1>1 DEF Period
<1>7. frame' \in Nat /\ slot' \in Nat /\ blocks' \in Seq(Seq(Sample)) /\ made' \in FramesMade \cup {NoBatch}
      => SpectrumTypeOK'
  BY <1>1 DEF SpectrumInv, SpectrumTypeOK
<1>8. QED
  BY <1>1, <1>2, <1>3, <1>4, <1>5, <1>6, <1>7

-----------------------------------------------------------------------------
(* What the property says of a step, and the steps of the engine.          *)
WholeStep ==
    engine' = engine /\ frame' > frame =>
        \A f \in frame .. frame' - 1 :
            Period(f) \subseteq heard =>
                /\ made' # NoBatch /\ made'.index = f * engine.frame_pairs
                /\ Len(made'.blocks) = engine.per_frame
RiseStep ==
    made # NoBatch /\ made' # made =>
        \/ made'.run > made.run
        \/ made'.run = made.run /\ made'.index > made.index

LEMMA Rises ==
    ASSUME SpectrumInv, made' # made => made'.run = engine.run /\ made'.index = FrameStart
    PROVE  RiseStep
<1> SUFFICES ASSUME made # NoBatch, made' # made
             PROVE  made'.run > made.run \/ (made'.run = made.run /\ made'.index > made.index)
  BY DEF RiseStep
<1>1. /\ made.run <= engine.run /\ (made.run = engine.run => made.index < FrameStart)
      /\ made \in FramesMade /\ engine \in Engines /\ FrameStart \in Nat
  BY SpectrumPlaces DEF SpectrumInv, SpectrumTypeOK, MadeOK
<1>2. made.run \in Nat /\ made.index \in Nat /\ engine.run \in Nat
  BY <1>1, EngineIs DEF FramesMade
<1>3. QED
  BY <1>1, <1>2

LEMMA Product ==
    ASSUME NEW a \in Nat, NEW c \in Nat, NEW n \in Nat, NEW b \in Nat, a * c + c <= n, n < b * c + c
    PROVE  a < b
<1>1. SUFFICES ASSUME b <= a PROVE FALSE
  OBVIOUS
<1>2. b * c <= a * c /\ b * c \in Nat /\ a * c \in Nat
  BY <1>1, Multiples
<1>3. QED
  BY <1>2

\* The samples that passed the engine by, and the place it is behind.
LEMMA Behind ==
    ASSUME SpectrumInv, Skip
    PROVE  /\ available \in Nat /\ Position < available /\ available < Horizon /\ Configured /\ current # NoBatch
           /\ available = current.first
           /\ \E h \in 0 .. available - 1 : h < FrameStart + engine.frame_pairs /\ Unheard(h, available - 1)
<1>1. current # NoBatch /\ Position < available
  BY DEF Skip
<1>2. available = current.first
      /\ \E h \in 0 .. available - 1 : h < FrameStart + engine.frame_pairs /\ Unheard(h, available - 1)
  BY <1>1 DEF SpectrumInv, HeardOK
<1>3. current \in SpectrumBatches /\ Len(current.samples) > 0 /\ Configured /\ available \in Nat
  BY <1>1 DEF SpectrumInv, SpectrumTypeOK, CurrentOK, WholeBatch, EngineOK
<1>4. Len(current.samples) \in Nat
  BY <1>3, BatchIs
<1>5. Horizon = BatchEnd(current)
  BY <1>1, SpectrumPlaces
<1>6. QED
  BY <1>1, <1>2, <1>3, <1>4, <1>5 DEF BatchEnd

\* A frame begun before it, or passed over, misses one of them.
LEMMA PassedOver ==
    ASSUME SpectrumInv, Skip, NEW f \in Nat, f = frame \/ (f > frame /\ f * engine.frame_pairs < available)
    PROVE  ~(Period(f) \subseteq heard)
<1>1. /\ available \in Nat /\ Position < available /\ Configured
      /\ \E h \in 0 .. available - 1 : h < FrameStart + engine.frame_pairs /\ Unheard(h, available - 1)
  BY Behind
<1>2. PICK h \in 0 .. available - 1 : h < FrameStart + engine.frame_pairs /\ Unheard(h, available - 1)
  BY <1>1
<1>3. /\ engine \in Engines /\ frame \in Nat /\ engine.size > 0 /\ engine.size <= engine.frame_pairs
  BY <1>1 DEF SpectrumInv, SpectrumTypeOK, EngineOK
<1>4. /\ engine.frame_pairs \in Nat /\ engine.frame_pairs > 0 /\ FrameStart \in Nat /\ Position \in Nat
      /\ FrameStart <= Position
  BY <1>3, EngineIs, SpectrumPlaces
<1>5. Period(f) = f * engine.frame_pairs .. f * engine.frame_pairs + engine.frame_pairs - 1 /\ f * engine.frame_pairs \in Nat
  BY <1>4, PeriodIs, Multiples
<1>6. ASSUME NEW x \in Int, x \in Period(f), h <= x, x < available PROVE ~(Period(f) \subseteq heard)
  <2>1. x \in h .. available - 1
    BY <1>1, <1>2, <1>6
  <2>2. QED
    BY <1>2, <1>6, <2>1 DEF Unheard
<1>7. CASE f = frame
  <2>1. f * engine.frame_pairs = FrameStart
    BY <1>7 DEF FrameStart
  <2>2. CASE h <= FrameStart
    <3>1. FrameStart \in Period(f) /\ FrameStart < available
      BY <1>1, <1>4, <1>5, <2>1
    <3>2. QED
      BY <1>4, <1>6, <2>2, <3>1
  <2>3. CASE ~(h <= FrameStart)
    <3>1. h \in Period(f) /\ h < available /\ h \in Int /\ h <= h
      BY <1>1, <1>2, <1>4, <1>5, <2>1, <2>3
    <3>2. QED
      BY <1>6, <3>1
  <2>4. QED
    BY <2>2, <2>3
<1>8. CASE f > frame /\ f * engine.frame_pairs < available
  <2>1. frame * engine.frame_pairs + engine.frame_pairs <= f * engine.frame_pairs
    BY <1>3, <1>4, <1>8, Multiples
  <2>2. h <= f * engine.frame_pairs
    BY <1>2, <1>4, <1>5, <2>1 DEF FrameStart
  <2>3. f * engine.frame_pairs \in Period(f)
    BY <1>4, <1>5
  <2>4. QED
    BY <1>5, <1>6, <1>8, <2>2, <2>3
<1>9. QED
  BY <1>7, <1>8

\* The frame is left behind.
LEMMA SkipFrame ==
    ASSUME SpectrumInv, Skip, NEW n \in Nat, NextFrame(n), n > frame,
           \/ available < n * engine.frame_pairs
           \/ n * engine.frame_pairs <= available /\ available < n * engine.frame_pairs + engine.frame_pairs,
           n = frame + 1 \/ n * engine.frame_pairs <= available
    PROVE  SpectrumInv' /\ WholeStep /\ RiseStep /\ BlocksWhole'
<1>1. /\ available \in Nat /\ Position < available /\ available < Horizon /\ Configured /\ current # NoBatch
      /\ available = current.first
      /\ \E h \in 0 .. available - 1 : h < FrameStart + engine.frame_pairs /\ Unheard(h, available - 1)
  BY Behind
<1>2. UNCHANGED <<current, available, carry, carry_first>> /\ ProcessStays
  BY DEF Skip
<1>3. FinishFrame /\ frame' = n /\ slot' = 0
  BY DEF NextFrame
<1>4. /\ QueueOK' /\ CurrentOK' /\ Horizon' = Horizon /\ engine' = engine /\ Configured'
      /\ (\A x : Period(x)' = Period(x)) /\ heard' = heard
  BY <1>1, <1>2, ProcessKeeps
<1>5. /\ engine \in Engines /\ frame \in Nat /\ engine.size > 0 /\ engine.size <= engine.frame_pairs
      /\ slot < engine.per_frame /\ slot \in Nat
  BY <1>1 DEF SpectrumInv, SpectrumTypeOK, EngineOK
<1>6. /\ engine.frame_pairs \in Nat /\ engine.frame_pairs > 0 /\ engine.per_frame \in Nat /\ engine.stride \in Nat
      /\ FrameStart \in Nat
  BY <1>5, EngineIs, SpectrumPlaces
<1>7. n * engine.frame_pairs \in Nat /\ FrameStart + engine.frame_pairs <= n * engine.frame_pairs
  BY <1>5, <1>6, Multiples DEF FrameStart
<1>8. FrameStart' = n * engine.frame_pairs /\ Position' = n * engine.frame_pairs
  <2>1. 0 * engine.stride = 0
    BY <1>6
  <2>2. QED
    BY <1>3, <1>4, <1>7, <2>1 DEF FrameStart, Position
<1>9. MadeOK' /\ made' \in FramesMade \cup {NoBatch} /\ BlocksOK' /\ blocks' = <<>>
  <2>1. PICK start \in Nat : start = n * engine.frame_pairs
    BY <1>7
  <2>2. FrameStart < start /\ FrameStart' = start
    BY <1>6, <1>7, <1>8, <2>1
  <2>3. QED
    BY <1>1, <1>3, <1>4, <2>2, FrameLeft
<1>10. SpectrumTypeOK' /\ EngineOK'
  <2>1. slot' < engine.per_frame
    BY <1>3, <1>5, <1>6
  <2>2. frame' \in Nat /\ slot' \in Nat /\ blocks' \in Seq(Seq(Sample))
    BY <1>3, <1>9
  <2>3. QED
    BY <1>1, <1>2, <1>9, <2>1, <2>2, ProcessKeeps
<1>11. HeardOK'
  <2>1. \A x \in heard' : x < Horizon'
    BY <1>4 DEF SpectrumInv, HeardOK
  <2>2. slot' = Len(blocks')
    BY <1>3, <1>9
  <2>3. ASSUME Position' < available'
        PROVE  /\ available' = (current.first)'
               /\ \E h \in 0 .. available' - 1 : /\ h < FrameStart' + (engine.frame_pairs)'
                                                 /\ \A x \in h .. available' - 1 : x \notin heard'
    <3>1. available' = available /\ current' = current
      BY <1>2
    <3>2. available < n * engine.frame_pairs + engine.frame_pairs
      BY <1>1, <1>6, <1>7, <1>8, <2>3, <3>1
    <3>3. available - 1 \in 0 .. available - 1 /\ available - 1 < n * engine.frame_pairs + engine.frame_pairs
      <4>1. Position \in Nat /\ available > 0
        BY <1>1, SpectrumPlaces
      <4>2. PICK end : end = n * engine.frame_pairs + engine.frame_pairs
        OBVIOUS
      <4>3. end \in Nat /\ available < end /\ available \in Nat
        BY <1>1, <1>6, <1>7, <3>2, <4>2
      <4>4. available - 1 \in 0 .. available - 1 /\ available - 1 < end
        BY ONLY <4>1, <4>3
      <4>5. QED
        BY <4>2, <4>4
    <3>4. \A x \in available - 1 .. available - 1 : x \notin heard
      <4>1. PICK h \in 0 .. available - 1 : Unheard(h, available - 1)
        BY <1>1
      <4>2. \A x \in available - 1 .. available - 1 : x \in h .. available - 1
        BY <1>1, <4>1
      <4>3. QED
        BY <4>1, <4>2 DEF Unheard
    <3>5. /\ available' = current'.first /\ heard' = heard
          /\ FrameStart' + (engine.frame_pairs)' = n * engine.frame_pairs + engine.frame_pairs
      BY <1>1, <1>4, <1>8, <3>1
    <3>6. QED
      BY <3>1, <3>3, <3>4, <3>5
  <2>4. current' # NoBatch
    BY <1>1, <1>2
  <2>5. QED
    BY <2>1, <2>2, <2>3, <2>4 DEF HeardOK, Unheard
<1>12. SpectrumInv'
  BY <1>4, <1>9, <1>10, <1>11 DEF SpectrumInv
<1>13. WholeStep
  <2>1. ASSUME NEW f \in frame .. n - 1 PROVE ~(Period(f) \subseteq heard)
    <3>1. f \in Nat /\ f >= frame /\ f < n
      BY <1>5
    <3>2. CASE f = frame
      BY <3>1, <3>2, PassedOver
    <3>3. CASE f # frame
      <4>1. f > frame
        BY <1>5, <3>1, <3>3
      <4>2. n * engine.frame_pairs <= available
        BY <1>5, <3>1, <4>1
      <4>3. f * engine.frame_pairs + engine.frame_pairs <= n * engine.frame_pairs /\ f * engine.frame_pairs \in Nat
        BY <1>6, <3>1, Multiples
      <4>4. f * engine.frame_pairs < available
        BY <1>1, <1>6, <1>7, <4>2, <4>3
      <4>5. QED
        BY <3>1, <4>1, <4>4, PassedOver
    <3>4. QED
      BY <3>2, <3>3
  <2>2. QED
    BY <1>3, <2>1 DEF WholeStep
<1>14. RiseStep
  <2>1. made' # made => made'.run = engine.run /\ made'.index = FrameStart
    BY <1>3 DEF FinishFrame
  <2>2. QED
    BY <2>1, Rises
<1>15. QED
  BY <1>9, <1>12, <1>13, <1>14 DEF MadeOK

\* The slots behind it are left out.
LEMMA SkipSlots ==
    ASSUME SpectrumInv, Skip, slot' = NextSlot, UNCHANGED <<frame, blocks, made>>,
           available < FrameStart + engine.frame_pairs, NextSlot < engine.per_frame
    PROVE  SpectrumInv' /\ WholeStep /\ RiseStep /\ BlocksWhole'
<1>1. /\ available \in Nat /\ Position < available /\ available < Horizon /\ Configured /\ current # NoBatch
      /\ available = current.first
      /\ \E h \in 0 .. available - 1 : h < FrameStart + engine.frame_pairs /\ Unheard(h, available - 1)
  BY Behind
<1>2. UNCHANGED <<current, available, carry, carry_first>> /\ ProcessStays
  BY DEF Skip
<1>3. frame' = frame /\ blocks' = blocks /\ made' = made
  OBVIOUS
<1>4. /\ QueueOK' /\ CurrentOK' /\ Horizon' = Horizon /\ engine' = engine /\ Configured'
      /\ (\A x : Period(x)' = Period(x)) /\ heard' = heard
  BY <1>1, <1>2, ProcessKeeps
<1>5. /\ engine \in Engines /\ frame \in Nat /\ slot \in Nat /\ blocks \in Seq(Seq(Sample))
      /\ made \in FramesMade \cup {NoBatch} /\ engine.size > 0
  BY <1>1 DEF SpectrumInv, SpectrumTypeOK, EngineOK
<1>6. /\ engine.frame_pairs \in Nat /\ engine.per_frame \in Nat /\ engine.stride \in Nat /\ engine.size \in Nat
      /\ FrameStart \in Nat /\ Position \in Nat /\ FrameStart <= Position /\ Horizon \in Nat
  BY <1>5, EngineIs, SpectrumPlaces
<1>7. PICK n \in Nat : n = NextSlot /\ available <= FrameStart + n * engine.stride /\ n * engine.stride \in Nat
  <2>1. engine.stride > 0
    BY <1>6 DEF NextSlot
  <2>2. PICK gap \in Nat : gap = available - FrameStart
    BY <1>1, <1>6
  <2>3. LET q == (gap + engine.stride - 1) \div engine.stride IN q \in Nat /\ gap <= q * engine.stride
    BY <1>6, <2>1, <2>2, RoundedUp
  <2>4. NextSlot = (gap + engine.stride - 1) \div engine.stride
    BY <2>1, <2>2, <1>6 DEF NextSlot
  <2>5. NextSlot \in Nat /\ gap <= NextSlot * engine.stride
    BY <2>3, <2>4
  <2>6. NextSlot * engine.stride \in Nat
    BY <1>6, <2>5, Multiples
  <2>7. available <= FrameStart + NextSlot * engine.stride
    BY <1>1, <1>6, <2>2, <2>5, <2>6
  <2>8. QED
    BY <2>5, <2>6, <2>7
<1>8. FrameStart' = FrameStart /\ Position' = FrameStart + n * engine.stride /\ slot' = n
  BY <1>3, <1>4, <1>7 DEF FrameStart, Position
<1>9. SpectrumTypeOK' /\ EngineOK'
  BY <1>1, <1>2, <1>3, <1>5, <1>7, <1>8, ProcessKeeps
<1>10. BlocksOK'
  <2>1. ASSUME NEW i \in 1 .. Len(blocks) PROVE BlockOK(blocks[i])'
    <3>1. PICK a \in Seq(Sample) : a = blocks[i]
      BY <1>5
    <3>2. BlockOK(a)
      BY <3>1 DEF SpectrumInv, BlocksOK
    <3>3. From(a) \in Nat
      <4>1. Len(a) = engine.size
        BY <3>2 DEF BlockOK
      <4>2. a[1] \in Sample
        BY <1>5, <1>6, <4>1
      <4>3. QED
        BY <4>2 DEF From, Sample
    <3>4. From(a) + engine.stride <= FrameStart + n * engine.stride
      <4>1. From(a) + engine.stride <= Position
        BY <3>2 DEF BlockOK
      <4>2. PICK place \in Nat : place = FrameStart + n * engine.stride /\ available <= place
        BY <1>6, <1>7
      <4>3. PICK passed \in Nat : passed = Position /\ passed < available
        BY <1>1, <1>6
      <4>4. PICK from \in Nat : from = From(a)
        BY <3>3
      <4>5. PICK step \in Nat : step = engine.stride
        BY <1>6
      <4>6. from + step <= passed /\ available \in Nat
        BY <1>1, <4>1, <4>3, <4>4, <4>5
      <4>7. from + step <= place
        BY ONLY <4>2, <4>3, <4>6
      <4>8. QED
        BY <4>2, <4>4, <4>5, <4>7
    <3>5. BlockOK(a)'
      BY <1>4, <1>8, <3>2, <3>4 DEF BlockOK
    <3>6. blocks'[i] = a
      BY <1>3, <3>1
    <3>7. QED
      BY <3>5, <3>6
  <2>2. QED
    BY <1>3, <1>4, <2>1 DEF SpectrumInv, BlocksOK
<1>11. MadeOK'
  BY <1>3, <1>4, <1>8 DEF SpectrumInv, MadeOK, BlocksWhole
<1>12. HeardOK'
  <2>1. \A x \in heard' : x < Horizon'
    BY <1>4 DEF SpectrumInv, HeardOK
  <2>2. available - 1 \in Period(frame) /\ available - 1 < Horizon
    <3>1. Period(frame) = FrameStart .. FrameStart + engine.frame_pairs - 1
      BY <1>5, <1>6, PeriodIs DEF FrameStart
    <3>2. QED
      BY <1>1, <1>6, <3>1
  <2>3. available - 1 \notin heard
    <3>1. PICK h \in 0 .. available - 1 : Unheard(h, available - 1)
      BY <1>1
    <3>2. available - 1 \in h .. available - 1
      BY <1>1, <3>1
    <3>3. QED
      BY <3>1, <3>2 DEF Unheard
  <2>4. \E x \in Period(frame)' : x \notin heard' /\ x < Horizon'
    BY <1>3, <1>4, <2>2, <2>3
  <2>5. ~(Position' < available')
    BY <1>1, <1>2, <1>6, <1>7, <1>8
  <2>6. current' # NoBatch
    BY <1>1, <1>2
  <2>7. QED
    BY <2>1, <2>4, <2>5, <2>6 DEF HeardOK
<1>13. SpectrumInv'
  BY <1>4, <1>9, <1>10, <1>11, <1>12 DEF SpectrumInv
<1>14. WholeStep /\ RiseStep
  BY <1>3, <1>5 DEF WholeStep, RiseStep
<1>15. QED
  BY <1>11, <1>13, <1>14 DEF MadeOK

LEMMA SkipKeeps ==
    ASSUME SpectrumInv, Skip
    PROVE  SpectrumInv' /\ WholeStep /\ RiseStep /\ BlocksWhole'
<1>1. available \in Nat /\ Configured
  BY Behind
<1>2. /\ engine \in Engines /\ frame \in Nat /\ engine.size > 0 /\ engine.size <= engine.frame_pairs
  BY <1>1 DEF SpectrumInv, SpectrumTypeOK, EngineOK
<1>3. engine.frame_pairs \in Nat /\ engine.frame_pairs > 0 /\ engine.per_frame \in Nat /\ FrameStart \in Nat
  BY <1>2, EngineIs, SpectrumPlaces
<1>4. CASE available >= FrameStart + engine.frame_pairs
  <2>1. PICK n \in Nat : /\ n = available \div engine.frame_pairs /\ n * engine.frame_pairs <= available
                         /\ available < n * engine.frame_pairs + engine.frame_pairs
    BY <1>1, <1>3, Divided
  <2>2. n > frame
    BY <1>1, <1>2, <1>3, <1>4, <2>1, Product DEF FrameStart
  <2>3. NextFrame(n)
    BY <1>4, <2>1 DEF Skip
  <2>4. QED
    BY <2>1, <2>2, <2>3, SkipFrame
<1>5. CASE ~(available >= FrameStart + engine.frame_pairs)
  <2>1. available < FrameStart + engine.frame_pairs
    BY <1>1, <1>3, <1>5
  <2>2. CASE NextSlot >= engine.per_frame
    <3>1. NextFrame(frame + 1)
      BY <1>5, <2>2 DEF Skip
    <3>2. (frame + 1) * engine.frame_pairs = FrameStart + engine.frame_pairs
      BY <1>2, <1>3, Multiples DEF FrameStart
    <3>3. frame + 1 \in Nat /\ frame + 1 > frame /\ available < (frame + 1) * engine.frame_pairs
      BY <1>2, <2>1, <3>2
    <3>4. QED
      BY <3>1, <3>3, SkipFrame
  <2>3. CASE ~(NextSlot >= engine.per_frame)
    <3>1. slot' = NextSlot /\ UNCHANGED <<frame, blocks, made>>
      BY <1>5, <2>3 DEF Skip
    <3>2. NextSlot < engine.per_frame
      <4>1. engine.stride \in Nat /\ engine.stride # 0
        BY <1>2, <1>3, <2>3, EngineIs DEF NextSlot
      <4>2. NextSlot \in Int
        BY <1>1, <1>3, <4>1 DEF NextSlot
      <4>3. QED
        BY <1>3, <2>3, <4>2
    <3>3. QED
      BY <2>1, <3>1, <3>2, SkipSlots
  <2>4. QED
    BY <2>2, <2>3
<1>6. QED
  BY <1>4, <1>5

-----------------------------------------------------------------------------
(* What is read, of the batch and of the tail of the one before.           *)
Reachable(p) ==
    IF current.first - p <= 0 THEN SubSeq(current.samples, 1 - (current.first - p), Len(current.samples))
    ELSE SubSeq(carry, Len(carry) - (current.first - p) + 1, Len(carry)) \o current.samples

LEMMA Working ==
    ASSUME SpectrumInv, current # NoBatch
    PROVE  /\ current.samples \in Seq(Sample) /\ carry \in Seq(Sample) /\ current.first \in Nat /\ carry_first \in Nat
           /\ Len(current.samples) \in Nat /\ Len(current.samples) > 0 /\ Len(carry) \in Nat
           /\ End = current.first + Len(current.samples) /\ End \in Nat /\ available \in Nat /\ available <= End
           /\ Samples(current.samples, engine.run, current.first) /\ Samples(carry, engine.run, carry_first)
           /\ IF carry = <<>> THEN available = current.first
              ELSE available = carry_first /\ carry_first + Len(carry) = current.first
           /\ engine.run \in Nat /\ engine.size \in Nat /\ engine.size > 0 /\ Configured
<1>1. /\ carry \in Seq(Sample) /\ carry_first \in Nat /\ available \in Nat /\ current \in SpectrumBatches /\ engine \in Engines
  BY DEF SpectrumInv, SpectrumTypeOK
<1>2. /\ Samples(carry, engine.run, carry_first) /\ WholeBatch(current) /\ current.run = engine.run
      /\ IF carry = <<>> THEN available = current.first
         ELSE available = carry_first /\ carry_first + Len(carry) = current.first
  BY DEF SpectrumInv, CurrentOK
<1>3. /\ current.samples \in Seq(Sample) /\ current.first \in Nat /\ Len(current.samples) \in Nat
      /\ Len(current.samples) > 0 /\ Samples(current.samples, engine.run, current.first)
  BY <1>1, <1>2, BatchIs DEF WholeBatch
<1>4. Len(carry) \in Nat
  BY <1>1
<1>5. End = current.first + Len(current.samples) /\ End \in Nat
  BY <1>3 DEF End
<1>6. available <= End
  BY <1>1, <1>2, <1>3, <1>4, <1>5
<1>7. engine.run \in Nat /\ engine.size \in Nat /\ engine.size > 0 /\ Configured
  BY <1>1, EngineIs DEF SpectrumInv, EngineOK
<1>8. QED
  BY <1>1, <1>2, <1>3, <1>4, <1>5, <1>6, <1>7

LEMMA FromPlace ==
    ASSUME NEW s \in Seq(Sample), NEW c \in Seq(Sample), NEW r \in Nat, NEW first \in Nat, NEW low \in Nat,
           Samples(s, r, first), Samples(c, r, low), NEW p \in Nat, p <= first + Len(s),
           p >= first \/ (p >= low /\ low + Len(c) = first)
    PROVE  LET t == IF first - p <= 0 THEN SubSeq(s, 1 - (first - p), Len(s))
                    ELSE SubSeq(c, Len(c) - (first - p) + 1, Len(c)) \o s
           IN  t \in Seq(Sample) /\ Len(t) = first + Len(s) - p /\ Samples(t, r, p)
<1>1. Len(s) \in Nat /\ Len(c) \in Nat
  OBVIOUS
<1>2. CASE p >= first
  <2>1. PICK m \in Nat : m = p - first + 1
    BY <1>2
  <2>2. /\ m \in 1 .. Len(s) + 1 /\ Len(s) \in m - 1 .. Len(s) /\ first + m - 1 = p
        /\ Len(s) - m + 1 = first + Len(s) - p /\ m = 1 - (first - p) /\ first - p <= 0
    BY <1>1, <1>2, <2>1
  <2>3. LET t == SubSeq(s, m, Len(s))
        IN  t \in Seq(Sample) /\ Len(t) = Len(s) - m + 1 /\ Samples(t, r, first + m - 1)
    BY <2>2, CutOut
  <2>4. QED
    BY <2>2, <2>3
<1>3. CASE ~(p >= first)
  <2>1. p >= low /\ low + Len(c) = first /\ p < first
    BY <1>3
  <2>2. PICK m \in Nat : m = p - low + 1
    BY <2>1
  <2>3. /\ m \in 1 .. Len(c) + 1 /\ Len(c) \in m - 1 .. Len(c) /\ low + m - 1 = p
        /\ Len(c) - m + 1 = first - p /\ m = Len(c) - (first - p) + 1 /\ ~(first - p <= 0)
    BY <1>1, <2>1, <2>2
  <2>4. PICK t \in Seq(Sample) : t = SubSeq(c, m, Len(c)) /\ Len(t) = first - p /\ Samples(t, r, p)
    <3>1. LET t == SubSeq(c, m, Len(c))
          IN  t \in Seq(Sample) /\ Len(t) = Len(c) - m + 1 /\ Samples(t, r, low + m - 1)
      BY <2>3, CutOut
    <3>2. QED
      BY <2>3, <3>1
  <2>5. p + Len(t) = first
    BY <2>4
  <2>6. t \o s \in Seq(Sample) /\ Len(t \o s) = Len(t) + Len(s) /\ Samples(t \o s, r, p)
    <3>1. Samples(s, r, p + Len(t))
      BY <2>5
    <3>2. QED
      BY <2>4, <3>1, PutTogether
  <2>7. Len(t) + Len(s) = first + Len(s) - p
    BY <1>1, <2>4
  <2>8. QED
    BY <2>3, <2>4, <2>6, <2>7
<1>4. QED
  BY <1>2, <1>3

LEMMA ReachableIs ==
    ASSUME SpectrumInv, current # NoBatch, NEW p \in Nat, available <= p, p <= End
    PROVE  /\ Reachable(p) \in Seq(Sample) /\ Len(Reachable(p)) = End - p
           /\ Samples(Reachable(p), engine.run, p)
<1>1. PICK s \in Seq(Sample), c \in Seq(Sample), r \in Nat, first \in Nat, low \in Nat :
        /\ s = current.samples /\ c = carry /\ r = engine.run /\ first = current.first /\ low = carry_first
        /\ Samples(s, r, first) /\ Samples(c, r, low) /\ End = first + Len(s)
        /\ IF c = <<>> THEN available = first ELSE available = low /\ low + Len(c) = first
  BY Working
<1>2. p <= first + Len(s) /\ (p >= first \/ (p >= low /\ low + Len(c) = first))
  <2>1. p <= first + Len(s)
    BY <1>1
  <2>2. available = first \/ (available = low /\ low + Len(c) = first)
    BY <1>1
  <2>3. QED
    BY <2>1, <2>2
<1>3. LET t == IF first - p <= 0 THEN SubSeq(s, 1 - (first - p), Len(s))
               ELSE SubSeq(c, Len(c) - (first - p) + 1, Len(c)) \o s
      IN  t \in Seq(Sample) /\ Len(t) = first + Len(s) - p /\ Samples(t, r, p)
  <2>1. Samples(s, r, first) /\ Samples(c, r, low)
    BY <1>1
  <2>2. QED
    BY <1>2, <2>1, FromPlace
<1>4. Reachable(p) = IF first - p <= 0 THEN SubSeq(s, 1 - (first - p), Len(s))
                     ELSE SubSeq(c, Len(c) - (first - p) + 1, Len(c)) \o s
  BY <1>1 DEF Reachable
<1>5. Reachable(p) \in Seq(Sample) /\ Len(Reachable(p)) = first + Len(s) - p /\ Samples(Reachable(p), r, p)
  BY <1>3, <1>4, Zenon
<1>6. QED
  BY <1>1, <1>5

LEMMA BlockReadIs ==
    ASSUME SpectrumInv, current # NoBatch, Position >= available, Position + engine.size <= End
    PROVE  /\ BlockRead \in Seq(Sample) /\ Len(BlockRead) = engine.size
           /\ Samples(BlockRead, engine.run, Position) /\ From(BlockRead) = Position
<1>1. /\ Position \in Nat /\ engine.size \in Nat /\ engine.size > 0 /\ engine.run \in Nat /\ available \in Nat /\ End \in Nat
  BY Working, SpectrumPlaces
<1>2. PICK all \in Seq(Sample) : all = Reachable(Position) /\ Len(all) = End - Position /\ Samples(all, engine.run, Position)
  BY <1>1, ReachableIs
<1>3. BlockRead = SubSeq(all, 1, engine.size)
  BY <1>2 DEF BlockRead, Reachable
<1>4. 1 \in 1 .. Len(all) + 1 /\ engine.size \in 1 - 1 .. Len(all) /\ Position + 1 - 1 = Position
      /\ engine.size - 1 + 1 = engine.size
  BY <1>1, <1>2
<1>5. LET t == SubSeq(all, 1, engine.size)
      IN  t \in Seq(Sample) /\ Len(t) = engine.size - 1 + 1 /\ Samples(t, engine.run, Position + 1 - 1)
  BY <1>1, <1>2, <1>4, CutOut
<1>6. PICK t \in Seq(Sample) : t = BlockRead /\ Len(t) = engine.size /\ Samples(t, engine.run, Position)
  BY <1>3, <1>4, <1>5
<1>7. 1 \in 1 .. Len(t)
  BY <1>1, <1>6
<1>8. t[1] = <<engine.run, Position + 1 - 1>>
  BY <1>6, <1>7 DEF Samples
<1>9. From(t) = Position
  BY <1>4, <1>8 DEF From
<1>10. QED
  BY <1>6, <1>9

\* The blocks with the one just read.
LEMMA Grown ==
    ASSUME SpectrumInv, Transform
    PROVE  \E w \in Seq(Seq(Sample)) :
             /\ w = Append(blocks, BlockRead) /\ w # <<>> /\ Len(w) = Len(blocks) + 1
             /\ \A b \in 1 .. Len(w) :
                   /\ Len(w[b]) = engine.size /\ Samples(w[b], engine.run, From(w[b]))
                   /\ From(w[b]) >= FrameStart
                   /\ From(w[b]) + engine.size <= FrameStart + engine.frame_pairs
                   /\ From(w[b]) + engine.size <= Horizon
                   /\ From(w[b]) \in Nat /\ From(w[b]) <= Position
             /\ \A b \in 2 .. Len(w) : From(w[b - 1]) + engine.stride <= From(w[b])
<1>1. current # NoBatch /\ Position >= available /\ Position + engine.size <= End
  BY DEF Transform
<1>2. PICK r \in Seq(Sample) : /\ r = BlockRead /\ Len(r) = engine.size /\ Samples(r, engine.run, Position)
                               /\ From(r) = Position
  BY <1>1, BlockReadIs
<1>3. /\ Position \in Nat /\ FrameStart \in Nat /\ FrameStart <= Position /\ Horizon = End
      /\ Position + engine.size <= FrameStart + engine.frame_pairs
      /\ engine.size \in Nat /\ engine.size > 0
  BY <1>1, SpectrumPlaces, Working
<1>4. engine.stride \in Nat
  BY EngineIs DEF SpectrumInv, SpectrumTypeOK
<1>5. PICK v \in Seq(Seq(Sample)) : v = blocks
  BY DEF SpectrumInv, SpectrumTypeOK
<1>6. PICK w \in Seq(Seq(Sample)) : w = Append(v, r) /\ Len(w) = Len(v) + 1 /\ w[Len(v) + 1] = r
                                    /\ \A i \in 1 .. Len(v) : w[i] = v[i]
  <2>1. /\ Append(v, r) \in Seq(Seq(Sample)) /\ Len(Append(v, r)) = Len(v) + 1 /\ Append(v, r)[Len(v) + 1] = r
        /\ \A i \in 1 .. Len(v) : Append(v, r)[i] = v[i]
    OBVIOUS
  <2>2. QED
    BY <2>1, Zenon
<1>7. Len(v) \in Nat /\ w # <<>>
  BY <1>6
<1>8. ASSUME NEW b \in 1 .. Len(v)
      PROVE  /\ Len(v[b]) = engine.size /\ Samples(v[b], engine.run, From(v[b]))
             /\ From(v[b]) >= FrameStart
             /\ From(v[b]) + engine.size <= FrameStart + engine.frame_pairs
             /\ From(v[b]) + engine.size <= Horizon
             /\ From(v[b]) \in Nat /\ From(v[b]) + engine.stride <= Position
  <2>1. PICK a \in Seq(Sample) : a = v[b]
    OBVIOUS
  <2>2. BlockOK(a)
    BY <1>5, <2>1 DEF SpectrumInv, BlocksOK
  <2>3. From(a) \in Nat
    <3>1. Len(a) = engine.size
      BY <2>2 DEF BlockOK
    <3>2. a[1] \in Sample
      BY <1>3, <3>1
    <3>3. QED
      BY <3>2 DEF From, Sample
  <2>4. QED
    BY <2>1, <2>2, <2>3 DEF BlockOK
<1>9. ASSUME NEW b \in 1 .. Len(w)
      PROVE  /\ Len(w[b]) = engine.size /\ Samples(w[b], engine.run, From(w[b]))
             /\ From(w[b]) >= FrameStart
             /\ From(w[b]) + engine.size <= FrameStart + engine.frame_pairs
             /\ From(w[b]) + engine.size <= Horizon
             /\ From(w[b]) \in Nat /\ From(w[b]) <= Position
  <2>1. CASE b \in 1 .. Len(v)
    <3>1. w[b] = v[b] /\ From(v[b]) \in Nat /\ From(v[b]) + engine.stride <= Position
      BY <1>6, <1>8, <2>1
    <3>2. From(v[b]) <= Position
      BY <1>3, <1>4, <3>1
    <3>3. QED
      BY <1>8, <2>1, <3>1, <3>2
  <2>2. CASE b \notin 1 .. Len(v)
    <3>1. w[b] = r
      BY <1>6, <1>7, <2>2
    <3>2. QED
      BY <1>1, <1>2, <1>3, <3>1
  <2>3. QED
    BY <2>1, <2>2
<1>10. ASSUME NEW b \in 2 .. Len(w) PROVE From(w[b - 1]) + engine.stride <= From(w[b])
  <2>1. b - 1 \in 1 .. Len(v) /\ w[b - 1] = v[b - 1]
    BY <1>6, <1>7
  <2>2. CASE b \in 1 .. Len(v)
    <3>1. w[b] = v[b] /\ b \in 2 .. Len(v)
      BY <1>6, <1>7, <2>2
    <3>2. QED
      BY <1>5, <2>1, <3>1 DEF SpectrumInv, BlocksOK
  <2>3. CASE b \notin 1 .. Len(v)
    <3>1. w[b] = r
      BY <1>6, <1>7, <2>3
    <3>2. QED
      BY <1>2, <1>8, <2>1, <3>1
  <2>4. QED
    BY <2>2, <2>3
<1>11. QED
  BY <1>2, <1>5, <1>6, <1>7, <1>9, <1>10

\* The last block of a frame.
LEMMA LastBlock ==
    ASSUME SpectrumInv, Transform, slot + 1 = engine.per_frame
    PROVE  SpectrumInv' /\ WholeStep /\ RiseStep /\ BlocksWhole'
<1>1. /\ current # NoBatch /\ Position >= available /\ Position + engine.size <= End
      /\ made' = [run |-> engine.run, index |-> FrameStart, of |-> engine, blocks |-> Append(blocks, BlockRead)]
      /\ blocks' = <<>> /\ frame' = frame + 1 /\ slot' = 0
      /\ UNCHANGED <<current, available, carry, carry_first>> /\ ProcessStays
  BY DEF Transform
<1>2. PICK w \in Seq(Seq(Sample)) :
             /\ w = Append(blocks, BlockRead) /\ w # <<>> /\ Len(w) = Len(blocks) + 1
             /\ \A b \in 1 .. Len(w) :
                   /\ Len(w[b]) = engine.size /\ Samples(w[b], engine.run, From(w[b]))
                   /\ From(w[b]) >= FrameStart
                   /\ From(w[b]) + engine.size <= FrameStart + engine.frame_pairs
                   /\ From(w[b]) + engine.size <= Horizon
                   /\ From(w[b]) \in Nat /\ From(w[b]) <= Position
             /\ \A b \in 2 .. Len(w) : From(w[b - 1]) + engine.stride <= From(w[b])
  BY Grown
<1>3. /\ QueueOK' /\ CurrentOK' /\ Horizon' = Horizon /\ engine' = engine /\ Configured' /\ Configured
      /\ (\A x : Period(x)' = Period(x)) /\ heard' = heard
  BY <1>1, ProcessKeeps
<1>4. /\ engine \in Engines /\ frame \in Nat /\ slot \in Nat /\ engine.size > 0 /\ engine.size <= engine.frame_pairs
      /\ blocks \in Seq(Seq(Sample))
  BY <1>3 DEF SpectrumInv, SpectrumTypeOK, EngineOK
<1>5. /\ engine.frame_pairs \in Nat /\ engine.frame_pairs > 0 /\ engine.per_frame \in Nat /\ engine.stride \in Nat
      /\ FrameStart \in Nat /\ Position \in Nat /\ engine.size \in Nat /\ available \in Nat /\ Len(blocks) \in Nat
      /\ Position + engine.size <= FrameStart + engine.frame_pairs
  <2>1. /\ engine.frame_pairs \in Nat /\ engine.per_frame \in Nat /\ engine.stride \in Nat /\ engine.size \in Nat
    BY <1>4, EngineIs
  <2>2. /\ FrameStart \in Nat /\ Position \in Nat /\ Position + engine.size <= FrameStart + engine.frame_pairs
    BY <1>3, SpectrumPlaces
  <2>3. available \in Nat /\ Len(blocks) \in Nat
    BY <1>1, <1>4, Working
  <2>4. QED
    BY <1>4, <2>1, <2>2, <2>3
<1>6. FrameStart' = FrameStart + engine.frame_pairs /\ Position' = FrameStart + engine.frame_pairs
  <2>1. 0 * engine.stride = 0
    BY <1>5
  <2>2. (frame + 1) * engine.frame_pairs = FrameStart + engine.frame_pairs
    BY <1>4, <1>5, Multiples DEF FrameStart
  <2>3. QED
    BY <1>1, <1>3, <1>5, <2>1, <2>2 DEF FrameStart, Position
<1>7. MadeOK' /\ made' \in FramesMade /\ made' # NoBatch
  <2>1. PICK start \in Nat : start = FrameStart + engine.frame_pairs /\ FrameStart < start
    BY <1>5
  <2>2. made' = [run |-> engine.run, index |-> FrameStart, of |-> engine, blocks |-> w]
    BY <1>1, <1>2
  <2>3. FrameStart' = start
    BY <1>6, <2>1
  <2>4. QED
    BY <1>2, <1>3, <2>1, <2>2, <2>3, FrameOf
<1>8. Len(<<>>) = 0 /\ \A i \in 1 .. Len(<<>>) : FALSE
  OBVIOUS
<1>9. BlocksOK'
  BY <1>1, <1>8 DEF BlocksOK
<1>10. SpectrumTypeOK' /\ EngineOK'
  <2>1. slot' < engine.per_frame /\ frame' \in Nat /\ slot' \in Nat /\ blocks' \in Seq(Seq(Sample))
    BY <1>1, <1>4, <1>5
  <2>2. QED
    BY <1>1, <1>7, <2>1, ProcessKeeps
<1>11. HeardOK'
  <2>1. \A x \in heard' : x < Horizon'
    BY <1>3 DEF SpectrumInv, HeardOK
  <2>2. slot' = Len(blocks')
    BY <1>1, <1>8
  <2>3. ~(Position' < available')
    BY <1>1, <1>4, <1>5, <1>6
  <2>4. current' # NoBatch
    BY <1>1
  <2>5. QED
    BY <2>1, <2>2, <2>3, <2>4 DEF HeardOK
<1>12. WholeStep
  <2>1. ASSUME NEW f \in frame .. frame' - 1, Period(f) \subseteq heard
        PROVE  /\ made' # NoBatch /\ made'.index = f * engine.frame_pairs
               /\ Len(made'.blocks) = engine.per_frame
    <3>1. f = frame
      BY <1>1, <1>4
    <3>2. slot = Len(blocks)
      BY <2>1, <3>1 DEF SpectrumInv, HeardOK
    <3>3. made'.index = FrameStart /\ made'.blocks = w
      BY <1>1, <1>2
    <3>4. QED
      BY <1>2, <1>7, <3>1, <3>2, <3>3 DEF FrameStart
  <2>2. QED
    BY <2>1 DEF WholeStep
<1>13. RiseStep
  <2>1. made'.run = engine.run /\ made'.index = FrameStart
    BY <1>1
  <2>2. QED
    BY <2>1, Rises
<1>14. QED
  BY <1>3, <1>7, <1>9, <1>10, <1>11, <1>12, <1>13 DEF SpectrumInv, MadeOK

\* Any other block.
LEMMA OneMoreBlock ==
    ASSUME SpectrumInv, Transform, slot + 1 # engine.per_frame
    PROVE  SpectrumInv' /\ WholeStep /\ RiseStep /\ BlocksWhole'
<1>1. /\ current # NoBatch /\ Position >= available
      /\ blocks' = Append(blocks, BlockRead) /\ slot' = slot + 1 /\ frame' = frame /\ made' = made
      /\ UNCHANGED <<current, available, carry, carry_first>> /\ ProcessStays
  BY DEF Transform
<1>2. PICK w \in Seq(Seq(Sample)) :
             /\ w = Append(blocks, BlockRead) /\ w # <<>> /\ Len(w) = Len(blocks) + 1
             /\ \A b \in 1 .. Len(w) :
                   /\ Len(w[b]) = engine.size /\ Samples(w[b], engine.run, From(w[b]))
                   /\ From(w[b]) >= FrameStart
                   /\ From(w[b]) + engine.size <= FrameStart + engine.frame_pairs
                   /\ From(w[b]) + engine.size <= Horizon
                   /\ From(w[b]) \in Nat /\ From(w[b]) <= Position
             /\ \A b \in 2 .. Len(w) : From(w[b - 1]) + engine.stride <= From(w[b])
  BY Grown
<1>3. /\ QueueOK' /\ CurrentOK' /\ Horizon' = Horizon /\ engine' = engine /\ Configured' /\ Configured
      /\ (\A x : Period(x)' = Period(x)) /\ heard' = heard
  BY <1>1, ProcessKeeps
<1>4. /\ engine \in Engines /\ frame \in Nat /\ slot \in Nat /\ slot < engine.per_frame
      /\ blocks \in Seq(Seq(Sample)) /\ made \in FramesMade \cup {NoBatch}
  BY <1>3 DEF SpectrumInv, SpectrumTypeOK, EngineOK
<1>5. /\ engine.per_frame \in Nat /\ engine.stride \in Nat
      /\ FrameStart \in Nat /\ Position \in Nat /\ available \in Nat /\ Len(blocks) \in Nat
  BY <1>1, <1>4, EngineIs, SpectrumPlaces, Working
<1>6. FrameStart' = FrameStart /\ Position' = Position + engine.stride
  <2>1. (slot + 1) * engine.stride = slot * engine.stride + engine.stride /\ slot * engine.stride \in Nat
    BY <1>4, <1>5, Multiples
  <2>2. FrameStart' = FrameStart
    BY <1>1, <1>3 DEF FrameStart
  <2>3. Position' = FrameStart + (slot + 1) * engine.stride /\ Position = FrameStart + slot * engine.stride
    BY <1>1, <1>3, <2>2 DEF Position
  <2>4. QED
    BY <1>5, <2>1, <2>2, <2>3
<1>7. SpectrumTypeOK' /\ EngineOK'
  <2>1. slot' < engine.per_frame /\ frame' \in Nat /\ slot' \in Nat
    BY <1>1, <1>4, <1>5
  <2>2. blocks' \in Seq(Seq(Sample)) /\ made' \in FramesMade \cup {NoBatch}
    BY <1>1, <1>2, <1>4
  <2>3. QED
    BY <1>1, <2>1, <2>2, ProcessKeeps
<1>8. BlocksOK'
  <2>1. ASSUME NEW b \in 1 .. Len(w) PROVE BlockOK(w[b])'
    <3>1. From(w[b]) + engine.stride <= Position + engine.stride
      BY <1>2, <1>5
    <3>2. QED
      BY <1>2, <1>3, <1>6, <3>1 DEF BlockOK
  <2>2. blocks' = w
    BY <1>1, <1>2
  <2>3. QED
    BY <1>2, <1>3, <2>1, <2>2 DEF BlocksOK
<1>9. MadeOK'
  BY <1>1, <1>3, <1>6 DEF SpectrumInv, MadeOK, BlocksWhole
<1>10. HeardOK'
  <2>1. \A x \in heard' : x < Horizon'
    BY <1>3 DEF SpectrumInv, HeardOK
  <2>2. slot' # Len(blocks') => \E x \in Period(frame)' : x \notin heard' /\ x < Horizon'
    <3>1. slot' # Len(blocks') => slot # Len(blocks)
      BY <1>1, <1>2, <1>4, <1>5
    <3>2. Period(frame)' = Period(frame)
      BY <1>1, <1>3 DEF Period
    <3>3. QED
      BY <1>3, <3>1, <3>2 DEF SpectrumInv, HeardOK
  <2>3. ~(Position' < available')
    BY <1>1, <1>5, <1>6
  <2>4. current' # NoBatch
    BY <1>1
  <2>5. QED
    BY <2>1, <2>2, <2>3, <2>4 DEF HeardOK
<1>11. WholeStep /\ RiseStep
  BY <1>1, <1>4 DEF WholeStep, RiseStep
<1>12. QED
  BY <1>3, <1>7, <1>8, <1>9, <1>10, <1>11 DEF SpectrumInv, MadeOK

-----------------------------------------------------------------------------
(* The batch is worked off, and its tail kept.                             *)
LEMMA KeepTailKeeps ==
    ASSUME SpectrumInv, KeepTail
    PROVE  SpectrumInv' /\ frame' = frame /\ made' = made
<1>1. /\ current # NoBatch /\ Position >= available /\ Position + engine.size > End
      /\ carry_first' = End - KeptTail /\ current' = NoBatch /\ available' = 0
      /\ frame' = frame /\ slot' = slot /\ blocks' = blocks /\ made' = made
      /\ run' = run /\ next' = next /\ wanted' = wanted /\ version' = version /\ queue' = queue
      /\ engine' = engine /\ heard' = heard
  BY DEF KeepTail, accumulator, ProcessStays, producer
<1>2. /\ current.first \in Nat /\ Len(current.samples) \in Nat /\ Len(carry) \in Nat
      /\ End = current.first + Len(current.samples) /\ End \in Nat /\ available \in Nat /\ available <= End
      /\ engine.run \in Nat /\ engine.size \in Nat /\ engine.size > 0 /\ Configured
  BY <1>1, Working
<1>3. Position \in Nat /\ FrameStart \in Nat /\ Horizon = End
  BY <1>1, SpectrumPlaces
<1>4. /\ KeptTail \in Nat /\ KeptTail <= End - available /\ KeptTail <= engine.size - 1
      /\ KeptTail = engine.size - 1 \/ KeptTail = End - available
  <2>1. engine.size - 1 \in Nat /\ End - available \in Nat
    BY <1>2
  <2>2. QED
    BY <2>1, LesserOf DEF KeptTail
<1>5. PICK p \in Nat : p = End - KeptTail /\ available <= p /\ p <= End /\ p <= Position
  <2>1. PICK k \in Nat, e \in Nat, a \in Nat, x \in Nat, n \in Nat :
               k = KeptTail /\ e = End /\ a = available /\ x = Position /\ n = engine.size
    BY <1>2, <1>3, <1>4
  <2>2. a <= e /\ x >= a /\ x + n > e /\ k <= e - a /\ (k = n - 1 \/ k = e - a)
    BY <1>1, <1>2, <1>4, <2>1
  <2>3. e - k \in Nat /\ a <= e - k /\ e - k <= e /\ e - k <= x
    BY ONLY <2>2
  <2>4. QED
    BY <2>1, <2>3
<1>20. PICK k \in Nat, e \in Nat, first \in Nat, n \in Nat :
          /\ k = KeptTail /\ e = End /\ first = current.first /\ n = Len(current.samples)
          /\ e = first + n /\ p = e - k
  BY <1>2, <1>4, <1>5
<1>21. p = (first + n) - k
  BY <1>20
<1>6. Reachable(p) \in Seq(Sample) /\ Len(Reachable(p)) = End - p /\ Samples(Reachable(p), engine.run, p)
  BY <1>1, <1>5, ReachableIs
<1>7. carry' = Reachable(p)
  <2>1. CASE KeptTail <= Len(current.samples)
    <3>1. carry' = SubSeq(current.samples, Len(current.samples) - KeptTail + 1, Len(current.samples))
      BY <2>1 DEF KeepTail
    <3>2. current.first - p <= 0 /\ Len(current.samples) - KeptTail + 1 = 1 - (current.first - p)
      <4>1. k <= n
        BY <1>20, <2>1
      <4>2. first - p <= 0 /\ n - k + 1 = 1 - (first - p)
        BY ONLY <1>21, <4>1
      <4>3. QED
        BY <1>20, <4>2
    <3>3. QED
      BY <3>1, <3>2 DEF Reachable
  <2>2. CASE ~(KeptTail <= Len(current.samples))
    <3>1. carry' = SubSeq(carry, Len(carry) - (KeptTail - Len(current.samples)) + 1, Len(carry)) \o current.samples
      BY <2>2 DEF KeepTail
    <3>2. ~(current.first - p <= 0) /\ KeptTail - Len(current.samples) = current.first - p
      <4>1. ~(k <= n)
        BY <1>20, <2>2
      <4>2. ~(first - p <= 0) /\ k - n = first - p
        BY ONLY <1>21, <4>1
      <4>3. QED
        BY <1>20, <4>2
    <3>3. QED
      BY <3>1, <3>2 DEF Reachable
  <2>3. QED
    BY <2>1, <2>2
<1>8. PICK c \in Seq(Sample) : c = carry' /\ Len(c) = End - p /\ Samples(c, engine.run, p)
  BY <1>6, <1>7, Zenon
<1>9. Horizon' = Horizon
  <2>1. Horizon' = p + Len(c)
    BY <1>1, <1>5, <1>8 DEF Horizon
  <2>2. QED
    BY <1>2, <1>3, <1>5, <1>8, <2>1
<1>10. /\ FrameStart' = FrameStart /\ Position' = Position /\ Configured' /\ \A x : Period(x)' = Period(x)
  BY <1>1, <1>2 DEF FrameStart, Position, Configured, Period
<1>11. SpectrumTypeOK'
  BY <1>1, <1>5, <1>8 DEF SpectrumInv, SpectrumTypeOK
<1>12. EngineOK'
  BY <1>1, <1>2, <1>9, <1>10 DEF SpectrumInv, EngineOK
<1>13. QueueOK'
  BY <1>1, <1>9 DEF SpectrumInv, QueueOK, Waiting, AheadOf, Before
<1>14. CurrentOK'
  BY <1>1, <1>5, <1>8 DEF CurrentOK
<1>15. BlocksOK'
  BY <1>1, <1>9, <1>10 DEF SpectrumInv, BlocksOK, BlockOK
<1>16. MadeOK'
  BY <1>1, <1>9, <1>10 DEF SpectrumInv, MadeOK, BlocksWhole
<1>17. HeardOK'
  <2>1. \A x \in heard' : x < Horizon'
    BY <1>1, <1>9 DEF SpectrumInv, HeardOK
  <2>2. slot' # Len(blocks') => \E x \in Period(frame)' : x \notin heard' /\ x < Horizon'
    <3>1. Period(frame)' = Period(frame)
      BY <1>1, <1>10 DEF Period
    <3>2. QED
      BY <1>1, <1>9, <3>1 DEF SpectrumInv, HeardOK
  <2>3. carry_first' <= Position' /\ Horizon' < Position' + (engine.size)'
    BY <1>1, <1>2, <1>3, <1>5, <1>9, <1>10
  <2>4. QED
    BY <1>1, <2>1, <2>2, <2>3 DEF HeardOK
<1>18. QED
  BY <1>1, <1>11, <1>12, <1>13, <1>14, <1>15, <1>16, <1>17 DEF SpectrumInv

-----------------------------------------------------------------------------
(* Every step.                                                             *)
LEMMA SpectrumStep ==
    ASSUME SpectrumInv, SpectrumNext
    PROVE  SpectrumInv' /\ (frame' = frame \/ WholeStep) /\ (made' = made \/ (RiseStep /\ BlocksWhole'))
<1>1. ASSUME NewRun PROVE SpectrumInv' /\ frame' = frame /\ made' = made
  BY <1>1, NewRunKeeps DEF NewRun, EngineStays, accumulator
<1>2. ASSUME NEW count \in BatchSizes, AddBatch(count) PROVE SpectrumInv' /\ frame' = frame /\ made' = made
  BY <1>2, AddKeeps DEF AddBatch, EngineStays, accumulator
<1>3. ASSUME NEW count \in BatchSizes, Lose(count) PROVE SpectrumInv' /\ frame' = frame /\ made' = made
  BY <1>3, LoseKeeps DEF Lose, EngineStays, accumulator
<1>4. ASSUME NEW s \in SpectrumSettings, ConfigureSpectrum(s) PROVE SpectrumInv' /\ frame' = frame /\ made' = made
  BY <1>4, ConfigureKeeps DEF ConfigureSpectrum, EngineStays, accumulator
<1>5. ASSUME Take PROVE SpectrumInv' /\ WholeStep /\ made' = made
  <2>1. made' = made
    BY <1>5 DEF Take
  <2>2. CASE StartsAnew
    BY <1>5, <2>1, <2>2, AnewKeeps DEF WholeStep
  <2>3. CASE ~StartsAnew
    <3>1. SpectrumInv' /\ frame' = frame
      BY <1>5, <2>3, TakeKeeps
    <3>2. frame \in Nat
      BY DEF SpectrumInv, SpectrumTypeOK
    <3>3. QED
      BY <2>1, <3>1, <3>2 DEF WholeStep
  <2>4. QED
    BY <2>2, <2>3
<1>6. ASSUME Skip PROVE SpectrumInv' /\ WholeStep /\ RiseStep /\ BlocksWhole'
  BY <1>6, SkipKeeps
<1>7. ASSUME Transform PROVE SpectrumInv' /\ WholeStep /\ RiseStep /\ BlocksWhole'
  BY <1>7, LastBlock, OneMoreBlock
<1>8. ASSUME KeepTail PROVE SpectrumInv' /\ frame' = frame /\ made' = made
  BY <1>8, KeepTailKeeps
<1>9. QED
  BY <1>1, <1>2, <1>3, <1>4, <1>5, <1>6, <1>7, <1>8 DEF SpectrumNext

LEMMA SpectrumIdle ==
    ASSUME SpectrumInv, UNCHANGED spectrum
    PROVE  SpectrumInv'
<1>1. /\ run' = run /\ next' = next /\ wanted' = wanted /\ version' = version /\ queue' = queue /\ EngineStays
  BY DEF spectrum, producer, EngineStays
<1>2. /\ CurrentOK' /\ BlocksOK' /\ MadeOK' /\ HeardOK' /\ Horizon' = Horizon /\ engine' = engine
      /\ Configured' = Configured
  BY <1>1, EngineKept
<1>3. SpectrumTypeOK'
  BY <1>1, EngineKept DEF SpectrumInv, SpectrumTypeOK
<1>4. EngineOK'
  BY <1>1, <1>2 DEF SpectrumInv, EngineOK, EngineStays, accumulator
<1>5. QueueOK'
  BY <1>1, <1>2 DEF SpectrumInv, QueueOK, Waiting, AheadOf, Before
<1>6. QED
  BY <1>2, <1>3, <1>4, <1>5 DEF SpectrumInv

(* The spectrum engine's invariant: what waits in the queue is behind what *)
(* the engine has taken, in order; the tail kept joins the batch in work;  *)
(* a slot without its block is one of a period of which a sample never     *)
(* came (host/src/spectrum.cpp, work and process).                         *)
THEOREM SpectrumInvariance == SpectrumSpec => []SpectrumInv
<1>1. SpectrumInit => SpectrumInv
  BY SpectrumStarts
<1>2. SpectrumInv /\ [SpectrumNext]_spectrum => SpectrumInv'
  BY SpectrumStep, SpectrumIdle
<1>3. QED
  BY <1>1, <1>2, PTL DEF SpectrumSpec

(* Every frame the engine makes is of whole blocks of consecutive samples, *)
(* at their places in its period; a period of which every sample reached   *)
(* the engine has its frame, of all its blocks; and frames follow each     *)
(* other: whatever is lost, however the batches fall and whenever runs and *)
(* settings change.                                                        *)
THEOREM FramesAlwaysInOrder == SpectrumSpec => FramesInOrder
<1>1. SpectrumInv /\ [SpectrumNext]_spectrum =>
          [BlocksWhole']_made /\ [WholeStep]_frame /\ [RiseStep]_made
  <2>1. ASSUME SpectrumInv, SpectrumNext PROVE [BlocksWhole']_made /\ [WholeStep]_frame /\ [RiseStep]_made
    BY <2>1, SpectrumStep
  <2>2. ASSUME UNCHANGED spectrum PROVE made' = made /\ frame' = frame
    BY <2>2 DEF spectrum, accumulator
  <2>3. QED
    BY <2>1, <2>2
<1>2. FramesInOrder <=> [][BlocksWhole']_made /\ [][WholeStep]_frame /\ [][RiseStep]_made
  BY DEF FramesInOrder, FramesWhole, FramesRise, WholeStep, RiseStep
<1>3. QED
  BY <1>1, <1>2, SpectrumInvariance, PTL DEF SpectrumSpec

=============================================================================
