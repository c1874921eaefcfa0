----------------------------- MODULE WebServer ------------------------------
(***************************************************************************)
(* The HTTP and WebSocket server (host/src/web.cpp) under what uses it:    *)
(* one thread, which handles events one by one and removes dead            *)
(* connections between them.  A peer connects, sends requests and, once    *)
(* upgraded, frames, takes what it is sent at its own pace, and may end or *)
(* reset the connection.  Input is handled item by item while peers go on. *)
(*                                                                         *)
(* A request is "get", "last", which is answered and closed after (as is   *)
(* one that is refused), or "ws".  A frame is a whole "text", the "begin"  *)
(* or the "end" of one, a "ping", or a "close", which stands for a wrong   *)
(* one too: both are answered by a close frame.  The handlers are those of *)
(* Serve, of which only `client_' matters here.                            *)
(***************************************************************************)
EXTENDS Integers, Sequences, FiniteSets, SequencesExt

CONSTANTS Connections,      \* their numbers, in the order they are made
          MaxActs           \* bound: what peers do, time-outs, and what the server sends of itself

ASSUME WebAssumption == Connections \subseteq Nat \ {0} /\ MaxActs \in Nat

VARIABLES
    connection,     \* what the server keeps of each
    busy, ended,    \* the connection whose input is being handled, and whether that was all
    client,         \* client_ of the handlers, 0: none
    arrived,        \* what a peer has sent and the server not read
    peer,           \* "open", "ended", "reset"
    wire,           \* what the socket has taken for the peer
    said, calls,    \* ghosts: all a peer has sent; the calls of the handlers for it
    left,           \* ghost: why a connection died
    acts            \* count, for the bound

web_vars == <<connection, busy, ended, client, arrived, peer, wire, said, calls, left, acts>>

Requests == {"get", "last", "ws"}
Frames == {"text", "begin", "end", "ping", "close"}
Fresh == [stage |-> "none", websocket |-> FALSE, closing |-> FALSE, draining |-> FALSE, dead |-> FALSE,
          input |-> <<>>, output |-> <<>>, begun |-> FALSE]

WebInit ==
    /\ connection = [c \in Connections |-> Fresh]
    /\ busy = 0 /\ ended = FALSE /\ client = 0
    /\ arrived = [c \in Connections |-> <<>>] /\ peer = [c \in Connections |-> "open"]
    /\ wire = [c \in Connections |-> <<>>] /\ said = [c \in Connections |-> <<>>]
    /\ calls = [c \in Connections |-> <<>>] /\ left = [c \in Connections |-> "no"]
    /\ acts = 0

Alive(c) == connection[c].stage = "served" /\ ~connection[c].dead       \* find

-----------------------------------------------------------------------------
(* The peers.                                                              *)
PeerStays == UNCHANGED <<arrived, peer, said>>
Act == acts < MaxActs /\ acts' = acts + 1
LoopStays == UNCHANGED <<connection, busy, ended, client, wire, calls, left>>

Connect(c) ==
    /\ connection[c].stage = "none" /\ \A d \in Connections : d < c => connection[d].stage # "none"
    /\ connection' = [connection EXCEPT ![c].stage = "served"]
    /\ UNCHANGED <<busy, ended, client, wire, calls, left, acts>> /\ PeerStays

(* Frames follow the 101; a text is whole or has a beginning and an end.   *)
Amid(sequence) ==
    \E i \in DOMAIN sequence :
        sequence[i] = "begin" /\ \A j \in DOMAIN sequence : j > i => sequence[j] \notin {"text", "end"}
MaySay(c, item) ==
    IF Contains(wire[c], "101")
    THEN /\ ~Contains(said[c], "close")
         /\ item \in {"ping", "close"} \cup (IF Amid(said[c]) THEN {"end"} ELSE {"text", "begin"})
    ELSE ~Contains(said[c], "ws") /\ item \in Requests
Say(c, item) ==
    /\ connection[c].stage = "served" /\ peer[c] = "open"
    /\ Act /\ MaySay(c, item)
    /\ said' = [said EXCEPT ![c] = Append(@, item)]
    /\ arrived' = [arrived EXCEPT ![c] = Append(@, item)]
    /\ UNCHANGED peer /\ LoopStays
Leave(c, how) ==
    /\ connection[c].stage = "served" /\ peer[c] = "open" /\ Act
    /\ peer' = [peer EXCEPT ![c] = how]
    /\ UNCHANGED <<arrived, said>> /\ LoopStays

-----------------------------------------------------------------------------
(* flush: what may have become of a connection with something to write.    *)
(* One that is shut for writing, or was reset, fails.  When a closing one  *)
(* has written everything it is shut for writing, and drained.  A socket   *)
(* takes all or nothing: the rest of what it takes in part goes later.     *)
Push(r, item) == [r EXCEPT !.output = Append(@, item)]
Flushed(c, r) ==
    IF r.output # <<>> /\ (r.draining \/ peer[c] = "reset")
    THEN {[r |-> [r EXCEPT !.dead = TRUE], taken |-> <<>>]}
    ELSE {[r |-> [r EXCEPT !.output = <<>>, !.draining = r.closing], taken |-> r.output],
          [r |-> r, taken |-> <<>>]}

(* The connections of the set become what `outcome' says.                  *)
Become(outcome) ==
    LET changed == DOMAIN outcome
        dies(c) == outcome[c].r.dead /\ ~connection[c].dead
    IN  /\ connection' = [c \in Connections |-> IF c \in changed THEN outcome[c].r ELSE connection[c]]
        /\ wire' = [c \in Connections |-> wire[c] \o (IF c \in changed THEN outcome[c].taken ELSE <<>>)]
        /\ left' = [c \in Connections |-> IF c \in changed /\ dies(c) THEN "unsent" ELSE left[c]]
Only(c, o) == [d \in {c} |-> o]
Written(c, r) == \E o \in Flushed(c, r) : Become(Only(c, o))

(* A connection dies of something else.                                    *)
Die(c, why) ==
    /\ connection' = [connection EXCEPT ![c].dead = TRUE]
    /\ left' = [left EXCEPT ![c] = why]

-----------------------------------------------------------------------------
(* receive: everything that has arrived, then its handling.                *)
Receive(c) ==
    /\ busy = 0 /\ Alive(c) /\ peer[c] # "reset"
    /\ arrived[c] # <<>> \/ peer[c] = "ended"
    /\ connection' = [connection EXCEPT ![c].input = IF connection[c].draining THEN @ ELSE @ \o arrived[c]]
    /\ arrived' = [arrived EXCEPT ![c] = <<>>]
    /\ busy' = c /\ ended' = (peer[c] = "ended")
    /\ UNCHANGED <<client, peer, wire, said, calls, left, acts>>

MoreIfOpen(c) ==            \* mutant: what came with the end is not handled
    busy = c /\ ~ended /\ Alive(c) /\ ~connection[c].closing /\ connection[c].input # <<>>
More(c) == busy = c /\ Alive(c) /\ ~connection[c].closing /\ connection[c].input # <<>>
Item(c) == Head(connection[c].input)
Taken(c) == [connection[c] EXCEPT !.input = Tail(@)]
StillBusy == UNCHANGED <<busy, ended, acts>> /\ PeerStays

(* handle_http                                                             *)
Respond(c) ==
    /\ More(c) /\ ~connection[c].websocket /\ Item(c) # "ws"
    /\ Written(c, Push([Taken(c) EXCEPT !.closing = Item(c) # "get"], "response"))
    /\ UNCHANGED <<client, calls>> /\ StillBusy

(* upgrade, and on_open of the handlers: the client before is closed.      *)
Closed(d) == [Push(connection[d], "close") EXCEPT !.closing = TRUE]
Upgrade(c) ==
    /\ More(c) /\ ~connection[c].websocket /\ Item(c) = "ws"
    /\ \E o \in Flushed(c, Push([Taken(c) EXCEPT !.websocket = TRUE], "101")) :
        IF o.r.dead THEN Become(Only(c, o)) /\ UNCHANGED <<client, calls>>
        ELSE /\ client' = c
             /\ calls' = [calls EXCEPT ![c] = Append(@, "open")]
             /\ \E h \in Flushed(c, Push(o.r, "text")) :
                LET opened == [h EXCEPT !.taken = o.taken \o @]
                IN  IF client # 0 /\ Alive(client)
                    THEN \E k \in Flushed(client, Closed(client)) :
                         Become([d \in {c, client} |-> IF d = c THEN opened ELSE k])
                    ELSE Become(Only(c, opened))
    /\ StillBusy

(* handle_frames.                                                          *)
Control(c) ==
    /\ More(c) /\ connection[c].websocket /\ Item(c) \in {"ping", "close"}
    /\ IF Item(c) = "ping" THEN Written(c, Push(Taken(c), "pong"))
       ELSE Written(c, [Push(Taken(c), "close") EXCEPT !.closing = TRUE])
    /\ UNCHANGED <<client, calls>> /\ StillBusy

Whole(c) == Item(c) \in {"text", "end"}
Data(c) ==
    /\ More(c) /\ connection[c].websocket /\ Item(c) \in {"text", "begin", "end"}
    /\ LET r == [Taken(c) EXCEPT !.begun = Item(c) = "begin"]
       IN  IF Whole(c) /\ client = c THEN Written(c, Push(r, "text"))     \* on_text answers
           ELSE Become(Only(c, [r |-> r, taken |-> <<>>]))
    /\ calls' = IF Whole(c) THEN [calls EXCEPT ![c] = Append(@, "text")] ELSE calls
    /\ UNCHANGED client /\ StillBusy

(* The end of receive.                                                     *)
Handled(c) ==
    /\ busy = c /\ ~More(c)
    /\ busy' = 0 /\ ended' = FALSE
    /\ IF ended /\ Alive(c) THEN Die(c, "ended") ELSE UNCHANGED <<connection, left>>
    /\ UNCHANGED <<client, wire, calls, acts>> /\ PeerStays

-----------------------------------------------------------------------------
(* The rest of the loop.                                                   *)
Idle == busy = 0 /\ UNCHANGED <<busy, ended>> /\ PeerStays
Writable(c) ==
    /\ Idle /\ Alive(c) /\ connection[c].output # <<>>
    /\ Written(c, connection[c])
    /\ UNCHANGED <<client, calls, acts>>
HangUp(c) ==
    /\ Idle /\ Alive(c)
    /\ peer[c] = "reset" \/ (peer[c] = "ended" /\ connection[c].draining)
    /\ Die(c, "ended")
    /\ UNCHANGED <<client, wire, calls, acts>>

(* A connection that drains for 2 s, or from which nothing comes for 40 s. *)
NeverExpired(c) == FALSE        \* mutant
Expired(c) == connection[c].draining
TimeOut(c) ==
    /\ Idle /\ Alive(c)
    /\ \/ Expired(c) /\ UNCHANGED acts
       \/ arrived[c] = <<>> /\ peer[c] = "open" /\ Act
    /\ Die(c, "timeout")
    /\ UNCHANGED <<client, wire, calls>>

(* A ping, and a status or a frame for the client.                         *)
Upgraded(c) == connection[c].websocket          \* mutant: although a close frame was sent
Writing(c) == connection[c].websocket /\ ~connection[c].closing
Tell(c, item) ==
    /\ Idle /\ Alive(c) /\ Writing(c)
    /\ item = "ping" \/ client = c
    /\ Act
    /\ Written(c, Push(connection[c], item))
    /\ UNCHANGED <<client, calls>>

(* reap: the dead ones are removed, then on_close is called for each.      *)
Dead == {c \in Connections : connection[c].stage = "served" /\ connection[c].dead}
KnownClosing(c) == connection[c].websocket /\ connection[c].closing     \* mutant
Known(c) == connection[c].websocket
Forgotten(f, gone) == [c \in Connections |-> IF c \in gone THEN <<>> ELSE f[c]]
Reap ==
    /\ busy = 0 /\ Dead # {}
    /\ connection' = [c \in Connections |-> IF c \in Dead THEN [Fresh EXCEPT !.stage = "removed"] ELSE connection[c]]
    /\ calls' = [c \in Connections |-> IF c \in Dead /\ Known(c) THEN Append(calls[c], "close") ELSE calls[c]]
    /\ client' = IF client \in Dead THEN 0 ELSE client
    /\ arrived' = Forgotten(arrived, Dead) /\ said' = Forgotten(said, Dead) /\ wire' = Forgotten(wire, Dead)
    /\ UNCHANGED <<busy, ended, peer, left, acts>>

Handle(c) == Respond(c) \/ Upgrade(c) \/ Control(c) \/ Data(c) \/ Handled(c)
WebNext ==
    \/ Reap
    \/ \E c \in Connections :
           \/ Connect(c) \/ (\E item \in Requests \cup Frames : Say(c, item)) \/ (\E how \in {"ended", "reset"} : Leave(c, how))
           \/ Receive(c) \/ Handle(c) \/ Writable(c) \/ HangUp(c) \/ TimeOut(c)
           \/ \E item \in {"ping", "text"} : Tell(c, item)

WebSpec == WebInit /\ [][WebNext]_web_vars

(* The loop goes on, and a peer that is there takes what it is sent.       *)
Drained(c) == connection[c].draining /\ TimeOut(c)
WrittenOut(c) == Writable(c) /\ connection'[c].output = <<>>

-----------------------------------------------------------------------------
(* The handlers hear of a WebSocket in order: it is opened once, its texts *)
(* follow, and when it is closed nothing does; the client served is one    *)
(* that is open.  One that fails within the upgrade is only closed, and    *)
(* on_close must not take it for the client.                               *)
HandlersInOrder ==
    \A c \in Connections :
        /\ \A i \in DOMAIN calls[c] :
               /\ calls[c][i] = "open" => i = 1
               /\ calls[c][i] = "text" => calls[c][1] = "open"
               /\ calls[c][i] = "close" => i = Len(calls[c]) /\ (i > 1 => calls[c][1] = "open")
        /\ client = c => calls[c] # <<>> /\ Last(calls[c]) # "close"
        /\ connection[c].stage = "removed" /\ calls[c] # <<>> => Last(calls[c]) = "close"

(* Nothing is invented, and what arrived with the end of the connection    *)
(* still counts (web.cpp 357): of a peer that ended it, in any state but   *)
(* that of being closed, every whole message has been handled.             *)
Wholes(sequence) == Cardinality({i \in DOMAIN sequence : sequence[i] \in {"text", "end"}})
MessagesCounted ==
    \A c \in Connections : connection[c].stage = "served" =>
        LET r == connection[c] IN
        /\ Wholes(calls[c]) <= Wholes(said[c])
        /\ r.dead /\ left[c] = "ended" /\ peer[c] = "ended" /\ ~r.closing =>
               IF r.websocket THEN Wholes(calls[c]) = Wholes(said[c])
               ELSE Len(wire[c]) + Len(r.output) = Len(said[c])

(* What a peer gets is in order: one response to a request, the 101, then  *)
(* frames, and behind a close frame no other kind of frame.                *)
WireInOrder ==
    \A c \in Connections :
        LET w == wire[c] IN
        /\ \A i, j \in DOMAIN w : i < j =>
               /\ w[i] # "response" => w[j] \notin {"response", "101"}
               /\ w[i] = "close" => w[j] = "close"
        /\ w # <<>> => w[1] \in {"response", "101"}

(* Input is handled and output sent once, and in order.                    *)
ServedInOrder == HandlersInOrder /\ MessagesCounted /\ WireInOrder

(* A connection that is being closed is gone in the end, whatever its peer *)
(* does, so that a client that was replaced is.                            *)
ClosingEnds == \A c \in Connections : connection[c].closing ~> connection[c].stage = "removed"
=============================================================================
