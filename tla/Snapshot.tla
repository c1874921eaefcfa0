------------------------------ MODULE Snapshot ------------------------------
(***************************************************************************)
(* Copies of a many-bit value in another clock domain (fpga/rtl/           *)
(* snapshot.v), which carry every FPGA statistic to the control port.  A   *)
(* request toggles across, the source loads `held` and answers, and the    *)
(* destination takes `held` once the answer has crossed back.              *)
(*                                                                         *)
(* The clocks tick in any order.  A register sampled on the edge at which  *)
(* it changes is read as its old or its new value, and a wide one as any   *)
(* mixture.  The source's value is a number that never decreases, like the *)
(* counters it stands for; a copy has such a number in each of its parts.  *)
(***************************************************************************)
EXTENDS Integers

CONSTANTS Parts,        \* the bits of the value that are read independently
          Values        \* the values the source goes through

ASSUME SnapshotAssumption == Values \subseteq Nat /\ 0 \in Values

VARIABLES
    source_value,
    held, acknowledge, request_meta, request_stable,            \* source domain
    value, request, acknowledge_meta, acknowledge_stable,       \* destination domain
    before,             \* what crosses, as it was before the latest edge of either clock
    asked, floor        \* ghosts: source_value at the last two requests

crossing == [held |-> held, acknowledge |-> acknowledge, request |-> request]
source == <<source_value, held, acknowledge, request_meta, request_stable>>
destination == <<value, request, acknowledge_meta, acknowledge_stable, asked, floor>>
snapshot == <<source, destination, before>>

SnapshotInit ==
    /\ source_value = 0 /\ held = 0 /\ acknowledge = FALSE
    /\ request_meta = FALSE /\ request_stable = FALSE
    /\ value = [p \in Parts |-> 0] /\ request = FALSE
    /\ acknowledge_meta = FALSE /\ acknowledge_stable = FALSE
    /\ before = crossing
    /\ asked = 0 /\ floor = 0

Edge == before' = crossing

load == request_stable # acknowledge

SourceClock ==
    /\ source_value' \in Values /\ source_value' >= source_value
    /\ request_meta' \in {before.request, request}
    /\ request_stable' = request_meta
    /\ IF load THEN held' = source_value /\ acknowledge' = request_stable
               ELSE UNCHANGED <<held, acknowledge>>
    /\ Edge
    /\ UNCHANGED destination

answeredAlways == TRUE     \* mutant: no handshake
answeredOnce == acknowledge_stable = request /\ ~request     \* mutant: one phase only
answered == acknowledge_stable = request

DestinationClock ==
    /\ acknowledge_meta' \in {before.acknowledge, acknowledge}
    /\ acknowledge_stable' = acknowledge_meta
    /\ IF answered
       THEN /\ value' \in [Parts -> {before.held, held}]
            /\ request' = ~request
            /\ floor' = asked /\ asked' = source_value
       ELSE UNCHANGED <<value, request, asked, floor>>
    /\ Edge
    /\ UNCHANGED source

SnapshotNext == SourceClock \/ DestinationClock
SnapshotSpec == SnapshotInit /\ [][SnapshotNext]_snapshot
-----------------------------------------------------------------------------
\* Every register has its type.
SnapshotTypeOK ==
    /\ {source_value, held, before.held, asked, floor} \subseteq Values
    /\ value \in [Parts -> Values]
    /\ {acknowledge, request_meta, request_stable, request, acknowledge_meta,
        acknowledge_stable, before.acknowledge, before.request} \subseteq BOOLEAN

\* Every copy is a value the source really had, never a mixture of two
\* (snapshot.v 3-8).
NeverTorn == \A p, q \in Parts : value[p] = value[q]

\* A copy is no older than the request before it: what is reported was still
\* true when the previous copy was taken, so a counter never goes backwards.
Fresh == \A p \in Parts : floor <= value[p] /\ value[p] <= source_value

\* A new copy always arrives.
Refreshed == \A n \in Values : source_value >= n ~> \A p \in Parts : value[p] >= n
=============================================================================
