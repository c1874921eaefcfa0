----------------------------- MODULE RingBeats ------------------------------
(***************************************************************************)
(* The beats between the packer (fpga/rtl/packer.v), which makes them, and *)
(* the DDR ring (fpga/rtl/ddr_ring.v), which relies on them: StreamTail    *)
(* guarantees what DdrRing assumes.                                        *)
(*                                                                         *)
(* A beat says whether a record starts in it (in_start), and where the     *)
(* last record that ended in it did (in_commit): "none" ended, "inside"    *)
(* the beat, or "whole", at its end.                                       *)
(***************************************************************************)
EXTENDS Integers

Beat == [start : BOOLEAN, commit : {"none", "inside", "whole"}]

(* The beats that can follow n beats of an incomplete record.  A record    *)
(* that goes on after its first beat is announced there and is shorter     *)
(* than `reserve' beats until it ends.  One that ends inside a beat is     *)
(* followed at once by the next; only padding is short enough to begin and *)
(* end in the same beat.  If such a beat has to wait the packer forgets to *)
(* announce it, but only while beats are `left' of the room that was       *)
(* reserved for the record before.                                         *)
BeatsAfter(n, reserve, left) ==
    IF n = 0
    THEN {[start |-> TRUE, commit |-> "none"], [start |-> TRUE, commit |-> "whole"]}
         \cup (IF left > 0 THEN {[start |-> FALSE, commit |-> "whole"]} ELSE {})
    ELSE {[start |-> TRUE, commit |-> "inside"], [start |-> TRUE, commit |-> "whole"],
          [start |-> FALSE, commit |-> "whole"]}
         \cup (IF n + 1 < reserve THEN {[start |-> FALSE, commit |-> "none"]} ELSE {})

(* Beats of the incomplete record after one more.                          *)
LengthWith(n, beat) ==
    CASE beat.commit = "whole"  -> 0
      [] beat.commit = "inside" -> 1
      [] beat.commit = "none"   -> n + 1
=============================================================================
