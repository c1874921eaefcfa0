----------------------------- MODULE MCDdrRing ------------------------------
(* The DDR ring on a ring of a few beats. *)
EXTENDS DdrRing
=============================================================================
