--------------------------- MODULE MCAcquisition ----------------------------
(* The acquisition on a ring of 8 pairs, in transmission groups of 2.      *)
EXTENDS Acquisition
=============================================================================
