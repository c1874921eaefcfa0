----------------------------- MODULE MCReorder -----------------------------
(* Reorder with the errors of a misread sequence number to try: a unit that  *)
(* seems passed, one that seems ahead within FAR and one beyond it.          *)
EXTENDS Reorder

Offsets == {-4, 4, 8}
Rejected == {-4, 8}
=============================================================================
