-------------------------- MODULE MCStreamDecoder --------------------------
(* StreamDecoder with two workers. *)
EXTENDS StreamDecoder

CONSTANTS w1, w2

Pool == {w1, w2}
=============================================================================
