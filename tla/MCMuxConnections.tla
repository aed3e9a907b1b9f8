------------------------- MODULE MCMuxConnections -------------------------
(* MuxConnections for TLC: attempts are interchangeable model values.      *)
EXTENDS MuxConnections, TLC

AttemptSymmetry == Permutations(Attempt)
=============================================================================
