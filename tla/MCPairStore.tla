---------------------------- MODULE MCPairStore ----------------------------
(* Two records of different length: an overlap of their writes is visible. *)
(* Clients are interchangeable, and no liveness is checked.                *)
EXTENDS PairStore, TLC
CONSTANTS x, y
MCRecord == {<<x, x>>, <<y>>}
MCSymmetry == Permutations(Client)
=============================================================================
