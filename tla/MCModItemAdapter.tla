-------------------------- MODULE MCModItemAdapter --------------------------
(***************************************************************************)
(* Small instances of ModItemAdapter for TLC: one row or two, reused among *)
(* two items, with their icon requests and loads of details.               *)
(***************************************************************************)
EXTENDS ModItemAdapter, TLC

CONSTANTS row1, row2, r1, r2, r3, load1, load2, fabric, sodium

Symmetry == Permutations(Receivers) \cup Permutations(Loads) \cup Permutations(Tags)
=============================================================================
