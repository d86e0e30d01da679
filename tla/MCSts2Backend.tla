--------------------------- MODULE MCSts2Backend ---------------------------
(* Small instances of Sts2Backend for TLC.                                 *)
EXTENDS Sts2Backend, TLC

CONSTANTS o1, o2, o3

ThreeOpens == {o1, o2, o3}

OpenSymmetry == Permutations(Opens)
============================================================================
