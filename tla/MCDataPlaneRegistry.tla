------------------------ MODULE MCDataPlaneRegistry ------------------------
(* Small instances of DataPlaneRegistry for TLC.                           *)
EXTENDS DataPlaneRegistry, TLC

CONSTANTS sts2, native, c1, c2

OneKind == {sts2}
TwoKinds == {sts2, native}

TwoCallers == {c1, c2}

(* Consumers are interchangeable: no definition names one.                 *)
CallerSymmetry == Permutations(Callers)
============================================================================
