--------------------------- MODULE MCSessionOpen ---------------------------
(* Small instances of SessionOpen for TLC.                                 *)
EXTENDS SessionOpen

CONSTANTS o1, o2

TwoOpens == {o1, o2}

(* The native driver cannot open the profile, the service can, and so      *)
(* could the test backend.                                                 *)
AllKinds == {"native", "sts2", "fake"}
Openers == {"sts2", "fake"}
TestOnly == {"fake"}

(* The settings change or a backend's capabilities do, not both; no        *)
(* fairness is stated for either.                                          *)
OneChange == changes + handshakes <= 1
============================================================================
