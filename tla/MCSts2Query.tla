---------------------------- MODULE MCSts2Query ----------------------------
(* Small instances of Sts2Query for TLC.                                   *)
EXTENDS Sts2Query

(* Streams: no result set, a set longer than the window, and three sets of *)
(* which the last page would starve if acks counted a set's pages.         *)
MCStreamPlans == {<<>>, <<3>>, <<1, 1, 2>>}
MCSinglePlan == {<<2>>}
OneOrTwoPages == {<<1>>, <<2>>}

(* A batch of 33 statements that return no row: with the terminal, two     *)
(* events more than the buffer of early events holds.                      *)
MCLongBatch == {[rs \in 1..33 |-> 0]}

(* Two rows a page: the row offset of a page is not its sequence number.   *)
MCPageRows == {2}

NoFaults == {}

(* A duplicated, skipped or unannounced page, a page at a wrong offset,    *)
(* metadata sent twice and a second terminal.                              *)
MCFaultyWire ==
  [kind : {"rows"}, rs : {1}, seq : {0, 1}, off : {0, 2}, n : {2}]
    \cup [kind : {"resultSet"}, rs : {1}]
    \cup [kind : {"complete"}, status : {"succeeded"}]

StreamOnly == {}
CancelOnly == {"cancel"}

(* What goes wrong or is asked of a query: at most two of these together,  *)
(* or any number of controls on a query of one page without faults.  Only  *)
(* steps no fairness is stated for add to it.                              *)
One(b) == IF b THEN 1 ELSE 0
Troubles ==
  faults + Cardinality(failed) + One(cancelRequested) + One(disposePc # "idle")
    + One(session # "open") + One(backend # "up")
FewTroubles == Troubles <= 2 \/ (plan = <<1>> /\ faults = 0 /\ failed = {})
============================================================================
