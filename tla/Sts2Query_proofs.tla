-------------------------- MODULE Sts2Query_proofs -------------------------
(***************************************************************************)
(* Safety of Sts2Query, for every stream, window, sink and peer.  A lemma  *)
(* says what a step can do to the lane (OtherEffect); the invariants that  *)
(* follow are proved from it, case by case.                                *)
(***************************************************************************)
EXTENDS Sts2Query_types, FiniteSetTheorems

(***************************************************************************)
(* What a step may do to the lane.  Every step but the lane's own either   *)
(* keeps it or queues exactly one callback; a terminal only before any     *)
(* other, and the stream's callbacks only before a terminal.               *)
(***************************************************************************)

KeepsLane == UNCHANGED <<lane, ledger, ordinal>> /\ (terminal => terminal')

QueuesMetadata(rs) ==
  /\ ~terminal /\ ~terminal'
  /\ lane' = Append(lane, [kind |-> "resultSet", rs |-> rs])
  /\ ledger' = [ledger EXCEPT ![rs] = [open |-> TRUE, page |-> 0, row |-> 0]]
  /\ ordinal' = ordinal

QueuesPage(n) ==
  /\ n.kind = "rows"
  /\ ~terminal /\ ~terminal'
  /\ ContinuesLedger(n)
  /\ lane' = Append(lane, [kind |-> "rows", rs |-> n.rs, seq |-> n.seq,
                           off |-> n.off, n |-> n.n, ord |-> ordinal])
  /\ ledger' = [ledger EXCEPT ![n.rs] = [open |-> TRUE, page |-> @.page + 1,
                                         row |-> @.row + n.n]]
  /\ ordinal' = ordinal + 1

QueuesMessage(e) ==
  /\ ~terminal /\ ~terminal'
  /\ lane' = Append(lane, [kind |-> "message", error |-> e])
  /\ UNCHANGED <<ledger, ordinal>>

QueuesAccepted ==
  /\ exec = "draining"
  /\ terminal => terminal'
  /\ lane' = Append(lane, [kind |-> "accepted"])
  /\ UNCHANGED <<ledger, ordinal>>

QueuesComplete(status) ==
  /\ ~terminal /\ terminal'
  /\ lane' = Append(lane, [kind |-> "complete", status |-> status,
                           rows |-> totalRows])
  /\ UNCHANGED <<ledger, ordinal>>

LaneEffect ==
  \/ KeepsLane
  \/ \E rs \in ResultSets : QueuesMetadata(rs)
  \/ \E n \in Notifications : QueuesPage(n)
  \/ \E e \in BOOLEAN : QueuesMessage(e)
  \/ QueuesAccepted
  \/ \E status \in CompletionStatus : QueuesComplete(status)

LEMMA FinishEffect ==
  ASSUME NEW status \in CompletionStatus, FinishTerminal(status),
         UNCHANGED <<ledger, ordinal>>
  PROVE  LaneEffect /\ terminal'
<1>1. CASE ~terminal
  <2>1. QueuesComplete(status)
    BY <1>1 DEF FinishTerminal, QueuesComplete
  <2> QED BY <2>1, Zenon DEF LaneEffect, QueuesComplete
<1>2. CASE terminal
  <2>1. KeepsLane /\ terminal'
    BY <1>2 DEF FinishTerminal, KeepsLane
  <2> QED BY <2>1, Zenon DEF LaneEffect
<1> QED BY <1>1, <1>2

LEMMA OnWireEffect ==
  ASSUME NEW n \in Notifications, OnWire(n)
  PROVE  LaneEffect
<1>1. CASE DropAfterTerminal
  BY <1>1 DEF DropAfterTerminal, wireVars, LaneEffect, KeepsLane
<1>2. CASE OnWireResultSet(n)
  <2>1. n.rs \in ResultSets
    BY <1>2 DEF OnWireResultSet, Notifications
  <2>2. QueuesMetadata(n.rs)
    BY <1>2 DEF OnWireResultSet, QueuesMetadata
  <2> QED BY <2>1, <2>2 DEF LaneEffect
<1>3. CASE OnWireRows(n)
  <2>1. CASE ~ContinuesLedger(n)
    <3>1. FinishTerminal("failed") /\ UNCHANGED <<ledger, ordinal>>
      BY <1>3, <2>1 DEF OnWireRows, ProtocolViolation
    <3> QED BY <3>1, FinishEffect DEF CompletionStatus
  <2>2. CASE ContinuesLedger(n)
    <3>1. QueuesPage(n)
      BY <1>3, <2>2 DEF OnWireRows, QueuesPage, AckOrdinal
    <3> QED BY <3>1 DEF LaneEffect
  <2> QED BY <2>1, <2>2
<1>4. CASE OnWireMessage(n)
  <2>1. n.error \in BOOLEAN
    BY <1>4 DEF OnWireMessage, Notifications
  <2>2. QueuesMessage(n.error)
    BY <1>4 DEF OnWireMessage, QueuesMessage
  <2> QED BY <2>1, <2>2 DEF LaneEffect
<1>5. CASE OnWireComplete(n)
  <2>1. MapStatus(n.status) \in CompletionStatus
    BY <1>5 DEF OnWireComplete, MapStatus, Notifications, WireStatus, CompletionStatus
  <2> QED BY <1>5, <2>1, FinishEffect DEF OnWireComplete
<1> QED BY <1>1, <1>2, <1>3, <1>4, <1>5 DEF OnWire

LEMMA NotifyEffect ==
  ASSUME NEW n \in Notifications, Notify(n)
  PROVE  LaneEffect /\ UNCHANGED laneVars
<1>1. CASE OnWire(n)
  BY <1>1, OnWireEffect DEF Notify
<1>2. CASE UNCHANGED wireVars
  BY <1>2 DEF wireVars, LaneEffect, KeepsLane, Notify
<1> QED BY <1>1, <1>2 DEF Notify, Route, BufferOrphan

(* What the service sends is a notification.                               *)
LEMMA ServerNotifies ==
  ASSUME TypeOK, Server
  PROVE  \E n \in Notifications : Notify(n)
<1>1. CASE ServerResultSet
  <2>1. [kind |-> "resultSet", rs |-> srv.set + 1] \in Notifications
    BY <1>1, PlanBound DEF ServerResultSet, TypeOK, Notifications
  <2> QED BY <1>1, <2>1 DEF ServerResultSet
<1>2. CASE ServerRows
  <2>1. srv.set \in ResultSets
    BY <1>2, PlanBound DEF ServerRows, TypeOK
  <2>2. srv.page \in Nat /\ srv.row \in Nat
    BY DEF TypeOK, ServerTypeOK, ServerStates
  <2>3. PICK k \in PageRows :
          Notify([kind |-> "rows", rs |-> srv.set, seq |-> srv.page,
                  off |-> srv.row, n |-> k])
    BY <1>2 DEF ServerRows
  <2>4. k \in Nat
    BY ConstantsAssumption DEF ConstantsAssumption
  <2>5. [kind |-> "rows", rs |-> srv.set, seq |-> srv.page,
         off |-> srv.row, n |-> k] \in Notifications
    BY <2>1, <2>2, <2>4 DEF Notifications
  <2> QED BY <2>3, <2>5
<1>3. CASE ServerMessage
  <2>1. PICK e \in BOOLEAN : Notify([kind |-> "message", error |-> e])
    BY <1>3 DEF ServerMessage
  <2>2. [kind |-> "message", error |-> e] \in Notifications
    BY DEF Notifications
  <2> QED BY <2>1, <2>2
<1>4. CASE ServerFinish \/ ServerFail
  <2>1. PICK status \in WireStatus : ServerComplete(status)
    BY <1>4 DEF ServerFinish, ServerFail, WireStatus
  <2>2. [kind |-> "complete", status |-> status] \in Notifications
    BY DEF Notifications
  <2> QED BY <2>1, <2>2 DEF ServerComplete
<1>5. CASE WireFault
  BY <1>5, ConstantsAssumption DEF ConstantsAssumption, WireFault
<1> QED BY <1>1, <1>2, <1>3, <1>4, <1>5 DEF Server

LEMMA SynthesizeEffect ==
  ASSUME NEW status \in CompletionStatus, SynthesizeTerminal(status),
         UNCHANGED <<ledger, ordinal>>
  PROVE  LaneEffect
BY FinishEffect DEF SynthesizeTerminal

LEMMA EndActiveEffect ==
  ASSUME NEW status \in CompletionStatus, EndActiveQuery(status),
         UNCHANGED <<ledger, ordinal>>
  PROVE  LaneEffect
<1>1. CASE NoTerminal
  BY <1>1 DEF NoTerminal, LaneEffect, KeepsLane
<1>2. CASE SynthesizeTerminal(status)
  BY <1>2, SynthesizeEffect
<1> QED BY <1>1, <1>2 DEF EndActiveQuery

(* A step other than the lane's own leaves the lane's progress alone.      *)
LEMMA OtherEffect ==
  ASSUME TypeOK, Next, ~Lane
  PROVE  LaneEffect /\ UNCHANGED laneVars
<1>1. CASE Server
  BY <1>1, ServerNotifies, NotifyEffect
<1>2. CASE ExecuteAccepted
  BY <1>2 DEF ExecuteAccepted, wireVars, LaneEffect, KeepsLane
<1>3. CASE ReplayOrphan
  <2>1. Head(orphan) \in Notifications
    BY <1>3 DEF ReplayOrphan, TypeOK, WireTypeOK
  <2> QED BY <1>3, <2>1, OnWireEffect DEF ReplayOrphan
<1>4. CASE EnqueueAccepted
  <2>1. QueuesAccepted
    BY <1>4 DEF EnqueueAccepted, QueuesAccepted
  <2> QED BY <1>4, <2>1 DEF EnqueueAccepted, LaneEffect
<1>5. CASE ExecuteRejected
  BY <1>5, FinishEffect DEF ExecuteRejected, CompletionStatus
<1>6. CASE CancelCall \/ CancelGetsId \/ CancelAnswered
  <2>1. CancelFrame
    BY <1>6 DEF CancelCall, CancelGetsId, CancelAnswered
  <2> QED BY <2>1 DEF CancelFrame, LaneEffect, KeepsLane
<1>7. CASE CancelDeadline
  BY <1>7, SynthesizeEffect DEF CancelDeadline, CompletionStatus
<1>8. CASE DisposeCall \/ DisposeGetsId \/ DisposeAcknowledged
  <2>1. DisposeFrame /\ NoTerminal
    BY <1>8 DEF DisposeCall, DisposeGetsId, DisposeAcknowledged
  <2> QED BY <2>1 DEF DisposeFrame, NoTerminal, LaneEffect, KeepsLane
<1>9. CASE DisposeFailed \/ DrainDeadline
  <2>1. DisposeFrame /\ SynthesizeTerminal("disposed")
    BY <1>9 DEF DisposeFailed, DrainDeadline
  <2> QED BY <2>1, SynthesizeEffect DEF DisposeFrame, CompletionStatus
<1>10. CASE Session
  <2>1. SessionFrame
    BY <1>10 DEF Session, OnFatal, CloseCall, CloseDone, BackendDispose, BackendDisposed
  <2>2. \/ NoTerminal
        \/ EndActiveQuery("connectionLost")
        \/ EndActiveQuery("canceled")
    BY <1>10 DEF Session, OnFatal, MarkLost, CloseCall, CloseDone, BackendDispose,
                 BackendDisposed
  <2>3. CASE NoTerminal
    BY <2>1, <2>3 DEF SessionFrame, NoTerminal, LaneEffect, KeepsLane
  <2>4. CASE EndActiveQuery("connectionLost") \/ EndActiveQuery("canceled")
    BY <2>1, <2>4, EndActiveEffect DEF SessionFrame, CompletionStatus
  <2> QED BY <2>1, <2>2, <2>3, <2>4 DEF SessionFrame
<1> QED BY <1>1, <1>2, <1>3, <1>4, <1>5, <1>6, <1>7, <1>8, <1>9, <1>10
        DEF Next, Start, Control

(* Appending a step keeps every earlier one where it is.                   *)
LEMMA AppendAt ==
  ASSUME TypeOK, NEW x, lane' = Append(lane, x)
  PROVE  /\ Len(lane) \in Nat
         /\ DOMAIN lane = 1..Len(lane)
         /\ DOMAIN lane' = 1..Len(lane) + 1
         /\ \A i \in 1..Len(lane) : lane'[i] = lane[i]
         /\ lane'[Len(lane) + 1] = x
BY DEF TypeOK, WireTypeOK

(***************************************************************************)
(* One terminal.                                                           *)
(***************************************************************************)

TerminalQueued == \E i \in DOMAIN lane : IsTerminal(i)

(* The lane holds a terminal only once terminalSent is set.                *)
OneTerminalInv == OneTerminal /\ (TerminalQueued => terminal)

LEMMA OneTerminalAppend ==
  ASSUME TypeOK, OneTerminalInv, NEW x, lane' = Append(lane, x),
         x.kind # "accepted" => ~terminal,
         terminal => terminal',
         x.kind = "complete" => terminal'
  PROVE  OneTerminalInv'
<1>1. /\ DOMAIN lane = 1..Len(lane) /\ DOMAIN lane' = 1..Len(lane) + 1
      /\ Len(lane) \in Nat
      /\ \A i \in 1..Len(lane) : lane'[i] = lane[i]
      /\ lane'[Len(lane) + 1] = x
  BY AppendAt
<1>2. ASSUME NEW i \in DOMAIN lane', NEW k \in DOMAIN lane',
             IsTerminal(i)', i < k
      PROVE  lane'[k].kind = "accepted"
  <2>1. i \in DOMAIN lane /\ IsTerminal(i)
    BY <1>1, <1>2 DEF IsTerminal
  <2>2. terminal
    BY <2>1 DEF OneTerminalInv, TerminalQueued
  <2>3. CASE k = Len(lane) + 1
    BY <1>1, <2>2, <2>3
  <2>4. CASE k \in DOMAIN lane
    BY <1>1, <1>2, <2>1, <2>4 DEF OneTerminalInv, OneTerminal
  <2> QED BY <1>1, <2>3, <2>4
<1>3. TerminalQueued' => terminal'
  <2> SUFFICES ASSUME NEW i \in DOMAIN lane', IsTerminal(i)' PROVE terminal'
    BY DEF TerminalQueued
  <2>1. CASE i \in DOMAIN lane
    BY <1>1, <2>1 DEF OneTerminalInv, TerminalQueued, IsTerminal
  <2>2. CASE i = Len(lane) + 1
    BY <1>1, <2>2 DEF IsTerminal
  <2> QED BY <1>1, <2>1, <2>2
<1> QED BY <1>2, <1>3 DEF OneTerminalInv, OneTerminal

LEMMA OneTerminalKept ==
  ASSUME OneTerminalInv, lane' = lane, terminal => terminal'
  PROVE  OneTerminalInv'
BY DEF OneTerminalInv, OneTerminal, TerminalQueued, IsTerminal

(* The lane's own steps queue nothing, and never take a terminal back.     *)
LEMMA LaneKeepsTerminal == ASSUME Lane PROVE terminal => terminal'
<1> USE DEF wireVars
<1>1. CASE RunStep
  BY <1>1 DEF RunStep
<1>2. CASE PageAccepted
  BY <1>2 DEF PageAccepted
<1>3. CASE StepDone
  BY <1>3 DEF StepDone
<1>4. CASE CompleteDelivered
  BY <1>4 DEF CompleteDelivered
<1>5. CASE StepFailed
  BY <1>5 DEF StepFailed
<1> QED BY <1>1, <1>2, <1>3, <1>4, <1>5 DEF Lane, SinkSettles

LEMMA OneTerminalStep == TypeOK /\ OneTerminalInv /\ [Next]_vars => OneTerminalInv'
<1> SUFFICES ASSUME TypeOK, OneTerminalInv, [Next]_vars PROVE OneTerminalInv'
  OBVIOUS
<1>1. CASE UNCHANGED vars
  BY <1>1, OneTerminalKept DEF vars, wireVars
<1>2. CASE Lane
  BY <1>2, LaneFrame, LaneKeepsTerminal, OneTerminalKept
<1>3. CASE Next /\ ~Lane
  <2>1. LaneEffect
    BY <1>3, OtherEffect
  <2>2. CASE KeepsLane
    BY <2>2, OneTerminalKept DEF KeepsLane
  <2>3. CASE \E rs \in ResultSets : QueuesMetadata(rs)
    BY <2>3, OneTerminalAppend DEF QueuesMetadata
  <2>4. CASE \E n \in Notifications : QueuesPage(n)
    BY <2>4, OneTerminalAppend DEF QueuesPage
  <2>5. CASE \E e \in BOOLEAN : QueuesMessage(e)
    BY <2>5, OneTerminalAppend DEF QueuesMessage
  <2>6. CASE QueuesAccepted
    BY <2>6, OneTerminalAppend DEF QueuesAccepted
  <2>7. CASE \E status \in CompletionStatus : QueuesComplete(status)
    BY <2>7, OneTerminalAppend DEF QueuesComplete
  <2> QED BY <2>1, <2>2, <2>3, <2>4, <2>5, <2>6, <2>7 DEF LaneEffect
<1> QED BY <1>1, <1>2, <1>3

(* However the wire terminal, the synthesized terminals, the sink's        *)
(* failures and the late execute response interleave, the query has one    *)
(* terminal, with nothing of the stream behind it.                         *)
THEOREM OneTerminalCorrect == Spec => []OneTerminal
<1>1. Init => TypeOK /\ OneTerminalInv
  BY InitTypeOK DEF Init, OneTerminalInv, OneTerminal, TerminalQueued
<1>2. TypeOK /\ OneTerminalInv /\ [Next]_vars => (TypeOK /\ OneTerminalInv)'
  BY NextTypeOK, OneTerminalStep
<1>3. OneTerminalInv => OneTerminal
  BY DEF OneTerminalInv
<1> QED BY <1>1, <1>2, <1>3, PTL DEF Spec

(***************************************************************************)
(* Acks.  The ordinals grow along the lane, so the high-water the acks     *)
(* carry separates the pages before the step in flight from those after.   *)
(***************************************************************************)

OrdinalsGrow ==
  /\ \A i, k \in DOMAIN lane :
       IsPage(i) /\ IsPage(k) /\ i < k => lane[i].ord < lane[k].ord
  /\ \A i \in DOMAIN lane : IsPage(i) => lane[i].ord \in Nat /\ lane[i].ord < ordinal
  /\ acked < ordinal

FailuresAreFinal ==
  /\ failed # {} => terminal
  /\ failed \subseteq Returned

AckInv == OrdinalsGrow /\ FailuresAreFinal /\ AckedPagesAreDurable

LEMMA AckKept ==
  ASSUME AckInv, lane' = lane, ordinal' = ordinal, UNCHANGED laneVars,
         terminal => terminal'
  PROVE  AckInv'
<1>1. pos' = pos /\ busy' = busy /\ failed' = failed /\ acked' = acked
  BY DEF laneVars
<1>2. Returned' = Returned
  BY <1>1 DEF Returned
<1>3. OrdinalsGrow'
  BY <1>1 DEF AckInv, OrdinalsGrow, IsPage
<1>4. FailuresAreFinal'
  BY <1>1, <1>2 DEF AckInv, FailuresAreFinal
<1>5. AckedPagesAreDurable'
  BY <1>1, <1>2 DEF AckInv, AckedPagesAreDurable, IsPage
<1> QED BY <1>3, <1>4, <1>5 DEF AckInv

LEMMA AckAppend ==
  ASSUME TypeOK, AckInv, NEW x, lane' = Append(lane, x), UNCHANGED laneVars,
         terminal => terminal',
         \/ x.kind # "rows" /\ ordinal' = ordinal
         \/ x.kind = "rows" /\ x.ord = ordinal /\ ordinal' = ordinal + 1
  PROVE  AckInv'
<1>1. /\ DOMAIN lane = 1..Len(lane) /\ DOMAIN lane' = 1..Len(lane) + 1
      /\ Len(lane) \in Nat
      /\ \A i \in 1..Len(lane) : lane'[i] = lane[i]
      /\ lane'[Len(lane) + 1] = x
  BY AppendAt
<1>2. pos' = pos /\ busy' = busy /\ failed' = failed /\ acked' = acked
  BY DEF laneVars
<1>3. Returned' = Returned
  BY <1>2 DEF Returned
<1>4. ordinal \in Nat /\ ordinal' \in Nat /\ ordinal' >= ordinal
      /\ acked \in Nat \cup {-1}
  BY DEF TypeOK, WireTypeOK, LaneTypeOK
<1>5. ASSUME NEW i \in DOMAIN lane', IsPage(i)'
      PROVE  \/ i \in DOMAIN lane /\ IsPage(i) /\ lane'[i].ord = lane[i].ord
             \/ /\ i = Len(lane) + 1
                /\ lane'[i].ord = ordinal /\ ordinal' = ordinal + 1
  BY <1>1, <1>5 DEF IsPage
<1>6. OrdinalsGrow'
  <2>1. ASSUME NEW i \in DOMAIN lane', IsPage(i)'
        PROVE  lane'[i].ord \in Nat /\ lane'[i].ord < ordinal'
    BY <1>4, <1>5, <2>1 DEF AckInv, OrdinalsGrow
  <2>2. ASSUME NEW i \in DOMAIN lane', NEW k \in DOMAIN lane',
               IsPage(i)', IsPage(k)', i < k
        PROVE  lane'[i].ord < lane'[k].ord
    <3>1. i \in DOMAIN lane /\ IsPage(i) /\ lane'[i].ord = lane[i].ord
      BY <1>1, <1>5, <2>2
    <3>2. lane[i].ord < ordinal
      BY <3>1 DEF AckInv, OrdinalsGrow
    <3>3. CASE k \in DOMAIN lane
      <4>1. IsPage(k) /\ lane'[k].ord = lane[k].ord
        BY <1>1, <2>2, <3>3 DEF IsPage
      <4> QED BY <2>2, <3>1, <3>3, <4>1 DEF AckInv, OrdinalsGrow
    <3>4. CASE k = Len(lane) + 1
      BY <1>1, <1>5, <2>2, <3>1, <3>2, <3>4
    <3> QED BY <1>1, <3>3, <3>4
  <2>3. acked' < ordinal'
    BY <1>2, <1>4 DEF AckInv, OrdinalsGrow
  <2> QED BY <2>1, <2>2, <2>3 DEF OrdinalsGrow
<1>7. FailuresAreFinal'
  BY <1>2, <1>3 DEF AckInv, FailuresAreFinal
<1>8. AckedPagesAreDurable'
  <2> SUFFICES ASSUME NEW i \in DOMAIN lane', IsPage(i)', lane'[i].ord <= acked
               PROVE  i \in Returned \ failed
    BY <1>2, <1>3 DEF AckedPagesAreDurable
  <2>1. i \in DOMAIN lane /\ IsPage(i) /\ lane'[i].ord = lane[i].ord
    BY <1>4, <1>5 DEF AckInv, OrdinalsGrow
  <2> QED BY <2>1 DEF AckInv, AckedPagesAreDurable
<1> QED BY <1>6, <1>7, <1>8 DEF AckInv

(* The lane's own steps: a callback starts, a page is accepted and acked,  *)
(* another callback returns, or one is rejected.                           *)
LEMMA AckLane ==
  ASSUME TypeOK, AckInv, Lane
  PROVE  AckInv'
<1>1. lane' = lane /\ ordinal' = ordinal
  BY LaneFrame
<1>2. pos \in 0..Len(lane) /\ Len(lane) \in Nat /\ failed \subseteq 1..pos
      /\ DOMAIN lane = 1..Len(lane)
  BY DEF TypeOK, LaneTypeOK, WireTypeOK
<1>3. busy => pos \in 1..Len(lane)
  BY <1>2 DEF TypeOK, LaneTypeOK
<1>4. terminal => terminal'
  BY LaneKeepsTerminal
<1>5. ASSUME acked' = acked PROVE OrdinalsGrow'
  BY <1>1, <1>5 DEF AckInv, OrdinalsGrow, IsPage
<1>6. CASE RunStep
  <2>1. ~busy /\ busy' /\ pos' = pos + 1 /\ failed' = failed /\ acked' = acked
    BY <1>6 DEF RunStep
  <2>2. Returned' = Returned
    BY <1>2, <2>1 DEF Returned
  <2>3. FailuresAreFinal'
    BY <1>4, <2>1, <2>2 DEF AckInv, FailuresAreFinal
  <2>4. AckedPagesAreDurable'
    BY <1>1, <2>1, <2>2 DEF AckInv, AckedPagesAreDurable, IsPage
  <2> QED BY <1>5, <2>1, <2>3, <2>4 DEF AckInv
<1>7. CASE PageAccepted
  <2>1. /\ busy /\ ~busy' /\ pos' = pos /\ failed' = failed
        /\ pos \in DOMAIN lane /\ IsPage(pos)
    BY <1>2, <1>3, <1>7 DEF PageAccepted, InFlight, IsPage
  <2>2. Returned' = 1..pos /\ Returned \subseteq 1..pos
    BY <1>2, <2>1 DEF Returned
  <2>3. FailuresAreFinal'
    BY <1>4, <2>1, <2>2 DEF AckInv, FailuresAreFinal
  <2>4. CASE acked' = acked
    <3>1. AckedPagesAreDurable'
      BY <1>1, <2>1, <2>2, <2>4 DEF AckInv, AckedPagesAreDurable, IsPage
    <3> QED BY <1>5, <2>3, <2>4, <3>1 DEF AckInv
  <2>5. CASE ~terminal /\ acked' = lane[pos].ord
    <3>1. failed' = {}
      BY <2>1, <2>5 DEF AckInv, FailuresAreFinal
    <3>2. OrdinalsGrow'
      BY <1>1, <2>1, <2>5 DEF AckInv, OrdinalsGrow, IsPage
    <3>3. ASSUME NEW i \in DOMAIN lane, IsPage(i), lane[i].ord <= lane[pos].ord
          PROVE  i \in 1..pos
      <4>1. ~(pos < i)
        BY <2>1, <3>3 DEF AckInv, OrdinalsGrow
      <4> QED BY <1>2, <4>1
    <3>4. AckedPagesAreDurable'
      BY <1>1, <2>2, <2>5, <3>1, <3>3 DEF AckedPagesAreDurable, IsPage
    <3> QED BY <2>3, <3>2, <3>4 DEF AckInv
  <2> QED BY <1>7, <2>4, <2>5 DEF PageAccepted
<1>8. CASE StepDone \/ CompleteDelivered
  <2>1. busy /\ ~busy' /\ pos' = pos /\ failed' = failed /\ acked' = acked
    BY <1>8 DEF StepDone, CompleteDelivered, InFlight
  <2>2. Returned \subseteq Returned'
    BY <1>2, <2>1 DEF Returned
  <2>3. FailuresAreFinal'
    BY <1>4, <2>1, <2>2 DEF AckInv, FailuresAreFinal
  <2>4. AckedPagesAreDurable'
    BY <1>1, <2>1, <2>2 DEF AckInv, AckedPagesAreDurable, IsPage
  <2> QED BY <1>5, <2>1, <2>3, <2>4 DEF AckInv
<1>9. CASE StepFailed
  <2>1. /\ busy /\ ~busy' /\ pos' = pos /\ acked' = acked
        /\ failed' = failed \cup {pos}
    BY <1>9 DEF StepFailed, InFlight
  <2>2. Returned = 1..pos - 1 /\ Returned' = 1..pos
    BY <1>2, <2>1 DEF Returned
  <2>3. terminal'
    BY <1>9 DEF StepFailed
  <2>4. FailuresAreFinal'
    BY <1>2, <1>3, <2>1, <2>2, <2>3 DEF FailuresAreFinal
  <2>5. AckedPagesAreDurable'
    BY <1>1, <1>2, <2>1, <2>2 DEF AckInv, AckedPagesAreDurable, IsPage
  <2> QED BY <1>5, <2>1, <2>4, <2>5 DEF AckInv
<1> QED BY <1>6, <1>7, <1>8, <1>9 DEF Lane, SinkSettles

LEMMA AckStep == TypeOK /\ AckInv /\ [Next]_vars => AckInv'
<1> SUFFICES ASSUME TypeOK, AckInv, [Next]_vars PROVE AckInv'
  OBVIOUS
<1>1. CASE UNCHANGED vars
  BY <1>1, AckKept DEF vars, wireVars
<1>2. CASE Lane
  BY <1>2, AckLane
<1>3. CASE Next /\ ~Lane
  <2>1. LaneEffect /\ UNCHANGED laneVars
    BY <1>3, OtherEffect
  <2>2. CASE KeepsLane
    BY <2>1, <2>2, AckKept DEF KeepsLane
  <2>3. CASE \E rs \in ResultSets : QueuesMetadata(rs)
    BY <2>1, <2>3, AckAppend DEF QueuesMetadata
  <2>4. CASE \E n \in Notifications : QueuesPage(n)
    BY <2>1, <2>4, AckAppend DEF QueuesPage
  <2>5. CASE \E e \in BOOLEAN : QueuesMessage(e)
    BY <2>1, <2>5, AckAppend DEF QueuesMessage
  <2>6. CASE QueuesAccepted
    BY <2>1, <2>6, AckAppend DEF QueuesAccepted
  <2>7. CASE \E status \in CompletionStatus : QueuesComplete(status)
    BY <2>1, <2>7, AckAppend DEF QueuesComplete
  <2> QED BY <2>1, <2>2, <2>3, <2>4, <2>5, <2>6, <2>7 DEF LaneEffect
<1> QED BY <1>1, <1>2, <1>3

LEMMA InitAck == Init => AckInv
<1> SUFFICES ASSUME Init PROVE AckInv
  OBVIOUS
<1>1. lane = <<>> /\ failed = {} /\ acked = -1 /\ ordinal = 0
  BY DEF Init
<1>2. OrdinalsGrow
  BY <1>1 DEF OrdinalsGrow
<1>3. FailuresAreFinal
  BY <1>1 DEF FailuresAreFinal
<1>4. AckedPagesAreDurable
  BY <1>1 DEF AckedPagesAreDurable
<1> QED BY <1>2, <1>3, <1>4 DEF AckInv

(* Every page an ack covers was handed to the sink and durably accepted,   *)
(* whatever the result sets, the credit window and the sink's failures.    *)
THEOREM AckedPagesAreDurableCorrect == Spec => []AckedPagesAreDurable
<1>1. Init => TypeOK /\ AckInv
  BY InitTypeOK, InitAck
<1>2. TypeOK /\ AckInv /\ [Next]_vars => (TypeOK /\ AckInv)'
  BY NextTypeOK, AckStep
<1>3. AckInv => AckedPagesAreDurable
  BY DEF AckInv
<1> QED BY <1>1, <1>2, <1>3, PTL DEF Spec

AckMoves ==
  acked' # acked => /\ acked' > acked
                    /\ ~terminal
                    /\ failed = {}

LEMMA AckMovesForward == TypeOK /\ AckInv /\ [Next]_vars => [AckMoves]_vars
<1> SUFFICES ASSUME TypeOK, AckInv, Next, acked' # acked
             PROVE  acked' > acked /\ ~terminal /\ failed = {}
  BY DEF AckMoves, vars, laneVars
<1>1. Lane
  BY OtherEffect DEF laneVars
<1>2. PageAccepted
  <2>1. ~(RunStep \/ StepDone \/ CompleteDelivered \/ StepFailed)
    BY DEF RunStep, StepDone, CompleteDelivered, StepFailed
  <2> QED BY <1>1, <2>1 DEF Lane, SinkSettles
<1>3. acked' = IF ~terminal /\ lane[pos].ord > acked THEN lane[pos].ord ELSE acked
  BY <1>2 DEF PageAccepted
<1>4. ~terminal /\ lane[pos].ord > acked /\ acked' = lane[pos].ord
  BY <1>3
<1>5. failed = {}
  BY <1>4 DEF AckInv, FailuresAreFinal
<1> QED BY <1>4, <1>5

(* Acks never regress and stop for good at the terminal or at the first    *)
(* callback the sink rejects.                                              *)
THEOREM AckDisciplineCorrect == Spec => AckDiscipline
<1>1. Init => TypeOK /\ AckInv
  BY InitTypeOK, InitAck
<1>2. TypeOK /\ AckInv /\ [Next]_vars => (TypeOK /\ AckInv)'
  BY NextTypeOK, AckStep
<1>3. TypeOK /\ AckInv /\ [Next]_vars => [acked' # acked => /\ acked' > acked
                                                           /\ ~terminal
                                                           /\ failed = {}]_vars
  BY AckMovesForward DEF AckMoves
<1> QED BY <1>1, <1>2, <1>3, PTL DEF Spec, AckDiscipline

(***************************************************************************)
(* The acceptance and the completion.                                      *)
(***************************************************************************)

(* Whoever can end the query has an acceptance that is already settled: a  *)
(* query id, a place in the demultiplexer, or a step on the lane.          *)
AcceptanceInv ==
  registered \/ HasId \/ lane # <<>> \/ terminal => accepted # "pending"

LEMMA SettledAcceptanceStays ==
  ASSUME Next, accepted # "pending"
  PROVE  accepted' # "pending"
<1> USE DEF startVars
<1>1. CASE Server
  BY <1>1 DEF Server, ServerResultSet, ServerRows, ServerMessage, ServerFinish,
     ServerFail, ServerComplete, WireFault, Notify
<1>2. CASE Start
  BY <1>2 DEF Start, ExecuteAccepted, ReplayOrphan, EnqueueAccepted,
     ExecuteRejected, SettleAccepted
<1>3. CASE Lane
  BY <1>3, LaneFrame
<1>4. CASE Control
  BY <1>4 DEF Control, CancelCall, CancelGetsId, CancelAnswered, CancelFrame,
     CancelDeadline, DisposeCall, DisposeGetsId, DisposeAcknowledged,
     DisposeFailed, DrainDeadline, NoTerminal, SynthesizeTerminal, SettleAccepted
<1>5. CASE Session
  BY <1>5 DEF Session, OnFatal, MarkLost, CloseCall, CloseDone, BackendDispose,
     BackendDisposed, EndActiveQuery, NoTerminal, SynthesizeTerminal, SettleAccepted
<1> QED BY <1>1, <1>2, <1>3, <1>4, <1>5 DEF Next

(* While the acceptance is open nothing can register the query, queue a    *)
(* callback for it or end it without settling the acceptance.              *)
LEMMA OpenAcceptanceStep ==
  ASSUME TypeOK, Next, accepted' = "pending",
         ~registered, ~HasId, lane = <<>>, ~terminal
  PROVE  ~registered' /\ ~HasId' /\ lane' = <<>> /\ ~terminal'
<1> USE DEF wireVars, demuxVars, startVars
<1>1. ~Lane
  <2>1. Len(lane) = 0 /\ ~busy
    BY DEF TypeOK, LaneTypeOK
  <2> QED BY <2>1 DEF Lane, RunStep, SinkSettles, PageAccepted, StepDone,
                      CompleteDelivered, StepFailed, InFlight, TypeOK, LaneTypeOK
<1>2. CASE Server
  <2>1. PICK n \in Notifications : Notify(n)
    BY <1>2, ServerNotifies
  <2>2. UNCHANGED wireVars
    BY <2>1 DEF Notify, Route, BufferOrphan
  <2>3. lane' = lane /\ (terminal' <=> terminal)
    BY <2>2
  <2>4. (registered' <=> registered) /\ exec' = exec
    BY <2>1 DEF Notify
  <2> QED BY <2>3, <2>4 DEF HasId
<1>3. CASE Start
  <2>1. exec = "inflight" => accepted' # "pending"
    BY <1>3 DEF Start, ExecuteAccepted, ReplayOrphan, EnqueueAccepted,
                ExecuteRejected, SettleAccepted
  <2>2. exec = "inflight" \/ exec = "draining"
    BY <1>3 DEF Start, ExecuteAccepted, ReplayOrphan, EnqueueAccepted, ExecuteRejected
  <2> QED BY <2>1, <2>2 DEF HasId
<1>4. ~SynthesizeTerminal("canceled") /\ ~SynthesizeTerminal("disposed")
      /\ ~SynthesizeTerminal("connectionLost")
  BY DEF SynthesizeTerminal, SettleAccepted
<1>5. CASE Control
  <2>1. CASE CancelCall \/ CancelGetsId \/ CancelAnswered
    <3>1. CancelFrame
      BY <2>1 DEF CancelCall, CancelGetsId, CancelAnswered
    <3> QED BY <3>1 DEF CancelFrame, HasId
  <2>2. CASE DisposeCall \/ DisposeGetsId \/ DisposeAcknowledged
    <3>1. DisposeFrame /\ NoTerminal
      BY <2>2 DEF DisposeCall, DisposeGetsId, DisposeAcknowledged
    <3> QED BY <3>1 DEF DisposeFrame, NoTerminal, HasId
  <2> QED BY <1>4, <1>5, <2>1, <2>2 DEF Control, CancelDeadline, DisposeFailed,
                                        DrainDeadline
<1>6. CASE Session
  <2>1. NoTerminal
    BY <1>4, <1>6 DEF Session, OnFatal, MarkLost, CloseCall, CloseDone,
                      BackendDispose, BackendDisposed, EndActiveQuery
  <2>2. exec' = exec
    BY <1>6 DEF Session, OnFatal, CloseCall, CloseDone, BackendDispose,
                BackendDisposed, SessionFrame
  <2>3. ~registered'
    BY <1>6 DEF Session, OnFatal, CloseCall, CloseDone, BackendDispose,
                BackendDisposed
  <2> QED BY <2>1, <2>2, <2>3 DEF NoTerminal, HasId
<1> QED BY <1>1, <1>2, <1>3, <1>5, <1>6 DEF Next

LEMMA AcceptanceStep == TypeOK /\ AcceptanceInv /\ [Next]_vars => AcceptanceInv'
<1> SUFFICES ASSUME TypeOK, AcceptanceInv, [Next]_vars PROVE AcceptanceInv'
  OBVIOUS
<1>1. CASE UNCHANGED vars
  BY <1>1 DEF vars, demuxVars, wireVars, startVars, AcceptanceInv, HasId
<1>2. CASE Next /\ accepted # "pending"
  BY <1>2, SettledAcceptanceStays DEF AcceptanceInv
<1>3. CASE Next /\ accepted = "pending"
  <2>1. ~registered /\ ~HasId /\ lane = <<>> /\ ~terminal
    BY <1>3 DEF AcceptanceInv
  <2>2. accepted' = "pending" => ~registered' /\ ~HasId' /\ lane' = <<>> /\ ~terminal'
    BY <1>3, <2>1, OpenAcceptanceStep
  <2> QED BY <2>2 DEF AcceptanceInv
<1> QED BY <1>1, <1>2, <1>3

(* The handle's acceptance never outlives its query: whichever of the      *)
(* response, the wire, a deadline or the session ends it, accepted settles.*)
THEOREM AcceptanceSettlesCorrect == Spec => []AcceptanceSettles
<1>1. Init => TypeOK /\ AcceptanceInv
  <2>1. Init => AcceptanceInv
    BY DEF Init, AcceptanceInv, HasId
  <2> QED BY <2>1, InitTypeOK
<1>2. TypeOK /\ AcceptanceInv /\ [Next]_vars => (TypeOK /\ AcceptanceInv)'
  BY NextTypeOK, AcceptanceStep
<1>3. AcceptanceInv => AcceptanceSettles
  BY DEF AcceptanceInv, AcceptanceSettles
<1> QED BY <1>1, <1>2, <1>3, PTL DEF Spec

Summary(i) == [status |-> lane[i].status, rows |-> lane[i].rows]

CompletedBy(i) ==
  i \in Returned /\ i \in DOMAIN lane /\ IsTerminal(i) /\ completion = Summary(i)

(* CompletionIsTheTerminal, case by case.                                  *)
CompletionCases ==
  \/ ~Settled
  \/ \E i : CompletedBy(i)
  \/ ~TerminalQueued /\ failed # {} /\ completion.status = "failed"

LEMMA CompletionForms == CompletionCases <=> CompletionIsTheTerminal
BY DEF CompletionCases, CompletedBy, CompletionIsTheTerminal, Summary, TerminalQueued

LEMMA CompletionGrows ==
  ASSUME TypeOK, AckInv, CompletionCases, UNCHANGED <<completion, failed>>,
         Returned \subseteq Returned',
         \/ lane' = lane
         \/ \E x : lane' = Append(lane, x) /\ (x.kind = "complete" => ~terminal)
  PROVE  CompletionCases'
<1>1. ASSUME NEW i \in DOMAIN lane
      PROVE  /\ i \in DOMAIN lane'
             /\ IsTerminal(i)' <=> IsTerminal(i)
             /\ Summary(i)' = Summary(i)
  <2>1. CASE lane' = lane
    BY <2>1 DEF IsTerminal, Summary
  <2>2. CASE \E x : lane' = Append(lane, x)
    BY <2>2, AppendAt DEF IsTerminal, Summary
  <2> QED BY <2>1, <2>2
<1>2. Settled' <=> Settled
  BY DEF Settled, Pending
<1>3. CASE ~Settled
  BY <1>2, <1>3 DEF CompletionCases
<1>4. CASE \E i : CompletedBy(i)
  <2> PICK i : CompletedBy(i)
    BY <1>4
  <2>1. CompletedBy(i)'
    BY <1>1 DEF CompletedBy
  <2> QED BY <2>1 DEF CompletionCases
<1>5. CASE ~TerminalQueued /\ failed # {} /\ completion.status = "failed"
  <2>1. terminal
    BY <1>5 DEF AckInv, FailuresAreFinal
  <2>2. ~TerminalQueued'
    <3>1. CASE lane' = lane
      BY <1>5, <3>1 DEF TerminalQueued, IsTerminal
    <3>2. CASE \E x : lane' = Append(lane, x) /\ (x.kind = "complete" => ~terminal)
      BY <1>5, <2>1, <3>2, AppendAt DEF TerminalQueued, IsTerminal
    <3> QED BY <3>1, <3>2
  <2> QED BY <1>5, <2>2 DEF CompletionCases
<1> QED BY <1>3, <1>4, <1>5 DEF CompletionCases

LEMMA CompletionLane ==
  ASSUME TypeOK, AckInv, OneTerminalInv, CompletionCases, Lane
  PROVE  CompletionCases'
<1>1. lane' = lane
  BY LaneFrame
<1>2. pos \in 0..Len(lane) /\ (busy => pos \in 1..Len(lane)) /\ DOMAIN lane = 1..Len(lane)
      /\ Len(lane) \in Nat
  BY DEF TypeOK, LaneTypeOK, WireTypeOK
<1>3. Returned \subseteq Returned'
  <2>1. CASE RunStep
    BY <1>2, <2>1 DEF RunStep, Returned
  <2>2. CASE SinkSettles
    <3>1. busy /\ ~busy' /\ pos' = pos
      BY <2>2 DEF SinkSettles, PageAccepted, StepDone, CompleteDelivered, StepFailed,
                  InFlight
    <3> QED BY <1>2, <3>1 DEF Returned
  <2> QED BY <2>1, <2>2 DEF Lane
<1>4. CASE RunStep \/ PageAccepted \/ StepDone
  <2>1. UNCHANGED <<completion, failed>>
    BY <1>4 DEF RunStep, PageAccepted, StepDone
  <2> QED BY <1>1, <1>3, <2>1, CompletionGrows
<1>5. CASE CompleteDelivered
  <2>1. /\ busy /\ ~busy' /\ pos' = pos /\ UNCHANGED failed
        /\ pos \in DOMAIN lane /\ IsTerminal(pos)
    BY <1>2, <1>5 DEF CompleteDelivered, InFlight, IsTerminal
  <2>2. CASE Settled
    <3>1. UNCHANGED <<completion, failed>>
      BY <1>5, <2>1, <2>2 DEF CompleteDelivered, SettleCompletion
    <3> QED BY <1>1, <1>3, <3>1, CompletionGrows
  <2>3. CASE ~Settled
    <3>1. completion' = Summary(pos)
      BY <1>5, <2>3 DEF CompleteDelivered, SettleCompletion, Summary
    <3>2. CompletedBy(pos)'
      BY <1>1, <1>2, <2>1, <3>1 DEF CompletedBy, Returned, IsTerminal, Summary
    <3> QED BY <3>2 DEF CompletionCases
  <2> QED BY <2>2, <2>3
<1>6. CASE StepFailed
  <2>1. failed' = failed \cup {pos}
    BY <1>6 DEF StepFailed
  <2>2. CASE completion' = completion
    <3>1. CASE ~Settled
      BY <2>2, <3>1 DEF CompletionCases, Settled, Pending
    <3>2. CASE \E i : CompletedBy(i)
      BY <1>1, <1>3, <2>2, <3>2 DEF CompletionCases, CompletedBy, IsTerminal, Summary
    <3>3. CASE ~TerminalQueued /\ failed # {} /\ completion.status = "failed"
      <4>1. ~TerminalQueued'
        BY <1>1, <3>3 DEF TerminalQueued, IsTerminal
      <4> QED BY <2>1, <2>2, <3>3, <4>1 DEF CompletionCases
    <3> QED BY <3>1, <3>2, <3>3 DEF CompletionCases
  <2>3. CASE completion' = SinkError /\ ~terminal
    <3>1. ~TerminalQueued'
      BY <1>1, <2>3 DEF OneTerminalInv, TerminalQueued, IsTerminal
    <3> QED BY <2>1, <2>3, <3>1 DEF CompletionCases, SinkError
  <2> QED BY <1>6, <2>2, <2>3 DEF StepFailed, SettleCompletion
<1> QED BY <1>4, <1>5, <1>6 DEF Lane, SinkSettles

LEMMA CompletionStep ==
  TypeOK /\ AckInv /\ OneTerminalInv /\ CompletionCases /\ [Next]_vars => CompletionCases'
<1> SUFFICES ASSUME TypeOK, AckInv, OneTerminalInv, CompletionCases, [Next]_vars
             PROVE  CompletionCases'
  OBVIOUS
<1>1. CASE Lane
  BY <1>1, CompletionLane
<1>2. CASE UNCHANGED vars \/ (Next /\ ~Lane)
  <2>1. UNCHANGED laneVars
    BY <1>2, OtherEffect DEF vars
  <2>2. UNCHANGED <<completion, failed>> /\ Returned \subseteq Returned'
    BY <2>1 DEF laneVars, Returned
  <2>3. \/ lane' = lane
        \/ \E x : lane' = Append(lane, x) /\ (x.kind = "complete" => ~terminal)
    <3>1. CASE UNCHANGED vars
      BY <3>1 DEF vars, wireVars
    <3>2. CASE LaneEffect
      <4>1. CASE KeepsLane
        BY <4>1 DEF KeepsLane
      <4>2. CASE \E rs \in ResultSets : QueuesMetadata(rs)
        BY <4>2 DEF QueuesMetadata
      <4>3. CASE \E n \in Notifications : QueuesPage(n)
        BY <4>3 DEF QueuesPage
      <4>4. CASE \E e \in BOOLEAN : QueuesMessage(e)
        BY <4>4 DEF QueuesMessage
      <4>5. CASE QueuesAccepted
        BY <4>5 DEF QueuesAccepted
      <4>6. CASE \E status \in CompletionStatus : QueuesComplete(status)
        BY <4>6 DEF QueuesComplete
      <4> QED BY <3>2, <4>1, <4>2, <4>3, <4>4, <4>5, <4>6 DEF LaneEffect
    <3> QED BY <1>2, <3>1, <3>2, OtherEffect
  <2> QED BY <2>2, <2>3, CompletionGrows
<1> QED BY <1>1, <1>2

(* The completion settles with what onComplete was called with, after it   *)
(* returned, or with the failure of a query that gets no onComplete.       *)
THEOREM CompletionCorrect == Spec => []CompletionIsTheTerminal
<1> DEFINE I == TypeOK /\ AckInv /\ OneTerminalInv /\ CompletionCases
<1>1. Init => I
  <2>1. Init => OneTerminalInv /\ CompletionCases
    BY DEF Init, OneTerminalInv, OneTerminal, TerminalQueued, CompletionCases, Settled
  <2> QED BY <2>1, InitTypeOK, InitAck
<1>2. I /\ [Next]_vars => I'
  BY NextTypeOK, AckStep, OneTerminalStep, CompletionStep
<1>3. I => CompletionIsTheTerminal
  BY CompletionForms
<1> QED BY <1>1, <1>2, <1>3, PTL DEF Spec

(***************************************************************************)
(* The order of the pages.  An open ledger is the shadow of the last step  *)
(* of the lane about its result set.                                       *)
(***************************************************************************)

Mirrors(entry, i) ==
  \/ lane[i].kind = "resultSet" /\ entry.page = 0 /\ entry.row = 0
  \/ /\ IsPage(i)
     /\ entry.page = lane[i].seq + 1
     /\ entry.row = lane[i].off + lane[i].n

LastMirrored(rs, entry, i) ==
  i \in DOMAIN lane /\ LastAbout(rs, i, Len(lane) + 1) /\ Mirrors(entry, i)

LedgerInv ==
  \A rs \in ResultSets :
    ledger[rs].open => \E i : LastMirrored(rs, ledger[rs], i)

LEMMA LedgerKept ==
  ASSUME LedgerInv, PagesInOrder, lane' = lane, ledger' = ledger
  PROVE  LedgerInv' /\ PagesInOrder'
BY DEF LedgerInv, LastMirrored, LastAbout, About, Mirrors, PagesInOrder, IsPage, Continues

(* What is said of earlier steps stays true when the lane grows.           *)
LEMMA AboutGrows ==
  ASSUME TypeOK, NEW x, lane' = Append(lane, x), NEW rs, NEW i \in DOMAIN lane,
         NEW k \in 1..Len(lane) + 1, LastAbout(rs, i, k)
  PROVE  LastAbout(rs, i, k)'
<1>1. Len(lane) \in Nat /\ DOMAIN lane = 1..Len(lane)
      /\ \A j \in 1..Len(lane) : lane'[j] = lane[j]
  BY AppendAt
<1>2. \A j \in i + 1..k - 1 : j \in 1..Len(lane)
  BY <1>1
<1> QED BY <1>1, <1>2 DEF LastAbout, About

(* A step about no result set, or about another, leaves the last one last. *)
LEMMA MirrorGrows ==
  ASSUME TypeOK, NEW x, lane' = Append(lane, x), NEW rs, NEW entry, NEW i,
         LastMirrored(rs, entry, i),
         ~(x.kind \in {"resultSet", "rows"} /\ x.rs = rs)
  PROVE  LastMirrored(rs, entry, i)'
<1>1. /\ Len(lane) \in Nat /\ DOMAIN lane = 1..Len(lane)
      /\ DOMAIN lane' = 1..Len(lane) + 1 /\ Len(lane') = Len(lane) + 1
      /\ \A j \in 1..Len(lane) : lane'[j] = lane[j]
      /\ lane'[Len(lane) + 1] = x
  <2>1. Len(lane') = Len(lane) + 1
    BY DEF TypeOK, WireTypeOK
  <2> QED BY <2>1, AppendAt
<1>2. i \in 1..Len(lane) /\ LastAbout(rs, i, Len(lane) + 1) /\ Mirrors(entry, i)
  BY <1>1 DEF LastMirrored
<1>3. i < Len(lane') + 1 /\ About(rs, i)'
  BY <1>1, <1>2 DEF LastAbout, About
<1>4. ASSUME NEW j \in i + 1..Len(lane') PROVE ~About(rs, j)'
  <2>1. CASE j = Len(lane) + 1
    BY <1>1, <2>1 DEF About
  <2>2. CASE j \in i + 1..Len(lane)
    BY <1>1, <1>2, <2>2 DEF LastAbout, About
  <2> QED BY <1>1, <1>2, <2>1, <2>2
<1>5. Mirrors(entry, i)'
  BY <1>1, <1>2 DEF Mirrors, IsPage
<1>6. LastAbout(rs, i, Len(lane) + 1)'
  BY <1>1, <1>2, <1>3, <1>4 DEF LastAbout
<1> QED BY <1>1, <1>2, <1>5, <1>6 DEF LastMirrored

(* A new step about rs is the last one about it.                           *)
LEMMA MirrorNew ==
  ASSUME TypeOK, NEW x, lane' = Append(lane, x), NEW entry, NEW k,
         k = Len(lane) + 1,
         \/ x.kind = "resultSet" /\ entry.page = 0 /\ entry.row = 0
         \/ /\ x.kind = "rows"
            /\ entry.page = x.seq + 1
            /\ entry.row = x.off + x.n
  PROVE  LastMirrored(x.rs, entry, k)'
<1>1. /\ Len(lane) \in Nat /\ DOMAIN lane' = 1..Len(lane) + 1
      /\ Len(lane') = Len(lane) + 1 /\ lane'[Len(lane) + 1] = x
  <2>1. Len(lane') = Len(lane) + 1
    BY DEF TypeOK, WireTypeOK
  <2> QED BY <2>1, AppendAt
<1>2. Len(lane)' = Len(lane) + 1
  BY <1>1
<1> QED BY <1>1, <1>2 DEF LastMirrored, LastAbout, About, Mirrors, IsPage

PageContinues(k) ==
  \E i \in DOMAIN lane : LastAbout(lane[k].rs, i, k) /\ Continues(i, k)

(* Appending anything but a page keeps the pages' order.                   *)
LEMMA PagesGrow ==
  ASSUME TypeOK, PagesInOrder, NEW x, lane' = Append(lane, x),
         NEW k \in DOMAIN lane, IsPage(k)'
  PROVE  PageContinues(k)'
<1>1. /\ Len(lane) \in Nat /\ DOMAIN lane = 1..Len(lane)
      /\ DOMAIN lane' = 1..Len(lane) + 1
      /\ \A j \in 1..Len(lane) : lane'[j] = lane[j]
  BY AppendAt
<1>2. IsPage(k)
  BY <1>1 DEF IsPage
<1> PICK i \in DOMAIN lane : LastAbout(lane[k].rs, i, k) /\ Continues(i, k)
  BY <1>2 DEF PagesInOrder
<1>3. LastAbout(lane[k].rs, i, k)'
  <2>1. \A rs : LastAbout(rs, i, k) => LastAbout(rs, i, k)'
    BY <1>1, AboutGrows
  <2>2. lane'[k].rs = lane[k].rs
    BY <1>1
  <2>3. LastAbout(lane[k].rs, i, k)
    OBVIOUS
  <2>4. PICK rs : rs = lane[k].rs
    OBVIOUS
  <2>5. LastAbout(rs, i, k)'
    BY <2>1, <2>3, <2>4
  <2> QED BY <2>2, <2>4, <2>5 DEF LastAbout, About
<1>4. Continues(i, k)'
  BY <1>1 DEF Continues, IsPage
<1> QED BY <1>1, <1>3, <1>4 DEF PageContinues

PagesInv == PagesInOrder /\ LedgerInv

(* A callback about no result set.                                         *)
LEMMA PlainStep ==
  ASSUME TypeOK, PagesInv, NEW x, lane' = Append(lane, x), ledger' = ledger,
         x.kind \notin {"resultSet", "rows"}
  PROVE  PagesInv'
<1>1. DOMAIN lane = 1..Len(lane) /\ DOMAIN lane' = 1..Len(lane) + 1
      /\ lane'[Len(lane) + 1] = x /\ Len(lane) \in Nat
  BY AppendAt
<1>2. PagesInOrder'
  <2> SUFFICES ASSUME NEW k \in DOMAIN lane', IsPage(k)' PROVE PageContinues(k)'
    BY DEF PagesInOrder, PageContinues
  <2>1. k # Len(lane) + 1
    BY <1>1 DEF IsPage
  <2> QED BY <1>1, <2>1, PagesGrow DEF PagesInv
<1>3. LedgerInv'
  <2> SUFFICES ASSUME NEW rs \in ResultSets, ledger'[rs].open
               PROVE  \E i : LastMirrored(rs, ledger[rs], i)'
    BY DEF LedgerInv
  <2>1. PICK i : LastMirrored(rs, ledger[rs], i)
    BY DEF PagesInv, LedgerInv
  <2>2. PICK entry : entry = ledger[rs]
    OBVIOUS
  <2>3. LastMirrored(rs, entry, i)
    BY <2>1, <2>2
  <2>4. LastMirrored(rs, entry, i)'
    BY <2>3, MirrorGrows
  <2> QED BY <2>2, <2>4
<1> QED BY <1>2, <1>3 DEF PagesInv

(* A callback about result set rs whose ledger entry it sets.              *)
LEMMA LedgerStep ==
  ASSUME TypeOK, PagesInv, NEW x, lane' = Append(lane, x), NEW entry,
         x.rs \in ResultSets,
         ledger' = [ledger EXCEPT ![x.rs] = entry],
         \/ x.kind = "resultSet" /\ entry.page = 0 /\ entry.row = 0
         \/ /\ x.kind = "rows"
            /\ entry.page = x.seq + 1
            /\ entry.row = x.off + x.n
  PROVE  LedgerInv'
<1> SUFFICES ASSUME NEW rs \in ResultSets, ledger'[rs].open
             PROVE  \E i : LastMirrored(rs, ledger[rs], i)'
  BY DEF LedgerInv
<1>1. CASE rs = x.rs
  <2>1. ledger'[rs] = entry
    BY <1>1 DEF TypeOK, WireTypeOK
  <2>2. PICK k : k = Len(lane) + 1
    OBVIOUS
  <2>3. LastMirrored(x.rs, entry, k)'
    BY <2>2, MirrorNew
  <2> QED BY <1>1, <2>1, <2>3
<1>2. CASE rs # x.rs
  <2>1. ledger'[rs] = ledger[rs]
    BY <1>2 DEF TypeOK, WireTypeOK
  <2>2. PICK i : LastMirrored(rs, ledger[rs], i)
    BY <2>1 DEF PagesInv, LedgerInv
  <2>3. PICK old : old = ledger[rs]
    OBVIOUS
  <2>4. LastMirrored(rs, old, i)
    BY <2>2, <2>3
  <2>5. LastMirrored(rs, old, i)'
    BY <1>2, <2>4, MirrorGrows
  <2> QED BY <2>1, <2>3, <2>5
<1> QED BY <1>1, <1>2

LEMMA MetadataStepOrdered ==
  ASSUME TypeOK, PagesInv, NEW rs \in ResultSets, QueuesMetadata(rs)
  PROVE  PagesInv'
<1> DEFINE x == [kind |-> "resultSet", rs |-> rs]
           entry == [open |-> TRUE, page |-> 0, row |-> 0]
<1>1. x.kind = "resultSet" /\ x.rs = rs /\ lane' = Append(lane, x)
      /\ ledger' = [ledger EXCEPT ![x.rs] = entry]
      /\ entry.page = 0 /\ entry.row = 0
  BY DEF QueuesMetadata
<1> HIDE DEF x, entry
<1>2. LedgerInv'
  BY <1>1, LedgerStep
<1>3. PagesInOrder'
  <2> SUFFICES ASSUME NEW k \in DOMAIN lane', IsPage(k)' PROVE PageContinues(k)'
    BY DEF PagesInOrder, PageContinues
  <2>1. k \in DOMAIN lane
    BY <1>1, AppendAt DEF IsPage
  <2> QED BY <1>1, <2>1, PagesGrow DEF PagesInv
<1> QED BY <1>2, <1>3 DEF PagesInv

LEMMA PageStepOrdered ==
  ASSUME TypeOK, PagesInv, NEW n \in Notifications, QueuesPage(n)
  PROVE  PagesInv'
<1> DEFINE x == [kind |-> "rows", rs |-> n.rs, seq |-> n.seq, off |-> n.off,
                 n |-> n.n, ord |-> ordinal]
           entry == [open |-> TRUE, page |-> ledger[n.rs].page + 1,
                     row |-> ledger[n.rs].row + n.n]
<1>1. n.rs \in ResultSets
  BY DEF QueuesPage, Notifications
<1>2. ledger[n.rs].open /\ n.seq = ledger[n.rs].page /\ n.off = ledger[n.rs].row
  BY DEF QueuesPage, ContinuesLedger
<1>3. /\ x.kind = "rows" /\ x.rs = n.rs /\ x.seq = n.seq /\ x.off = n.off
      /\ lane' = Append(lane, x)
      /\ ledger' = [ledger EXCEPT ![x.rs] = entry]
      /\ entry.page = x.seq + 1 /\ entry.row = x.off + x.n
  BY <1>2 DEF QueuesPage
<1> HIDE DEF x, entry
<1>4. LedgerInv'
  BY <1>1, <1>3, LedgerStep
<1>5. /\ Len(lane) \in Nat /\ DOMAIN lane = 1..Len(lane)
      /\ DOMAIN lane' = 1..Len(lane) + 1 /\ lane'[Len(lane) + 1] = x
      /\ \A j \in 1..Len(lane) : lane'[j] = lane[j]
  BY <1>3, AppendAt
<1>6. ASSUME NEW k, k = Len(lane) + 1
      PROVE  PageContinues(k)'
  <2>1. PICK i : LastMirrored(n.rs, ledger[n.rs], i)
    BY <1>1, <1>2 DEF PagesInv, LedgerInv
  <2>2. /\ i \in DOMAIN lane /\ LastAbout(n.rs, i, k)
        /\ Mirrors(ledger[n.rs], i)
    BY <1>6, <2>1 DEF LastMirrored
  <2>3. LastAbout(n.rs, i, k)'
    BY <1>3, <1>5, <1>6, <2>2, AboutGrows
  <2>4. lane'[k].rs = n.rs /\ i \in DOMAIN lane'
    BY <1>3, <1>5, <1>6, <2>2
  <2>5. LastAbout(lane[k].rs, i, k)'
    BY <2>3, <2>4 DEF LastAbout, About
  <2>6. Continues(i, k)'
    BY <1>2, <1>3, <1>5, <1>6, <2>2 DEF Continues, Mirrors, IsPage
  <2> QED BY <2>4, <2>5, <2>6 DEF PageContinues
<1>7. PagesInOrder'
  <2> SUFFICES ASSUME NEW k \in DOMAIN lane', IsPage(k)' PROVE PageContinues(k)'
    BY DEF PagesInOrder, PageContinues
  <2> QED BY <1>3, <1>5, <1>6, PagesGrow DEF PagesInv
<1> QED BY <1>4, <1>7 DEF PagesInv

LEMMA PagesStep == TypeOK /\ PagesInv /\ [Next]_vars => PagesInv'
<1> SUFFICES ASSUME TypeOK, PagesInv, [Next]_vars PROVE PagesInv'
  OBVIOUS
<1>1. CASE UNCHANGED vars
  BY <1>1, LedgerKept DEF vars, wireVars, PagesInv
<1>2. CASE Lane
  BY <1>2, LaneFrame, LedgerKept DEF PagesInv
<1>3. CASE Next /\ ~Lane
  <2>1. LaneEffect
    BY <1>3, OtherEffect
  <2>2. CASE KeepsLane
    BY <2>2, LedgerKept DEF KeepsLane, PagesInv
  <2>3. CASE \E rs \in ResultSets : QueuesMetadata(rs)
    BY <2>3, MetadataStepOrdered
  <2>4. CASE \E n \in Notifications : QueuesPage(n)
    BY <2>4, PageStepOrdered
  <2>5. CASE \E e \in BOOLEAN : QueuesMessage(e)
    BY <2>5, PlainStep DEF QueuesMessage
  <2>6. CASE QueuesAccepted
    BY <2>6, PlainStep DEF QueuesAccepted
  <2>7. CASE \E status \in CompletionStatus : QueuesComplete(status)
    BY <2>7, PlainStep DEF QueuesComplete
  <2> QED BY <2>1, <2>2, <2>3, <2>4, <2>5, <2>6, <2>7 DEF LaneEffect
<1> QED BY <1>1, <1>2, <1>3

(* Whatever the peer sends, the sink sees each result set's metadata first *)
(* and then its pages, without a gap, a repetition or a hole in the rows.  *)
THEOREM PagesInOrderCorrect == Spec => []PagesInOrder
<1>1. Init => TypeOK /\ PagesInv
  <2>1. Init => PagesInOrder
    BY DEF Init, PagesInOrder
  <2>2. Init => LedgerInv
    BY DEF Init, LedgerInv, NoLedger
  <2> QED BY <2>1, <2>2, InitTypeOK DEF PagesInv
<1>2. TypeOK /\ PagesInv /\ [Next]_vars => (TypeOK /\ PagesInv)'
  BY NextTypeOK, PagesStep
<1>3. PagesInv => PagesInOrder
  BY DEF PagesInv
<1> QED BY <1>1, <1>2, <1>3, PTL DEF Spec

(***************************************************************************)
(* Sts2Query refines QueryContract, for every stream, window, sink and     *)
(* peer.  The contract leaves out what the binding does not keep (see its  *)
(* header).                                                                *)
(***************************************************************************)

Calls == SubSeq(lane, 1, pos)

(* What the sink may be told under the acceptance the handle has.          *)
Permitted(kind) ==
  /\ kind \in {"resultSet", "rows", "message"} => accepted = "accepted"
  /\ accepted = "rejected" => kind = "complete"

LaneIsPermitted == \A i \in DOMAIN lane : Permitted(lane[i].kind)

(* A query is delivered to only once it has an id, and an acceptance that  *)
(* is not "accepted" belongs to a query that has ended.                    *)
EndedUnaccepted ==
  /\ registered => HasId
  /\ exec = "rejected" => terminal
  /\ accepted = "rejected" => exec = "rejected"
  /\ accepted = "aborted" => terminal

PermitInv == LaneIsPermitted /\ EndedUnaccepted

(* What the refinement needs to know of the binding's states.              *)
RefineInv ==
  /\ TypeOK /\ AckInv /\ OneTerminalInv /\ CompletionCases /\ PagesInv
  /\ AcceptanceInv /\ LaneIsPermitted /\ EndedUnaccepted

(* The callbacks made so far, seen on the lane.                            *)
LEMMA CallsAre ==
  ASSUME TypeOK
  PROVE  /\ Len(Calls) = pos
         /\ DOMAIN Calls = 1..pos
         /\ \A i \in 1..pos : i \in DOMAIN lane /\ Calls[i] = lane[i]
BY DEF TypeOK, WireTypeOK, LaneTypeOK, Calls

(* A longer lane shows the same callbacks.                                 *)
LEMMA CallsKept ==
  ASSUME TypeOK, pos' = pos, lane' = lane \/ \E x : lane' = Append(lane, x)
  PROVE  Calls' = Calls
<1>1. /\ pos \in 0..Len(lane) /\ Len(lane) \in Nat
      /\ Len(lane') \in Nat /\ pos \in 0..Len(lane')
      /\ \A i \in 1..Len(lane) : lane'[i] = lane[i]
  BY DEF TypeOK, WireTypeOK, LaneTypeOK
<1>2. SubSeq(lane', 1, pos) = [i \in 1..pos |-> lane'[i]]
  BY <1>1
<1>3. SubSeq(lane, 1, pos) = [i \in 1..pos |-> lane[i]]
  BY <1>1
<1> QED BY <1>1, <1>2, <1>3 DEF Calls

LEMMA CallsGrow ==
  ASSUME TypeOK, pos < Len(lane), lane' = lane, pos' = pos + 1
  PROVE  Calls' = Append(Calls, lane[pos + 1])
BY DEF TypeOK, WireTypeOK, LaneTypeOK, Calls

(* The acceptance changes once, out of pending.                            *)
LEMMA AcceptanceMoves ==
  ASSUME TypeOK, Next, accepted' # accepted
  PROVE  accepted = "pending" /\ accepted' \in {"accepted", "rejected", "aborted"}
<1>1. accepted = "pending" \/ accepted' = accepted
  <2> SUFFICES ASSUME accepted # "pending" PROVE accepted' = accepted
    OBVIOUS
  <2> USE DEF startVars
  <2>1. CASE Server
    BY <2>1 DEF Server, ServerResultSet, ServerRows, ServerMessage, ServerFinish,
       ServerFail, ServerComplete, WireFault, Notify
  <2>2. CASE Start
    BY <2>2 DEF Start, ExecuteAccepted, ReplayOrphan, EnqueueAccepted,
       ExecuteRejected, SettleAccepted
  <2>3. CASE Lane
    BY <2>3, LaneFrame
  <2>4. CASE Control
    BY <2>4 DEF Control, CancelCall, CancelGetsId, CancelAnswered, CancelFrame,
       CancelDeadline, DisposeCall, DisposeGetsId, DisposeAcknowledged,
       DisposeFailed, DrainDeadline, NoTerminal, SynthesizeTerminal, SettleAccepted
  <2>5. CASE Session
    BY <2>5 DEF Session, OnFatal, MarkLost, CloseCall, CloseDone, BackendDispose,
       BackendDisposed, EndActiveQuery, NoTerminal, SynthesizeTerminal, SettleAccepted
  <2> QED BY <2>1, <2>2, <2>3, <2>4, <2>5 DEF Next
<1>2. TypeOK'
  BY NextTypeOK
<1> QED BY <1>1, <1>2 DEF TypeOK, ControlTypeOK

LEMMA TerminalIsKept ==
  ASSUME TypeOK, Next, terminal
  PROVE  terminal'
<1>1. CASE Lane
  BY <1>1, LaneKeepsTerminal
<1>2. CASE ~Lane
  BY <1>2, OtherEffect DEF LaneEffect, KeepsLane, QueuesMetadata, QueuesPage,
     QueuesMessage, QueuesAccepted, QueuesComplete
<1> QED BY <1>1, <1>2

LEMMA SynthesizeEnds ==
  ASSUME NEW status, SynthesizeTerminal(status)
  PROVE  terminal'
BY DEF SynthesizeTerminal, FinishTerminal

(* The steps that settle the acceptance or answer the execute request.     *)
LEMMA EndedUnacceptedStep ==
  ASSUME TypeOK, EndedUnaccepted, Next
  PROVE  EndedUnaccepted'
<1> USE DEF startVars, demuxVars
<1>1. terminal => terminal'
  BY TerminalIsKept
<1>2. CASE Server
  <2>1. \E n \in Notifications : Notify(n)
    BY <1>2, ServerNotifies
  <2>2. exec' = exec /\ accepted' = accepted /\ (registered' <=> registered)
    BY <2>1 DEF Notify
  <2> QED BY <1>1, <2>2 DEF EndedUnaccepted, HasId
<1>3. CASE ExecuteAccepted
  BY <1>1, <1>3 DEF ExecuteAccepted, SettleAccepted, EndedUnaccepted, HasId
<1>4. CASE ReplayOrphan
  BY <1>1, <1>4 DEF ReplayOrphan, EndedUnaccepted, HasId
<1>5. CASE EnqueueAccepted
  BY <1>1, <1>5 DEF EnqueueAccepted, EndedUnaccepted, HasId
<1>6. CASE ExecuteRejected
  <2>1. terminal' /\ exec = "inflight" /\ exec' = "rejected"
    BY <1>6 DEF ExecuteRejected, FinishTerminal
  <2>2. ~registered /\ (registered' <=> registered)
    BY <1>6, <2>1 DEF ExecuteRejected, EndedUnaccepted, HasId
  <2> QED BY <1>1, <2>1, <2>2 DEF EndedUnaccepted
<1>7. CASE Lane
  <2>1. UNCHANGED <<exec, accepted>>
    BY <1>7, LaneFrame
  <2>2. registered' => registered
    BY <1>7 DEF Lane, RunStep, SinkSettles, PageAccepted, StepDone,
                CompleteDelivered, StepFailed, UnregisterQuery
  <2> QED BY <1>1, <2>1, <2>2 DEF EndedUnaccepted, HasId
<1>8. CASE Control
  <2>1. exec' = exec /\ (registered' <=> registered)
    BY <1>8 DEF Control, CancelCall, CancelGetsId, CancelAnswered, CancelFrame,
       CancelDeadline, DisposeCall, DisposeGetsId, DisposeAcknowledged,
       DisposeFailed, DrainDeadline, DisposeFrame
  <2>2. accepted' = accepted \/ SynthesizeTerminal("canceled")
                            \/ SynthesizeTerminal("disposed")
    BY <1>8 DEF Control, CancelCall, CancelGetsId, CancelAnswered, CancelFrame,
       CancelDeadline, DisposeCall, DisposeGetsId, DisposeAcknowledged,
       DisposeFailed, DrainDeadline, NoTerminal
  <2>3. accepted' = accepted \/ (accepted' = "aborted" /\ terminal')
    BY <2>2, SynthesizeEnds DEF SynthesizeTerminal, SettleAccepted
  <2> QED BY <1>1, <2>1, <2>3 DEF EndedUnaccepted, HasId
<1>9. CASE Session
  <2>1. exec' = exec /\ (registered' => registered)
    BY <1>9 DEF Session, OnFatal, CloseCall, CloseDone, BackendDispose,
       BackendDisposed, SessionFrame
  <2>2. accepted' = accepted \/ SynthesizeTerminal("canceled")
                            \/ SynthesizeTerminal("connectionLost")
    BY <1>9 DEF Session, OnFatal, MarkLost, CloseCall, CloseDone, BackendDispose,
       BackendDisposed, EndActiveQuery, NoTerminal
  <2>3. accepted' = accepted \/ (accepted' = "aborted" /\ terminal')
    BY <2>2, SynthesizeEnds DEF SynthesizeTerminal, SettleAccepted
  <2> QED BY <1>1, <2>1, <2>3 DEF EndedUnaccepted, HasId
<1> QED BY <1>2, <1>3, <1>4, <1>5, <1>6, <1>7, <1>8, <1>9 DEF Next, Start

(* The acceptance settles before anything but its own terminal is queued.  *)
LEMMA AcceptanceSettlesFirst ==
  ASSUME TypeOK, Next, accepted' # accepted
  PROVE  lane' = lane \/ \E status \in CompletionStatus :
           lane' = Append(lane, [kind |-> "complete", status |-> status,
                                 rows |-> totalRows])
<1> USE DEF startVars, wireVars
<1>1. ~Lane
  BY LaneFrame
<1>2. ~Server
  BY DEF Server, ServerResultSet, ServerRows, ServerMessage, ServerFinish,
     ServerFail, ServerComplete, WireFault, Notify
<1>3. CASE Start
  <2>1. ExecuteAccepted \/ ExecuteRejected
    BY <1>3 DEF Start, ReplayOrphan, EnqueueAccepted
  <2>2. CASE ExecuteAccepted
    BY <2>2 DEF ExecuteAccepted
  <2>3. CASE ExecuteRejected
    BY <2>3 DEF ExecuteRejected, FinishTerminal, CompletionStatus
  <2> QED BY <2>1, <2>2, <2>3
<1>4. CASE Control
  <2>1. SynthesizeTerminal("canceled") \/ SynthesizeTerminal("disposed")
    BY <1>4 DEF Control, CancelCall, CancelGetsId, CancelAnswered, CancelFrame,
       CancelDeadline, DisposeCall, DisposeGetsId, DisposeAcknowledged,
       DisposeFailed, DrainDeadline, NoTerminal
  <2> QED BY <2>1 DEF SynthesizeTerminal, FinishTerminal, CompletionStatus
<1>5. CASE Session
  <2>1. SynthesizeTerminal("canceled") \/ SynthesizeTerminal("connectionLost")
    BY <1>5 DEF Session, OnFatal, MarkLost, CloseCall, CloseDone, BackendDispose,
       BackendDisposed, EndActiveQuery, NoTerminal
  <2> QED BY <2>1 DEF SynthesizeTerminal, FinishTerminal, CompletionStatus
<1> QED BY <1>1, <1>2, <1>3, <1>4, <1>5 DEF Next

LEMMA PermittedAppend ==
  ASSUME TypeOK, NEW x, lane' = Append(lane, x), LaneIsPermitted,
         accepted' = accepted, Permitted(x.kind)
  PROVE  LaneIsPermitted'
BY AppendAt DEF LaneIsPermitted, Permitted

LEMMA PermitStep ==
  TypeOK /\ AcceptanceInv /\ PermitInv /\ [Next]_vars => PermitInv'
<1> SUFFICES ASSUME TypeOK, AcceptanceInv, PermitInv, [Next]_vars PROVE PermitInv'
  OBVIOUS
<1>1. CASE UNCHANGED vars
  BY <1>1 DEF vars, wireVars, startVars, demuxVars, PermitInv, LaneIsPermitted,
     Permitted, EndedUnaccepted, HasId
<1>2. CASE Next
  <2>1. EndedUnaccepted'
    BY <1>2, EndedUnacceptedStep DEF PermitInv
  <2>2. CASE Lane
    BY <2>1, <2>2, LaneFrame DEF PermitInv, LaneIsPermitted, Permitted
  <2>3. CASE accepted' # accepted
    <3>1. accepted = "pending"
      BY <1>2, <2>3, AcceptanceMoves
    <3>2. lane = <<>>
      BY <3>1 DEF AcceptanceInv
    <3>3. \A i \in DOMAIN lane' : lane'[i].kind = "complete"
      BY <1>2, <2>3, <3>2, AcceptanceSettlesFirst
    <3> QED BY <2>1, <3>3 DEF PermitInv, LaneIsPermitted, Permitted
  <2>4. CASE ~Lane /\ accepted' = accepted /\ accepted = "pending"
    <3>1. lane' = <<>>
      BY <1>2, <2>4, OpenAcceptanceStep DEF AcceptanceInv
    <3> QED BY <2>1, <3>1 DEF PermitInv, LaneIsPermitted
  <2>5. CASE ~Lane /\ accepted' = accepted /\ accepted # "pending"
    <3>1. LaneEffect
      BY <1>2, <2>5, OtherEffect
    <3>2. ~terminal => accepted = "accepted"
      BY <2>5 DEF PermitInv, EndedUnaccepted, TypeOK, ControlTypeOK
    <3>3. CASE KeepsLane
      BY <2>1, <2>5, <3>3 DEF KeepsLane, PermitInv, LaneIsPermitted, Permitted
    <3>4. CASE \E rs \in ResultSets : QueuesMetadata(rs)
      BY <2>1, <2>5, <3>2, <3>4, PermittedAppend DEF QueuesMetadata, PermitInv, Permitted
    <3>5. CASE \E n \in Notifications : QueuesPage(n)
      BY <2>1, <2>5, <3>2, <3>5, PermittedAppend DEF QueuesPage, PermitInv, Permitted
    <3>6. CASE \E e \in BOOLEAN : QueuesMessage(e)
      BY <2>1, <2>5, <3>2, <3>6, PermittedAppend DEF QueuesMessage, PermitInv, Permitted
    <3>7. CASE QueuesAccepted
      BY <2>1, <2>5, <3>7, PermittedAppend
      DEF QueuesAccepted, PermitInv, EndedUnaccepted, Permitted
    <3>8. CASE \E status \in CompletionStatus : QueuesComplete(status)
      BY <2>1, <2>5, <3>8, PermittedAppend DEF QueuesComplete, PermitInv, Permitted
    <3> QED BY <2>1, <3>1, <3>3, <3>4, <3>5, <3>6, <3>7, <3>8
            DEF LaneEffect, PermitInv
  <2> QED BY <2>2, <2>3, <2>4, <2>5
<1> QED BY <1>1, <1>2

LEMMA InitRefines == Init => Contract!Init
<1> SUFFICES ASSUME Init PROVE Contract!Init
  OBVIOUS
<1>1. SubSeq(lane, 1, pos) = <<>>
  BY DEF Init
<1>2. accepted = "pending" /\ failed = {} /\ acked = -1 /\ completion = Contract!Open
  BY DEF Init, Pending, Contract!Open
<1>3. ~busy
  BY DEF Init
<1>4. busy = FALSE
  BY Zenon DEF Init
<1> QED BY <1>1, <1>2, <1>4 DEF Contract!Init

(* A step of the service, the controls or the session: nothing, or the     *)
(* acceptance settles.                                                     *)
LEMMA OtherRefines ==
  ASSUME RefineInv, Next, ~Lane
  PROVE  [Contract!Next]_Contract!vars
<1>1. LaneEffect /\ UNCHANGED laneVars
  BY OtherEffect DEF RefineInv
<1>2. lane' = lane \/ \E x : lane' = Append(lane, x)
  <2>1. CASE KeepsLane
    BY <2>1 DEF KeepsLane
  <2>2. CASE \E rs \in ResultSets : QueuesMetadata(rs)
    BY <2>2 DEF QueuesMetadata
  <2>3. CASE \E n \in Notifications : QueuesPage(n)
    BY <2>3 DEF QueuesPage
  <2>4. CASE \E e \in BOOLEAN : QueuesMessage(e)
    BY <2>4 DEF QueuesMessage
  <2>5. CASE QueuesAccepted
    BY <2>5 DEF QueuesAccepted
  <2>6. CASE \E status \in CompletionStatus : QueuesComplete(status)
    BY <2>6 DEF QueuesComplete
  <2> QED BY <1>1, <2>1, <2>2, <2>3, <2>4, <2>5, <2>6 DEF LaneEffect
<1>3. SubSeq(lane, 1, pos)' = SubSeq(lane, 1, pos)
  BY <1>1, <1>2, CallsKept DEF laneVars, RefineInv, Calls
<1>4. CASE accepted' = accepted
  BY <1>1, <1>3, <1>4 DEF Contract!vars, laneVars
<1>5. CASE accepted' # accepted
  <2>1. accepted = "pending" /\ accepted' \in {"accepted", "rejected", "aborted"}
    BY <1>5, AcceptanceMoves DEF RefineInv
  <2>2. lane = <<>>
    BY <2>1 DEF RefineInv, AcceptanceInv
  <2>3. SubSeq(lane, 1, pos) = <<>>
    BY <2>2 DEF RefineInv, TypeOK, LaneTypeOK
  <2>4. Contract!SettleAcceptance
    BY <1>1, <1>3, <2>1, <2>3 DEF Contract!SettleAcceptance, laneVars
  <2> QED BY <2>4 DEF Contract!Next
<1> QED BY <1>4, <1>5

(* The next step of the lane is a callback the contract allows.            *)
LEMMA RunStepRefines ==
  ASSUME RefineInv, RunStep
  PROVE  Contract!Call
<1> DEFINE k == pos + 1
<1>1. /\ ~busy /\ busy' = TRUE /\ pos < Len(lane) /\ pos' = k /\ lane' = lane
      /\ UNCHANGED <<accepted, failed, acked, completion>>
  BY DEF RunStep, wireVars, startVars
<1>2. /\ pos \in Nat /\ Len(lane) \in Nat /\ k \in DOMAIN lane /\ DOMAIN lane = 1..Len(lane)
      /\ lane[k] \in Steps
  BY <1>1 DEF RefineInv, TypeOK, LaneTypeOK, WireTypeOK
<1>3. /\ Len(Calls) = pos /\ DOMAIN Calls = 1..pos
      /\ \A i \in 1..pos : i \in DOMAIN lane /\ Calls[i] = lane[i]
  BY CallsAre DEF RefineInv
<1>4. Calls' = Append(Calls, lane[k])
  BY <1>1, CallsGrow DEF RefineInv
<1>5. Len(Calls') = Len(Calls) + 1 /\ Calls'[Len(Calls')] = lane[k]
  <2>1. Calls \in Seq(Steps)
    BY <1>2, <1>3 DEF Calls, RefineInv, TypeOK, WireTypeOK, LaneTypeOK
  <2> QED BY <1>2, <1>4, <2>1
<1>6. lane[k].kind = "accepted" \/ ~Contract!Terminated
  <2> SUFFICES ASSUME Contract!Terminated PROVE lane[k].kind = "accepted"
    OBVIOUS
  <2>1. PICK i \in 1..pos : lane[i].kind = "complete"
    BY <1>3 DEF Contract!Terminated, Calls
  <2>2. i \in DOMAIN lane /\ IsTerminal(i) /\ i < k
    BY <1>2, <1>3, <2>1 DEF IsTerminal
  <2> QED BY <1>2, <2>2 DEF RefineInv, OneTerminalInv, OneTerminal
<1>7. lane[k].kind = "rows" => Contract!PageFollows(lane[k])
  <2> SUFFICES ASSUME lane[k].kind = "rows" PROVE Contract!PageFollows(lane[k])
    OBVIOUS
  <2>1. PICK i \in DOMAIN lane : LastAbout(lane[k].rs, i, k) /\ Continues(i, k)
    BY <1>2 DEF RefineInv, PagesInv, PagesInOrder, IsPage
  <2>2. i \in 1..pos /\ About(lane[k].rs, i)
        /\ \A j \in i + 1..pos : ~About(lane[k].rs, j)
    BY <1>2, <2>1 DEF LastAbout
  <2>3. \A j \in 1..pos : j \in Contract!Earlier(lane[k]) <=> About(lane[k].rs, j)
    BY <1>3 DEF Contract!Earlier, About, Calls
  <2>4. Contract!Earlier(lane[k]) \subseteq 1..pos
    BY <1>3 DEF Contract!Earlier, Calls
  <2>5. i \in Contract!Earlier(lane[k])
    BY <2>2, <2>3
  <2>6. \A j \in Contract!Earlier(lane[k]) : j <= i
    <3> SUFFICES ASSUME NEW j \in Contract!Earlier(lane[k]), ~(j <= i) PROVE FALSE
      OBVIOUS
    <3>1. j \in i + 1..pos
      BY <1>2, <2>2, <2>4
    <3> QED BY <2>2, <2>3, <2>4, <3>1
  <2>7. \/ Calls[i].kind = "resultSet" /\ lane[k].seq = 0 /\ lane[k].off = 0
        \/ /\ Calls[i].kind = "rows"
           /\ lane[k].seq = Calls[i].seq + 1
           /\ lane[k].off = Calls[i].off + Calls[i].n
    BY <1>3, <2>1, <2>2 DEF Continues, IsPage
  <2> QED BY <2>5, <2>6, <2>7 DEF Contract!PageFollows, Calls
<1>8. Contract!NewCall = lane[k]
  BY <1>5 DEF Contract!NewCall, Calls
<1>9. Contract!Permits(lane[k].kind)
  <2>1. accepted # "pending" /\ Permitted(lane[k].kind)
    <3>1. lane # <<>>
      BY <1>2
    <3> QED BY <1>2, <3>1 DEF RefineInv, AcceptanceInv, LaneIsPermitted
  <2> QED BY <2>1 DEF Permitted, Contract!Permits, Contract!StreamKinds
<1>10. lane[k].kind = "complete" => completion = Contract!Open
  <2> SUFFICES ASSUME lane[k].kind = "complete", Settled PROVE FALSE
    BY DEF Settled, Pending, Contract!Open
  <2>1. TerminalQueued
    BY <1>2 DEF TerminalQueued, IsTerminal
  <2>2. PICK i : CompletedBy(i)
    BY <2>1 DEF RefineInv, CompletionCases
  <2>3. i \in DOMAIN lane /\ IsTerminal(i) /\ i < k
    BY <1>2, <2>2 DEF CompletedBy, Returned
  <2> QED BY <1>2, <2>3 DEF RefineInv, OneTerminalInv, OneTerminal
<1> HIDE DEF k
<1> QED BY <1>1, <1>2, <1>4, <1>5, <1>6, <1>7, <1>8, <1>9, <1>10
        DEF Contract!Call, Calls

(* A callback that settles: the contract's Return or Refuse.               *)
LEMMA SettleRefines ==
  ASSUME RefineInv, SinkSettles
  PROVE  Contract!Next
<1>1. /\ busy /\ busy' = FALSE /\ pos' = pos /\ lane' = lane /\ accepted' = accepted
  BY DEF SinkSettles, PageAccepted, StepDone, CompleteDelivered, StepFailed, InFlight,
         wireVars, startVars
<1>2. /\ pos \in 1..Len(lane) /\ Len(lane) \in Nat /\ lane[pos] \in Steps
      /\ totalRows \in Nat
  BY <1>1 DEF RefineInv, TypeOK, LaneTypeOK, WireTypeOK
<1>3. Calls' = Calls /\ Len(Calls) = pos /\ Calls[pos] = lane[pos]
  BY <1>1, <1>2, CallsKept, CallsAre DEF RefineInv
<1>4. Contract!Last = lane[pos]
  BY <1>3 DEF Contract!Last, Calls
<1>5. Pending = Contract!Open
  BY DEF Pending, Contract!Open
<1>6. CASE PageAccepted
  <2>1. UNCHANGED <<failed, completion>> /\ lane[pos].kind = "rows"
    BY <1>6 DEF PageAccepted, InFlight
  <2>2. CASE acked' = acked
    BY <1>1, <1>3, <2>1, <2>2 DEF Contract!Next, Contract!Return, Calls
  <2>3. CASE ~terminal /\ lane[pos].ord > acked /\ acked' = lane[pos].ord
    <3>1. failed = {}
      BY <2>3 DEF RefineInv, AckInv, FailuresAreFinal
    <3>2. completion = Pending
      <4>1. ~TerminalQueued
        BY <2>3 DEF RefineInv, OneTerminalInv
      <4> QED BY <3>1, <4>1 DEF RefineInv, CompletionCases, CompletedBy, Settled,
                                TerminalQueued
    <3>3. acked < lane[pos].ord
      <4>1. IsPage(pos) /\ pos \in DOMAIN lane
        BY <1>2, <2>1 DEF IsPage, RefineInv, TypeOK, WireTypeOK
      <4> QED BY <2>3, <4>1 DEF RefineInv, AckInv, OrdinalsGrow, TypeOK, LaneTypeOK
    <3> QED BY <1>1, <1>3, <1>4, <1>5, <2>1, <2>3, <3>1, <3>2, <3>3
            DEF Contract!Next, Contract!Return, Calls
  <2> QED BY <1>6, <2>2, <2>3 DEF PageAccepted
<1>7. CASE StepDone
  <2>1. UNCHANGED <<failed, completion, acked>>
    BY <1>7 DEF StepDone
  <2> QED BY <1>1, <1>3, <2>1 DEF Contract!Next, Contract!Return, Calls
<1>8. CASE CompleteDelivered
  <2>1. UNCHANGED <<failed, acked>> /\ lane[pos].kind = "complete"
    BY <1>8 DEF CompleteDelivered, InFlight
  <2>2. CASE completion' = completion
    BY <1>1, <1>3, <2>1, <2>2 DEF Contract!Next, Contract!Return, Calls
  <2>3. CASE /\ completion = Pending
             /\ completion' = [status |-> lane[pos].status, rows |-> lane[pos].rows]
    BY <1>1, <1>3, <1>4, <1>5, <2>1, <2>3 DEF Contract!Next, Contract!Return, Calls
  <2> QED BY <1>8, <2>2, <2>3 DEF CompleteDelivered, SettleCompletion, Settled
<1>9. CASE StepFailed
  <2>1. failed' = failed \cup {Len(Calls)} /\ acked' = acked
    BY <1>3, <1>9 DEF StepFailed
  <2>2. CASE completion' = completion
    BY <1>1, <1>3, <2>1, <2>2 DEF Contract!Next, Contract!Refuse, Calls
  <2>3. CASE completion = Pending /\ completion' = SinkError
    <3>1. completion' \in [status : {"failed"}, rows : Nat]
      BY <1>2, <2>3 DEF SinkError
    <3> QED BY <1>1, <1>3, <1>5, <2>1, <2>3, <3>1
            DEF Contract!Next, Contract!Refuse, Calls
  <2> QED BY <1>9, <2>2, <2>3 DEF StepFailed, SettleCompletion, Settled
<1> QED BY <1>6, <1>7, <1>8, <1>9 DEF SinkSettles

LEMMA NextRefines == RefineInv /\ [Next]_vars => [Contract!Next]_Contract!vars
<1> SUFFICES ASSUME RefineInv, [Next]_vars PROVE [Contract!Next]_Contract!vars
  OBVIOUS
<1>1. CASE UNCHANGED vars
  BY <1>1 DEF vars, wireVars, startVars, laneVars, Contract!vars
<1>2. CASE RunStep
  BY <1>2, RunStepRefines DEF Contract!Next
<1>3. CASE SinkSettles
  BY <1>3, SettleRefines
<1>4. CASE Next /\ ~Lane
  BY <1>4, OtherRefines
<1> QED BY <1>1, <1>2, <1>3, <1>4 DEF Lane

(* The binding implements QueryContract: whatever the service, the wire,   *)
(* the sink and the session do, no callback comes before the acceptance    *)
(* is settled, a rejected request has no stream, pages are in order, one   *)
(* onComplete comes and none after a failure by the sink, acks cover       *)
(* accepted pages, and each promise settles once.                          *)
THEOREM ContractImplemented == Spec => ImplementsContract
<1>1. Init => RefineInv
  <2>1. Init => OneTerminalInv /\ CompletionCases
    BY DEF Init, OneTerminalInv, OneTerminal, TerminalQueued, CompletionCases, Settled
  <2>2. Init => PagesInv
    BY DEF Init, PagesInv, PagesInOrder, LedgerInv, NoLedger
  <2>3. Init => AcceptanceInv /\ PermitInv
    BY DEF Init, AcceptanceInv, PermitInv, LaneIsPermitted, EndedUnaccepted, HasId
  <2> QED BY <2>1, <2>2, <2>3, InitTypeOK, InitAck DEF RefineInv, PermitInv
<1>2. RefineInv /\ [Next]_vars => RefineInv'
  BY NextTypeOK, AckStep, OneTerminalStep, CompletionStep, PagesStep,
     AcceptanceStep, PermitStep DEF RefineInv, PermitInv
<1>3. Init => Contract!Init
  BY InitRefines
<1>4. RefineInv /\ [Next]_vars => [Contract!Next]_Contract!vars
  BY NextRefines
<1> QED BY <1>1, <1>2, <1>3, <1>4, PTL DEF Spec, ImplementsContract, Contract!Spec

(***************************************************************************)
(* A success is the whole stream.  What the service has sent and the lane  *)
(* has not seen is in the buffer of early events: the stream goes from     *)
(* what was delivered, event by event of the buffer, to where the service  *)
(* is (Buffered).                                                          *)
(***************************************************************************)

Success == {"succeeded", "completedWithErrors"}

(* How far the stream is: the result set, the page and row in it, the rows *)
(* of the query and whether the terminal was sent.                         *)
StreamStates == [set : Nat, page : Nat, row : Nat, rows : Nat, done : BOOLEAN]

Sent == [set |-> srv.set, page |-> srv.page, row |-> srv.row, rows |-> srv.rows,
         done |-> srv.phase # "running"]

SetIsWhole(s) == s.set > 0 => s.page = plan[s.set]

(* A service that keeps the contract goes from s to t by sending n.        *)
Advances(s, n, t) ==
  /\ ~s.done
  /\ \/ /\ n.kind = "resultSet"
        /\ s.set < Len(plan)
        /\ SetIsWhole(s)
        /\ n.rs = s.set + 1
        /\ t = [set |-> n.rs, page |-> 0, row |-> 0, rows |-> s.rows, done |-> FALSE]
     \/ /\ n.kind = "rows"
        /\ s.set > 0
        /\ n.rs = s.set /\ n.seq = s.page /\ n.off = s.row
        /\ t = [set |-> s.set, page |-> s.page + 1, row |-> s.row + n.n,
                rows |-> s.rows + n.n, done |-> FALSE]
     \/ /\ n.kind = "message"
        /\ t = s
     \/ /\ n.kind = "complete"
        /\ n.status = "succeeded" => s.set = Len(plan) /\ SetIsWhole(s)
        /\ t = [set |-> s.set, page |-> s.page, row |-> s.row, rows |-> s.rows,
                done |-> TRUE]

(* The lane holds the stream up to s.                                      *)
Delivered(s) ==
  /\ ~s.done
  /\ totalRows = s.rows
  /\ \A rs \in ResultSets :
       /\ rs < s.set => Cardinality(PagesOf(rs)) = plan[rs]
       /\ rs = s.set =>
            /\ ledger[rs] = [open |-> TRUE, page |-> s.page, row |-> s.row]
            /\ Cardinality(PagesOf(rs)) = s.page
       /\ rs > s.set => PagesOf(rs) = {}

Positions == 1..Len(orphan) + 1

Chain(st) ==
  /\ Delivered(st[1])
  /\ \A i \in 1..Len(orphan) : Advances(st[i], orphan[i], st[i + 1])
  /\ subscribed \/ st[Len(orphan) + 1].done => st[Len(orphan) + 1] = Sent

Buffered == \E st \in [Positions -> StreamStates] : Chain(st)

StreamOnLane == \A rs \in DOMAIN plan : Cardinality(PagesOf(rs)) = plan[rs]

SuccessIsWhole ==
  \A i \in DOMAIN lane :
    IsTerminal(i) /\ lane[i].status \in Success =>
      /\ srv.phase # "running"
      /\ lane[i].rows = srv.rows
      /\ StreamOnLane

(* No event of a contract-keeping service has been dropped.                *)
Clean == faults = 0 /\ ~overflowed

FlowInv == Clean => (~terminal => Buffered) /\ SuccessIsWhole

LEMMA SentType == ASSUME TypeOK PROVE Sent \in StreamStates
BY DEF TypeOK, ServerTypeOK, ServerStates, Sent, StreamStates

LEMMA PlanType ==
  ASSUME TypeOK
  PROVE  /\ plan \in Seq(Nat) /\ Len(plan) \in Nat /\ DOMAIN plan = 1..Len(plan)
         /\ MaxSets \in Nat /\ DOMAIN plan \subseteq ResultSets
<1>1. plan \in Seq(Nat) /\ Len(plan) <= MaxSets /\ MaxSets \in Nat
  BY ConstantsAssumption DEF ConstantsAssumption, TypeOK, ServerTypeOK
<1> QED BY <1>1 DEF ResultSets

(* What a service that keeps the contract sends continues its stream.      *)
LEMMA ServerAdvances ==
  ASSUME TypeOK, Server, faults' = 0
  PROVE  /\ srv.phase = "running" /\ plan' = plan /\ faults = 0
         /\ \E n \in Notifications : Notify(n) /\ Advances(Sent, n, Sent')
<1> USE DEF Sent
<1>1. srv \in ServerStates /\ faults \in Nat /\ plan' = plan
  <2>1. plan' = plan
    BY DEF Server, ServerResultSet, ServerRows, ServerMessage, ServerFinish,
           ServerFail, ServerComplete, WireFault, Notify
  <2> QED BY <2>1 DEF TypeOK, ServerTypeOK
<1>2. CASE ServerResultSet
  <2> DEFINE n == [kind |-> "resultSet", rs |-> srv.set + 1]
  <2>1. n \in Notifications
    BY <1>2, PlanBound DEF ServerResultSet, TypeOK, Notifications
  <2>2. Notify(n)
    BY <1>2 DEF ServerResultSet
  <2>3. srv' = [srv EXCEPT !.set = @ + 1, !.page = 0, !.row = 0]
    BY <1>2 DEF ServerResultSet
  <2>4. Advances(Sent, n, Sent')
    BY <1>1, <1>2, <2>3 DEF ServerResultSet, ServerStates, Advances, SetIsWhole
  <2> HIDE DEF n
  <2> QED BY <1>1, <1>2, <2>1, <2>2, <2>4 DEF ServerResultSet
<1>3. CASE ServerRows
  <2>1. PICK k \in PageRows :
          /\ srv' = [srv EXCEPT !.page = @ + 1, !.row = @ + k, !.rows = @ + k,
                                !.sent = @ + 1]
          /\ Notify([kind |-> "rows", rs |-> srv.set, seq |-> srv.page,
                     off |-> srv.row, n |-> k])
    BY <1>3 DEF ServerRows
  <2> DEFINE n == [kind |-> "rows", rs |-> srv.set, seq |-> srv.page,
                   off |-> srv.row, n |-> k]
  <2>2. k \in Nat
    BY ConstantsAssumption DEF ConstantsAssumption
  <2>3. srv.set \in ResultSets
    BY <1>3, PlanBound DEF ServerRows, TypeOK
  <2>4. n \in Notifications
    BY <1>1, <2>2, <2>3 DEF ServerStates, Notifications
  <2>5. Advances(Sent, n, Sent')
    BY <1>1, <1>3, <2>1, <2>2 DEF ServerRows, ServerStates, Advances
  <2>6. Notify(n)
    BY <2>1
  <2> HIDE DEF n
  <2> QED BY <1>1, <1>3, <2>4, <2>5, <2>6 DEF ServerRows
<1>4. CASE ServerMessage
  <2>1. PICK e \in BOOLEAN : Notify([kind |-> "message", error |-> e])
    BY <1>4 DEF ServerMessage
  <2> DEFINE n == [kind |-> "message", error |-> e]
  <2>2. n \in Notifications
    BY DEF Notifications
  <2>3. Advances(Sent, n, Sent')
    BY <1>1, <1>4 DEF ServerMessage, ServerStates, Advances
  <2>4. Notify(n)
    BY <2>1
  <2> HIDE DEF n
  <2> QED BY <1>1, <1>4, <2>2, <2>3, <2>4 DEF ServerMessage
<1>5. CASE ServerFinish \/ ServerFail
  <2>1. PICK status \in WireStatus :
          ServerComplete(status) /\ (status = "succeeded" => StreamDone)
    BY <1>5 DEF ServerFinish, ServerFail, WireStatus
  <2> DEFINE n == [kind |-> "complete", status |-> status]
  <2>2. n \in Notifications
    BY DEF Notifications
  <2>3. Advances(Sent, n, Sent')
    BY <1>1, <2>1 DEF ServerComplete, StreamDone, ServerStates, Advances, SetIsWhole
  <2>4. Notify(n)
    BY <2>1 DEF ServerComplete
  <2> HIDE DEF n
  <2> QED BY <1>1, <2>1, <2>2, <2>3, <2>4 DEF ServerComplete
<1>6. CASE WireFault
  BY <1>1, <1>6 DEF WireFault
<1> QED BY <1>2, <1>3, <1>4, <1>5, <1>6 DEF Server

(* A page on the lane is one more of its result set, anything else none.   *)
LEMMA PagesAre ==
  ASSUME TypeOK, NEW rs
  PROVE  IsFiniteSet(PagesOf(rs)) /\ Cardinality(PagesOf(rs)) \in Nat
<1>1. Len(lane) \in Nat /\ DOMAIN lane = 1..Len(lane)
  BY DEF TypeOK, WireTypeOK
<1>2. IsFiniteSet(1..Len(lane))
  BY <1>1, FS_Interval
<1>3. PagesOf(rs) \in SUBSET (1..Len(lane))
  BY <1>1 DEF PagesOf
<1>4. IsFiniteSet(PagesOf(rs))
  BY <1>2, <1>3, FS_Subset
<1> QED BY <1>4, FS_CardinalityType

LEMMA OtherPagesStay ==
  ASSUME TypeOK, NEW x, lane' = Append(lane, x), NEW rs,
         ~(x.kind = "rows" /\ x.rs = rs)
  PROVE  PagesOf(rs)' = PagesOf(rs)
<1>1. /\ Len(lane) \in Nat /\ DOMAIN lane = 1..Len(lane)
      /\ DOMAIN lane' = 1..Len(lane) + 1
      /\ \A i \in 1..Len(lane) : lane'[i] = lane[i]
      /\ lane'[Len(lane) + 1] = x
  BY AppendAt
<1> QED BY <1>1 DEF PagesOf, IsPage

LEMMA PagesGain ==
  ASSUME TypeOK, NEW x, lane' = Append(lane, x), NEW rs,
         x.kind = "rows" /\ x.rs = rs
  PROVE  Cardinality(PagesOf(rs)') = Cardinality(PagesOf(rs)) + 1
<1> DEFINE new == Len(lane) + 1
<1>1. /\ Len(lane) \in Nat /\ DOMAIN lane = 1..Len(lane)
      /\ DOMAIN lane' = 1..Len(lane) + 1
      /\ \A i \in 1..Len(lane) : lane'[i] = lane[i]
      /\ lane'[Len(lane) + 1] = x
  BY AppendAt
<1>2. PagesOf(rs)' = PagesOf(rs) \cup {new}
  BY <1>1 DEF PagesOf, IsPage
<1>3. new \notin PagesOf(rs)
  BY <1>1 DEF PagesOf
<1> HIDE DEF new
<1> QED BY <1>2, <1>3, PagesAre, FS_AddElement

(* An event delivered in its turn takes the lane one event further, or     *)
(* ends the query: by a success only at the end of the stream.             *)
Reached(t) ==
  /\ ~terminal' /\ ~t.done
  /\ Delivered(t)'
  /\ \E x : lane' = Append(lane, x) /\ x.kind # "complete"

Ended(t) ==
  /\ terminal' /\ t.done
  /\ \E x : /\ lane' = Append(lane, x)
            /\ x.kind = "complete" /\ x.rows = t.rows
            /\ x.status \in Success => StreamOnLane

LEMMA EventDelivered ==
  ASSUME TypeOK, ~terminal, plan' = plan, NEW n \in Notifications, OnWire(n),
         NEW s \in StreamStates, NEW t \in StreamStates,
         Delivered(s), Advances(s, n, t)
  PROVE  Reached(t) \/ Ended(t)
<1>1. /\ s.set \in Nat /\ s.page \in Nat /\ s.row \in Nat /\ s.rows \in Nat
      /\ ~s.done /\ totalRows = s.rows
  BY DEF StreamStates, Delivered
<1>2. ledger \in [ResultSets -> Ledgers] /\ \A rs \in ResultSets : rs \in Nat /\ rs > 0
  BY DEF TypeOK, WireTypeOK, ResultSets
<1>3. CASE n.kind = "resultSet"
  <2>1. /\ SetIsWhole(s) /\ n.rs = s.set + 1
        /\ t = [set |-> n.rs, page |-> 0, row |-> 0, rows |-> s.rows, done |-> FALSE]
    BY <1>3 DEF Advances
  <2>2. OnWireResultSet(n)
    BY <1>3 DEF OnWire, DropAfterTerminal, OnWireResultSet, OnWireRows, OnWireMessage,
                OnWireComplete
  <2> DEFINE x == [kind |-> "resultSet", rs |-> n.rs]
  <2>3. /\ x.kind = "resultSet" /\ lane' = Append(lane, x) /\ ~terminal'
        /\ totalRows' = totalRows /\ n.rs \in ResultSets
        /\ ledger' = [ledger EXCEPT ![n.rs] = [open |-> TRUE, page |-> 0, row |-> 0]]
    BY <1>3, <2>2 DEF OnWireResultSet, Notifications
  <2> HIDE DEF x
  <2>4. ASSUME NEW rs PROVE PagesOf(rs)' = PagesOf(rs)
    BY <2>3, OtherPagesStay
  <2>5. ASSUME NEW rs \in ResultSets
        PROVE  /\ rs < t.set => Cardinality(PagesOf(rs)') = plan[rs]
               /\ rs = t.set =>
                    /\ ledger'[rs] = [open |-> TRUE, page |-> t.page, row |-> t.row]
                    /\ Cardinality(PagesOf(rs)') = t.page
               /\ rs > t.set => PagesOf(rs)' = {}
    <3>1. CASE rs < t.set
      <4>1. CASE rs < s.set
        BY <1>1, <1>2, <2>1, <2>4, <3>1, <4>1 DEF Delivered
      <4>2. CASE rs = s.set
        BY <1>1, <1>2, <2>1, <2>4, <3>1, <4>2 DEF Delivered, SetIsWhole
      <4> QED BY <1>1, <1>2, <2>1, <3>1, <4>1, <4>2
    <3>2. CASE rs = t.set
      <4>1. PagesOf(rs) = {}
        BY <1>1, <1>2, <2>1, <3>2 DEF Delivered
      <4>2. Cardinality(PagesOf(rs)') = 0
        BY <2>4, <4>1, FS_EmptySet
      <4>3. ledger'[rs] = [open |-> TRUE, page |-> 0, row |-> 0]
        BY <1>2, <2>1, <2>3, <3>2
      <4> QED BY <1>1, <1>2, <2>1, <3>2, <4>2, <4>3
    <3>3. CASE rs > t.set
      BY <1>1, <1>2, <2>1, <2>4, <3>3 DEF Delivered
    <3> QED BY <1>1, <1>2, <2>1, <3>1, <3>2, <3>3
  <2>6. Delivered(t)'
    BY <1>1, <2>1, <2>3, <2>5 DEF Delivered
  <2> QED BY <2>1, <2>3, <2>6 DEF Reached
<1>4. CASE n.kind = "rows"
  <2>1. /\ s.set > 0 /\ n.rs = s.set /\ n.seq = s.page /\ n.off = s.row
        /\ t = [set |-> s.set, page |-> s.page + 1, row |-> s.row + n.n,
                rows |-> s.rows + n.n, done |-> FALSE]
    BY <1>4 DEF Advances
  <2>2. OnWireRows(n)
    BY <1>4 DEF OnWire, DropAfterTerminal, OnWireResultSet, OnWireRows, OnWireMessage,
                OnWireComplete
  <2>3. n.rs \in ResultSets /\ n.n \in Nat
    BY <1>4 DEF Notifications
  <2>4. /\ ledger[n.rs] = [open |-> TRUE, page |-> s.page, row |-> s.row]
        /\ Cardinality(PagesOf(n.rs)) = s.page
    BY <2>1, <2>3 DEF Delivered
  <2>5. ContinuesLedger(n)
    BY <2>1, <2>4 DEF ContinuesLedger
  <2> DEFINE x == [kind |-> "rows", rs |-> n.rs, seq |-> n.seq, off |-> n.off,
                   n |-> n.n, ord |-> AckOrdinal(n)]
  <2>6. /\ x.kind = "rows" /\ x.rs = n.rs
        /\ lane' = Append(lane, x) /\ ~terminal'
        /\ totalRows' = totalRows + n.n
        /\ ledger' = [ledger EXCEPT ![n.rs] = [open |-> TRUE, page |-> @.page + 1,
                                               row |-> @.row + n.n]]
    BY <2>2, <2>5 DEF OnWireRows
  <2> HIDE DEF x
  <2>7. ASSUME NEW rs, rs # n.rs PROVE PagesOf(rs)' = PagesOf(rs)
    BY <2>6, <2>7, OtherPagesStay
  <2>8. ASSUME NEW rs, rs = n.rs PROVE Cardinality(PagesOf(rs)') = s.page + 1
    <3>1. Cardinality(PagesOf(rs)') = Cardinality(PagesOf(rs)) + 1
      BY <2>6, <2>8, PagesGain
    <3> QED BY <2>4, <2>8, <3>1
  <2>9. ledger'[n.rs] = [open |-> TRUE, page |-> t.page, row |-> t.row]
    BY <1>2, <2>1, <2>3, <2>4, <2>6
  <2>10. ASSUME NEW rs \in ResultSets
         PROVE  /\ rs < t.set => Cardinality(PagesOf(rs)') = plan[rs]
                /\ rs = t.set =>
                     /\ ledger'[rs] = [open |-> TRUE, page |-> t.page, row |-> t.row]
                     /\ Cardinality(PagesOf(rs)') = t.page
                /\ rs > t.set => PagesOf(rs)' = {}
    <3>1. CASE rs = n.rs
      BY <1>1, <2>1, <2>8, <2>9, <3>1
    <3>2. CASE rs # n.rs
      BY <1>1, <1>2, <2>1, <2>7, <3>2 DEF Delivered
    <3> QED BY <3>1, <3>2
  <2>11. Delivered(t)'
    BY <1>1, <2>1, <2>6, <2>10 DEF Delivered
  <2> QED BY <2>1, <2>6, <2>11 DEF Reached
<1>5. CASE n.kind = "message"
  <2>1. OnWireMessage(n) /\ t = s
    BY <1>5 DEF Advances, OnWire, DropAfterTerminal, OnWireResultSet, OnWireRows,
                OnWireMessage, OnWireComplete
  <2> DEFINE x == [kind |-> "message", error |-> n.error]
  <2>2. /\ x.kind = "message" /\ lane' = Append(lane, x) /\ ~terminal'
        /\ UNCHANGED <<ledger, totalRows>>
    BY <2>1 DEF OnWireMessage
  <2> HIDE DEF x
  <2>3. ASSUME NEW rs PROVE PagesOf(rs)' = PagesOf(rs)
    BY <2>2, OtherPagesStay
  <2>4. Delivered(t)'
    BY <2>1, <2>2, <2>3 DEF Delivered
  <2> QED BY <1>1, <2>1, <2>2, <2>4 DEF Reached
<1>6. CASE n.kind = "complete"
  <2>1. /\ n.status = "succeeded" => s.set = Len(plan) /\ SetIsWhole(s)
        /\ t.done /\ t.rows = s.rows /\ n.status \in WireStatus
    BY <1>6 DEF Advances, Notifications
  <2>2. OnWireComplete(n)
    BY <1>6 DEF OnWire, DropAfterTerminal, OnWireResultSet, OnWireRows, OnWireMessage,
                OnWireComplete
  <2> DEFINE x == [kind |-> "complete", status |-> MapStatus(n.status),
                   rows |-> totalRows]
  <2>3. /\ x.kind = "complete" /\ x.rows = t.rows /\ x.status = MapStatus(n.status)
        /\ lane' = Append(lane, x) /\ terminal'
    BY <1>1, <2>1, <2>2 DEF OnWireComplete, FinishTerminal
  <2>4. MapStatus(n.status) \in Success => n.status = "succeeded"
    BY <2>1 DEF MapStatus, Success, WireStatus
  <2>5. ASSUME n.status = "succeeded" PROVE StreamOnLane
    <3> SUFFICES ASSUME NEW rs \in DOMAIN plan PROVE Cardinality(PagesOf(rs)) = plan[rs]
      BY DEF StreamOnLane
    <3>1. rs \in ResultSets /\ rs \in 1..s.set
      BY <2>1, <2>5, PlanType
    <3>2. CASE rs < s.set
      BY <3>1, <3>2 DEF Delivered
    <3>3. CASE rs = s.set
      BY <1>1, <2>1, <2>5, <3>1, <3>3 DEF Delivered, SetIsWhole
    <3> QED BY <1>1, <3>1, <3>2, <3>3
  <2> HIDE DEF x
  <2> QED BY <2>1, <2>3, <2>4, <2>5 DEF Ended
<1> QED BY <1>3, <1>4, <1>5, <1>6 DEF Notifications

(* The terminal on the lane stays what it was: nothing of the stream is    *)
(* queued behind it, and the service sends nothing more.                   *)
StreamIsOver == srv.phase # "running" => srv'.phase # "running" /\ srv'.rows = srv.rows

QueuesNoSuccess ==
  \/ lane' = lane
  \/ \E x : /\ lane' = Append(lane, x)
            /\ x.kind = "rows" => ~terminal
            /\ ~(x.kind = "complete" /\ x.status \in Success)

LEMMA SuccessStays ==
  ASSUME TypeOK, OneTerminalInv, SuccessIsWhole, plan' = plan, StreamIsOver,
         QueuesNoSuccess
  PROVE  SuccessIsWhole'
<1> SUFFICES ASSUME NEW i \in DOMAIN lane', IsTerminal(i)', lane'[i].status \in Success
             PROVE  /\ srv'.phase # "running"
                    /\ lane'[i].rows = srv'.rows
                    /\ StreamOnLane'
  BY DEF SuccessIsWhole
<1>1. i \in DOMAIN lane /\ lane'[i] = lane[i]
  <2>1. CASE lane' = lane
    BY <2>1
  <2>2. CASE \E x : /\ lane' = Append(lane, x)
                    /\ ~(x.kind = "complete" /\ x.status \in Success)
    <3> PICK x : /\ lane' = Append(lane, x)
                 /\ ~(x.kind = "complete" /\ x.status \in Success)
      BY <2>2
    <3> QED BY AppendAt DEF IsTerminal
  <2> QED BY <2>1, <2>2 DEF QueuesNoSuccess
<1>2. /\ IsTerminal(i) /\ lane[i].status \in Success
      /\ srv.phase # "running" /\ lane[i].rows = srv.rows /\ StreamOnLane
  BY <1>1 DEF IsTerminal, SuccessIsWhole
<1>3. terminal
  BY <1>1, <1>2 DEF OneTerminalInv, TerminalQueued
<1>4. ASSUME NEW rs PROVE PagesOf(rs)' = PagesOf(rs)
  <2>1. CASE lane' = lane
    BY <2>1 DEF PagesOf, IsPage
  <2>2. CASE \E x : lane' = Append(lane, x) /\ x.kind # "rows"
    BY <2>2, OtherPagesStay
  <2> QED BY <1>3, <2>1, <2>2 DEF QueuesNoSuccess
<1>5. StreamOnLane'
  BY <1>2, <1>4 DEF StreamOnLane
<1> QED BY <1>1, <1>2, <1>5 DEF StreamIsOver

(* No success is on the lane of a query that is not over; so the success   *)
(* that ends it is the only one.                                           *)
LEMMA SuccessComes ==
  ASSUME TypeOK, OneTerminalInv, ~terminal, plan' = plan, NEW x, lane' = Append(lane, x),
         x.kind = "complete",
         x.status \in Success =>
           srv'.phase # "running" /\ x.rows = srv'.rows /\ StreamOnLane
  PROVE  SuccessIsWhole'
<1>1. /\ Len(lane) \in Nat /\ DOMAIN lane = 1..Len(lane)
      /\ DOMAIN lane' = 1..Len(lane) + 1
      /\ \A i \in 1..Len(lane) : lane'[i] = lane[i]
      /\ lane'[Len(lane) + 1] = x
  BY AppendAt
<1>2. ASSUME NEW i \in DOMAIN lane PROVE ~IsTerminal(i)'
  BY <1>1, <1>2 DEF OneTerminalInv, TerminalQueued, IsTerminal
<1>3. ASSUME NEW rs PROVE PagesOf(rs)' = PagesOf(rs)
  BY OtherPagesStay
<1>4. StreamOnLane' <=> StreamOnLane
  BY <1>3 DEF StreamOnLane
<1> QED BY <1>1, <1>2, <1>4 DEF SuccessIsWhole

(* The demultiplexer: a registered query has its id and, once the execute  *)
(* continuation is through, no buffered event; an id is retired only by    *)
(* the end of its query; a backend that is disposed of listens to nothing. *)
DemuxInv ==
  /\ registered => HasId
  /\ registered /\ Free => orphan = <<>>
  /\ retired => terminal
  /\ backend # "up" => ~subscribed

LEMMA TerminalStays ==
  ASSUME TypeOK, Next
  PROVE  terminal => terminal'
<1>1. CASE Lane
  BY <1>1, LaneKeepsTerminal
<1>2. CASE ~Lane
  <2>1. LaneEffect
    BY <1>2, OtherEffect
  <2> QED BY <2>1 DEF LaneEffect, KeepsLane, QueuesMetadata, QueuesPage,
             QueuesMessage, QueuesAccepted, QueuesComplete
<1> QED BY <1>1, <1>2

LEMMA DemuxStep == TypeOK /\ OneTerminalInv /\ DemuxInv /\ [Next]_vars => DemuxInv'
<1> SUFFICES ASSUME TypeOK, OneTerminalInv, DemuxInv, [Next]_vars PROVE DemuxInv'
  OBVIOUS
<1>1. CASE UNCHANGED vars
  BY <1>1 DEF vars, DemuxInv, HasId, Free, demuxVars, startVars, bufferVars, wireVars,
              sessionVars
<1>2. CASE Next
  <2>1. terminal => terminal'
    BY <1>2, TerminalStays
  <2>2. CASE UNCHANGED <<demuxVars, exec, orphan, backend, subscribed>>
    BY <2>1, <2>2 DEF DemuxInv, HasId, Free, demuxVars
  <2>3. CASE Server
    <3>1. PICK n \in Notifications : Notify(n)
      BY <2>3, ServerNotifies
    <3>2. /\ UNCHANGED <<registered, retired, exec, backend, subscribed>>
          /\ orphan' = orphan \/ ~registered
      BY <3>1 DEF Notify, Route, BufferOrphan, bufferVars, demuxVars, startVars, sessionVars
    <3> QED BY <2>1, <3>2 DEF DemuxInv, HasId, Free
  <2>4. CASE ExecuteAccepted
    BY <2>4 DEF ExecuteAccepted, DemuxInv, HasId, Free, sessionVars
  <2>5. CASE ReplayOrphan
    <3>1. UNCHANGED <<registered, retired, exec, backend, subscribed>> /\ exec = "draining"
      BY <2>5 DEF ReplayOrphan, demuxVars, startVars, sessionVars
    <3> QED BY <2>1, <3>1 DEF DemuxInv, HasId, Free
  <2>6. CASE EnqueueAccepted
    <3>1. /\ UNCHANGED <<registered, retired, orphan, backend, subscribed>>
          /\ exec' = "answered" /\ orphan = <<>>
      BY <2>6 DEF EnqueueAccepted, demuxVars, bufferVars, sessionVars
    <3> QED BY <2>1, <3>1 DEF DemuxInv, HasId, Free
  <2>7. CASE ExecuteRejected
    <3>1. UNCHANGED <<registered, retired, orphan, backend, subscribed>> /\ exec = "inflight"
      BY <2>7 DEF ExecuteRejected, demuxVars, bufferVars, sessionVars
    <3> QED BY <2>1, <3>1 DEF DemuxInv, HasId, Free
  <2>8. CASE RunStep \/ PageAccepted \/ StepDone
    BY <2>2, <2>8 DEF RunStep, PageAccepted, StepDone, bufferVars, startVars, sessionVars
  <2>9. CASE CompleteDelivered \/ StepFailed
    <3>1. \/ UNCHANGED <<registered, retired, orphan>>
          \/ ~registered' /\ terminal'
      <4>1. CASE CompleteDelivered
        <5>1. pos \in DOMAIN lane /\ IsTerminal(pos)
          BY <4>1 DEF CompleteDelivered, InFlight, IsTerminal, TypeOK, LaneTypeOK,
                      WireTypeOK
        <5>2. terminal
          BY <5>1 DEF OneTerminalInv, TerminalQueued
        <5> QED BY <2>1, <4>1, <5>2 DEF CompleteDelivered, UnregisterQuery
      <4>2. CASE StepFailed
        BY <4>2 DEF StepFailed, UnregisterQuery, demuxVars
      <4> QED BY <2>9, <4>1, <4>2
    <3>2. UNCHANGED <<exec, backend, subscribed>>
      BY <2>9, LaneFrame DEF Lane, SinkSettles
    <3> QED BY <2>1, <3>1, <3>2 DEF DemuxInv, HasId, Free
  <2>10. CASE Control
    <3>1. CancelFrame \/ CancelDeadline \/ DisposeFrame
      BY <2>10 DEF Control, CancelCall, CancelGetsId, CancelAnswered, DisposeCall,
         DisposeGetsId, DisposeAcknowledged, DisposeFailed, DrainDeadline
    <3> QED BY <2>2, <3>1 DEF CancelFrame, CancelDeadline, DisposeFrame, bufferVars,
               startVars, sessionVars
  <2>11. CASE Session
    <3>1. exec' = exec
      BY <2>11 DEF Session, OnFatal, CloseCall, CloseDone, BackendDispose,
                   BackendDisposed, SessionFrame
    <3>2. CASE OnFatal \/ CloseCall \/ (\E f \in {"canceled", "connectionLost"} : CloseDone(f))
      <4>1. UNCHANGED <<orphan, demuxVars, backend, subscribed>>
        BY <3>2 DEF OnFatal, CloseCall, CloseDone
      <4> QED BY <2>2, <3>1, <4>1
    <3>3. CASE BackendDispose
      <4>1. UNCHANGED <<registered, retired, orphan>> /\ ~subscribed'
        BY <3>3 DEF BackendDispose, demuxVars
      <4> QED BY <2>1, <3>1, <4>1 DEF DemuxInv, HasId, Free
    <3>4. CASE BackendDisposed
      <4>1. ~registered' /\ ~retired' /\ subscribed' = subscribed /\ backend = "disposing"
        BY <3>4 DEF BackendDisposed
      <4> QED BY <2>1, <3>1, <4>1 DEF DemuxInv, HasId, Free
    <3> QED BY <2>11, <3>2, <3>3, <3>4 DEF Session
  <2> QED BY <1>2, <2>3, <2>4, <2>5, <2>6, <2>7, <2>8, <2>9, <2>10, <2>11
          DEF Next, Start, Lane, SinkSettles
<1> QED BY <1>1, <1>2

(* A step that delivers no event and sends none: it queues no page and no  *)
(* success, and the buffer is dropped only when nobody listens any more or *)
(* the query is over.                                                      *)
QueuesNoStream ==
  \/ lane' = lane
  \/ \E x : /\ lane' = Append(lane, x)
            /\ x.kind # "rows"
            /\ ~(x.kind = "complete" /\ x.status \in Success)

Quiet ==
  /\ UNCHANGED <<plan, ledger, totalRows, faults, overflowed>>
  /\ StreamIsOver
  /\ srv' = srv \/ terminal'
  /\ QueuesNoStream
  /\ terminal => terminal'
  /\ subscribed' => subscribed
  /\ ~terminal' => orphan' = orphan \/ (orphan' = <<>> /\ ~subscribed')

LEMMA QuietKeepsFlow ==
  ASSUME TypeOK, OneTerminalInv, FlowInv, Quiet
  PROVE  FlowInv'
<1> SUFFICES ASSUME Clean PROVE (~terminal' => Buffered') /\ SuccessIsWhole'
  BY DEF FlowInv, Clean, Quiet
<1>1. (~terminal => Buffered) /\ SuccessIsWhole
  BY DEF FlowInv
<1>2. SuccessIsWhole'
  BY <1>1, SuccessStays DEF Quiet, QueuesNoStream, QueuesNoSuccess
<1>3. ASSUME ~terminal' PROVE Buffered'
  <2>1. ~terminal /\ srv' = srv /\ plan' = plan /\ ledger' = ledger /\ totalRows' = totalRows
    BY <1>3 DEF Quiet
  <2>2. PICK st \in [Positions -> StreamStates] : Chain(st)
    BY <1>1, <2>1 DEF Buffered
  <2>3. ASSUME NEW rs PROVE PagesOf(rs)' = PagesOf(rs)
    <3>1. CASE lane' = lane
      BY <3>1 DEF PagesOf, IsPage
    <3>2. CASE \E x : lane' = Append(lane, x) /\ x.kind # "rows"
      BY <3>2, OtherPagesStay
    <3> QED BY <3>1, <3>2 DEF Quiet, QueuesNoStream
  <2>4. Delivered(st[1])'
    BY <2>1, <2>2, <2>3 DEF Chain, Delivered
  <2>5. CASE orphan' = orphan
    <3>1. \A i \in 1..Len(orphan) : Advances(st[i], orphan[i], st[i + 1])'
      BY <2>1, <2>2, <2>5 DEF Chain, Advances, SetIsWhole
    <3>2. Chain(st)'
      BY <2>1, <2>2, <2>4, <2>5, <3>1 DEF Chain, Quiet, Sent
    <3> QED BY <2>5, <3>2 DEF Buffered, Positions
  <2>6. CASE orphan' = <<>> /\ ~subscribed'
    <3> DEFINE first == [i \in 1..1 |-> st[1]]
    <3>1. Len(orphan') = 0 /\ Positions' = 1..1
      BY <2>6 DEF Positions
    <3>2. st[1] \in StreamStates
      BY DEF Positions, TypeOK, WireTypeOK
    <3>3. first[1] = st[1] /\ first \in [1..1 -> StreamStates]
      BY <3>2
    <3>4. ~st[1].done
      BY <2>2 DEF Chain, Delivered
    <3> HIDE DEF first
    <3>5. Delivered(first[1])'
      BY <2>1, <2>4, <3>3 DEF Delivered
    <3>6. Chain(first)'
      BY <2>6, <3>1, <3>3, <3>4, <3>5 DEF Chain
    <3> QED BY <3>1, <3>3, <3>6 DEF Buffered
  <2> QED BY <1>3, <2>5, <2>6 DEF Quiet
<1> QED BY <1>2, <1>3

(* The terminals the binding makes up are no successes.                    *)
MadeUp == {"failed", "canceled", "disposed", "connectionLost"}

LEMMA MadeUpIsNoSuccess ==
  ASSUME NEW status \in MadeUp,
         FinishTerminal(status) \/ SynthesizeTerminal(status) \/ EndActiveQuery(status)
  PROVE  QueuesNoStream
<1>1. CASE lane' = lane
  BY <1>1 DEF QueuesNoStream
<1>2. CASE lane' # lane
  <2> DEFINE x == [kind |-> "complete", status |-> status, rows |-> totalRows]
  <2>1. lane' = Append(lane, x)
    BY <1>2 DEF FinishTerminal, SynthesizeTerminal, EndActiveQuery, NoTerminal
  <2>2. x.kind = "complete" /\ x.status \notin Success
    BY DEF MadeUp, Success
  <2> HIDE DEF x
  <2> QED BY <2>1, <2>2 DEF QueuesNoStream
<1> QED BY <1>1, <1>2

LEMMA QuietSteps ==
  ASSUME TypeOK, OneTerminalInv, DemuxInv, Next, ~Server, ~ReplayOrphan
  PROVE  Quiet
<1>1. terminal => terminal'
  BY TerminalStays
<1>2. ASSUME UNCHANGED <<plan, srv, faults, ledger, totalRows, overflowed>>,
             QueuesNoStream, subscribed' => subscribed,
             ~terminal' => orphan' = orphan \/ (orphan' = <<>> /\ ~subscribed')
      PROVE  Quiet
  BY <1>1, <1>2 DEF Quiet, StreamIsOver
<1>3. CASE ExecuteAccepted
  BY <1>2, <1>3 DEF ExecuteAccepted, QueuesNoStream, serverVars, wireVars, bufferVars,
                    sessionVars
<1>4. CASE EnqueueAccepted
  <2> DEFINE x == [kind |-> "accepted"]
  <2>1. lane' = Append(lane, x) /\ x.kind = "accepted"
    BY <1>4 DEF EnqueueAccepted
  <2> HIDE DEF x
  <2>2. QueuesNoStream
    BY <2>1 DEF QueuesNoStream
  <2> QED BY <1>2, <1>4, <2>2 DEF EnqueueAccepted, serverVars, bufferVars, sessionVars
<1>5. CASE ExecuteRejected
  <2>1. terminal'
    BY <1>5 DEF ExecuteRejected, FinishTerminal
  <2>2. QueuesNoStream
    BY <1>5, MadeUpIsNoSuccess DEF ExecuteRejected, MadeUp
  <2>3. srv'.phase = "rejected" /\ srv'.rows = srv.rows
    BY <1>5 DEF ExecuteRejected, TypeOK, ServerTypeOK, ServerStates
  <2>4. UNCHANGED <<plan, ledger, totalRows, faults, overflowed, subscribed>>
    BY <1>5 DEF ExecuteRejected, bufferVars, sessionVars
  <2> QED BY <1>1, <2>1, <2>2, <2>3, <2>4 DEF Quiet, StreamIsOver
<1>6. CASE Lane
  <2>1. UNCHANGED <<plan, srv, faults, lane, ledger, totalRows, subscribed>>
    BY <1>6, LaneFrame
  <2>2. overflowed' = overflowed
    BY <1>6 DEF Lane, SinkSettles, RunStep, PageAccepted, StepDone, CompleteDelivered,
                StepFailed, bufferVars
  <2>3. ~terminal' => orphan' = orphan
    <3>1. CASE RunStep \/ PageAccepted \/ StepDone
      BY <3>1 DEF RunStep, PageAccepted, StepDone, bufferVars
    <3>2. CASE CompleteDelivered
      <4>1. pos \in DOMAIN lane /\ IsTerminal(pos)
        BY <3>2 DEF CompleteDelivered, InFlight, IsTerminal, TypeOK, LaneTypeOK,
                    WireTypeOK
      <4> QED BY <1>1, <4>1 DEF OneTerminalInv, TerminalQueued
    <3>3. CASE StepFailed
      BY <3>3 DEF StepFailed
    <3> QED BY <1>6, <3>1, <3>2, <3>3 DEF Lane, SinkSettles
  <2> QED BY <1>2, <2>1, <2>2, <2>3 DEF QueuesNoStream
<1>7. CASE CancelCall \/ CancelGetsId \/ CancelAnswered
  <2>1. CancelFrame
    BY <1>7 DEF CancelCall, CancelGetsId, CancelAnswered
  <2> QED BY <1>2, <2>1 DEF CancelFrame, QueuesNoStream, serverVars, bufferVars,
                            sessionVars
<1>8. CASE CancelDeadline
  <2>1. QueuesNoStream
    BY <1>8, MadeUpIsNoSuccess DEF CancelDeadline, MadeUp
  <2> QED BY <1>2, <1>8, <2>1 DEF CancelDeadline, serverVars, bufferVars, sessionVars
<1>9. CASE DisposeCall \/ DisposeGetsId \/ DisposeAcknowledged \/ DisposeFailed
             \/ DrainDeadline
  <2>1. DisposeFrame
    BY <1>9 DEF DisposeCall, DisposeGetsId, DisposeAcknowledged, DisposeFailed,
                DrainDeadline
  <2>2. NoTerminal \/ SynthesizeTerminal("disposed")
    BY <1>9 DEF DisposeCall, DisposeGetsId, DisposeAcknowledged, DisposeFailed,
                DrainDeadline
  <2>3. QueuesNoStream
    BY <2>2, MadeUpIsNoSuccess DEF NoTerminal, QueuesNoStream, MadeUp
  <2> QED BY <1>2, <2>1, <2>3 DEF DisposeFrame, serverVars, bufferVars, sessionVars
<1>10. CASE Session
  <2>1. SessionFrame
    BY <1>10 DEF Session, OnFatal, CloseCall, CloseDone, BackendDispose, BackendDisposed
  <2>2. NoTerminal \/ EndActiveQuery("connectionLost") \/ EndActiveQuery("canceled")
    BY <1>10 DEF Session, OnFatal, MarkLost, CloseCall, CloseDone, BackendDispose,
                 BackendDisposed
  <2>3. QueuesNoStream
    BY <2>2, MadeUpIsNoSuccess DEF NoTerminal, QueuesNoStream, MadeUp
  <2>4. /\ subscribed' => subscribed
        /\ orphan' = orphan \/ (orphan' = <<>> /\ ~subscribed')
    <3>1. CASE OnFatal \/ CloseCall \/ (\E f \in {"canceled", "connectionLost"} : CloseDone(f))
      BY <3>1 DEF OnFatal, CloseCall, CloseDone
    <3>2. CASE BackendDispose
      BY <3>2 DEF BackendDispose
    <3>3. CASE BackendDisposed
      BY <3>3 DEF BackendDisposed, DemuxInv
    <3> QED BY <1>10, <3>1, <3>2, <3>3 DEF Session
  <2> QED BY <1>2, <2>1, <2>3, <2>4 DEF SessionFrame, serverVars
<1> QED BY <1>3, <1>4, <1>5, <1>6, <1>7, <1>8, <1>9, <1>10 DEF Next, Start, Control

(* The first buffered event is delivered: the stream continues behind it,  *)
(* or it was the terminal, and the last event of the stream.               *)
LEMMA ReplayKeepsFlow ==
  ASSUME TypeOK, OneTerminalInv, FlowInv, ReplayOrphan
  PROVE  FlowInv'
<1>1. UNCHANGED <<plan, srv, faults, overflowed, subscribed>>
  BY DEF ReplayOrphan, serverVars, sessionVars
<1> SUFFICES ASSUME Clean PROVE (~terminal' => Buffered') /\ SuccessIsWhole'
  BY <1>1 DEF FlowInv, Clean
<1>2. (~terminal => Buffered) /\ SuccessIsWhole /\ StreamIsOver
  BY <1>1 DEF FlowInv, StreamIsOver
<1>3. /\ orphan \in Seq(Notifications) /\ Len(orphan) \in Nat /\ Len(orphan) > 0
      /\ orphan[1] \in Notifications /\ OnWire(orphan[1]) /\ orphan' = Tail(orphan)
  BY DEF ReplayOrphan, TypeOK, WireTypeOK
<1>4. CASE terminal
  <2>1. lane' = lane /\ terminal'
    BY <1>3, <1>4 DEF OnWire, DropAfterTerminal, OnWireResultSet, OnWireRows,
                      OnWireMessage, OnWireComplete, wireVars
  <2> QED BY <1>1, <1>2, <2>1, SuccessStays DEF QueuesNoSuccess
<1>5. CASE ~terminal
  <2>1. PICK st \in [Positions -> StreamStates] : Chain(st)
    BY <1>2, <1>5 DEF Buffered
  <2>2. /\ st[1] \in StreamStates /\ st[2] \in StreamStates
        /\ Delivered(st[1]) /\ Advances(st[1], orphan[1], st[2])
    BY <1>3, <2>1 DEF Positions, Chain
  <2>3. Reached(st[2]) \/ Ended(st[2])
    BY <1>1, <1>3, <1>5, <2>2, EventDelivered
  <2>4. CASE Reached(st[2])
    <3>1. SuccessIsWhole'
      BY <1>1, <1>2, <1>5, <2>4, SuccessStays DEF Reached, QueuesNoSuccess
    <3> PICK rest : rest = [i \in 1..Len(orphan) |-> st[i + 1]]
      OBVIOUS
    <3>2. /\ Len(orphan') = Len(orphan) - 1 /\ Len(orphan') \in Nat
          /\ Positions' = 1..Len(orphan)
          /\ \A i \in 1..Len(orphan') : orphan'[i] = orphan[i + 1]
      BY <1>3 DEF Positions
    <3>3. /\ rest \in [Positions' -> StreamStates]
          /\ \A i \in 1..Len(orphan) : rest[i] = st[i + 1]
      BY <1>3, <3>2 DEF Positions
    <3>4. Delivered(rest[1])'
      <4>1. rest[1] = st[2]
        BY <1>3, <3>3
      <4>2. Delivered(st[2])'
        BY <2>4 DEF Reached
      <4> QED BY <4>1, <4>2 DEF Delivered
    <3>5. ASSUME NEW i \in 1..Len(orphan')
          PROVE  Advances(rest[i], orphan[i], rest[i + 1])'
      <4>1. /\ rest[i] = st[i + 1] /\ rest[i + 1] = st[i + 1 + 1]
            /\ orphan'[i] = orphan[i + 1] /\ i + 1 \in 1..Len(orphan)
        BY <1>3, <3>2, <3>3
      <4>2. Advances(st[i + 1], orphan[i + 1], st[i + 1 + 1])
        BY <2>1, <4>1 DEF Chain
      <4>3. Advances(rest[i], orphan'[i], rest[i + 1])
        BY <4>1, <4>2
      <4> QED BY <1>1, <4>3 DEF Advances, SetIsWhole
    <3>6. rest[Len(orphan') + 1] = st[Len(orphan) + 1]
      <4>1. Len(orphan') + 1 = Len(orphan) /\ Len(orphan) \in 1..Len(orphan)
        BY <1>3, <3>2
      <4> QED BY <3>3, <4>1
    <3>7. Chain(rest)'
      BY <1>1, <2>1, <3>4, <3>5, <3>6 DEF Chain, Sent
    <3> QED BY <3>1, <3>3, <3>7 DEF Buffered
  <2>5. CASE Ended(st[2])
    <3>1. Len(orphan) = 1
      <4> SUFFICES ASSUME Len(orphan) # 1 PROVE FALSE
        OBVIOUS
      <4>1. Advances(st[2], orphan[2], st[2 + 1])
        BY <1>3, <2>1 DEF Chain
      <4> QED BY <2>5, <4>1 DEF Ended, Advances
    <3>2. st[2] = Sent /\ st[2].done
      BY <2>1, <2>5, <3>1 DEF Chain, Ended
    <3>3. srv'.phase # "running" /\ srv'.rows = st[2].rows
      <4>1. Sent.done /\ Sent.rows = st[2].rows
        BY <3>2
      <4> QED BY <1>1, <4>1 DEF Sent
    <3>4. SuccessIsWhole'
      BY <1>1, <1>5, <2>5, <3>3, SuccessComes DEF Ended
    <3> QED BY <2>5, <3>4 DEF Ended
  <2> QED BY <2>3, <2>4, <2>5
<1> QED BY <1>4, <1>5

(* The service sends: the event is delivered, buffered behind the others,  *)
(* or lost on a backend that listens no more.                              *)
LEMMA ServerKeepsFlow ==
  ASSUME TypeOK, OneTerminalInv, DemuxInv, FlowInv, Server
  PROVE  FlowInv'
<1>1. overflowed => overflowed'
  <2>1. PICK n \in Notifications : Notify(n)
    BY ServerNotifies
  <2> QED BY <2>1 DEF Notify, Route, BufferOrphan, bufferVars
<1> SUFFICES ASSUME faults' = 0, ~overflowed'
             PROVE  (~terminal' => Buffered') /\ SuccessIsWhole'
  BY DEF FlowInv, Clean
<1>2. /\ srv.phase = "running" /\ plan' = plan /\ faults = 0
      /\ \E n \in Notifications : Notify(n) /\ Advances(Sent, n, Sent')
  BY ServerAdvances
<1> DEFINE s == Sent
<1>3. PICK n \in Notifications : Notify(n) /\ Advances(s, n, Sent')
  BY <1>2
<1>4. PICK t : t = Sent'
  OBVIOUS
<1>5. s \in StreamStates /\ t \in StreamStates /\ ~s.done
  <2>1. TypeOK'
    BY NextTypeOK DEF Next
  <2>2. Sent' \in StreamStates
    BY <2>1 DEF TypeOK, ServerTypeOK, ServerStates, Sent, StreamStates
  <2> QED BY <1>2, <1>4, <2>2, SentType DEF Sent
<1>6. (~terminal => Buffered) /\ SuccessIsWhole /\ StreamIsOver
  BY <1>1, <1>2 DEF FlowInv, Clean, StreamIsOver
<1>7. subscribed' = subscribed /\ Route(n) /\ Free
  BY <1>3 DEF Notify, sessionVars
<1>8. CASE UNCHANGED wireVars /\ (~subscribed \/ retired) /\ orphan' = orphan
  <2>1. lane' = lane /\ (terminal' <=> terminal) /\ totalRows' = totalRows /\ ledger' = ledger
    BY <1>8 DEF wireVars
  <2>2. SuccessIsWhole'
    BY <1>2, <1>6, <2>1, SuccessStays DEF QueuesNoSuccess
  <2>3. ASSUME ~terminal PROVE Buffered'
    <3>1. ~subscribed
      BY <1>8, <2>3 DEF DemuxInv
    <3>2. PICK st \in [Positions -> StreamStates] : Chain(st)
      BY <1>6, <2>3 DEF Buffered
    <3>3. ~st[Len(orphan) + 1].done
      BY <1>5, <3>2 DEF Chain
    <3>4. Delivered(st[1])'
      BY <1>2, <2>1, <3>2 DEF Chain, Delivered, PagesOf, IsPage
    <3>5. \A i \in 1..Len(orphan) : Advances(st[i], orphan[i], st[i + 1])'
      BY <1>2, <1>8, <3>2 DEF Chain, Advances, SetIsWhole
    <3>6. Chain(st)'
      BY <1>7, <1>8, <3>1, <3>3, <3>4, <3>5 DEF Chain
    <3> QED BY <1>8, <3>6 DEF Buffered, Positions
  <2> QED BY <2>1, <2>2, <2>3
<1>9. CASE subscribed /\ registered /\ OnWire(n) /\ UNCHANGED bufferVars
  <2>1. orphan = <<>> /\ orphan' = <<>> /\ Len(orphan) = 0
    BY <1>7, <1>9 DEF DemuxInv, bufferVars
  <2>2. CASE terminal
    <3>1. lane' = lane /\ terminal'
      BY <1>9, <2>2 DEF OnWire, DropAfterTerminal, OnWireResultSet, OnWireRows,
                        OnWireMessage, OnWireComplete, wireVars
    <3> QED BY <1>2, <1>6, <3>1, SuccessStays DEF QueuesNoSuccess
  <2>3. CASE ~terminal
    <3>1. PICK st \in [Positions -> StreamStates] : Chain(st)
      BY <1>6, <2>3 DEF Buffered
    <3>2. Delivered(s)
      BY <1>9, <2>1, <3>1 DEF Chain
    <3> HIDE DEF s
    <3>3. Reached(t) \/ Ended(t)
      BY <1>2, <1>3, <1>4, <1>5, <1>9, <2>3, <3>2, EventDelivered
    <3>4. CASE Reached(t)
      <4>1. SuccessIsWhole'
        BY <1>2, <1>6, <2>3, <3>4, SuccessStays DEF Reached, QueuesNoSuccess
      <4> DEFINE only == [i \in 1..1 |-> t]
      <4>2. Len(orphan') = 0 /\ Positions' = 1..1
        BY <2>1 DEF Positions
      <4>3. only[1] = t /\ only \in [1..1 -> StreamStates]
        BY <1>5
      <4> HIDE DEF only
      <4>4. Delivered(only[1])'
        <5>1. Delivered(t)'
          BY <3>4 DEF Reached
        <5> QED BY <4>3, <5>1 DEF Delivered
      <4>5. Chain(only)'
        BY <1>4, <4>2, <4>3, <4>4 DEF Chain
      <4> QED BY <4>1, <4>2, <4>3, <4>5 DEF Buffered
    <3>5. CASE Ended(t)
      <4>1. srv'.phase # "running" /\ srv'.rows = t.rows
        BY <1>4, <3>5 DEF Ended, Sent
      <4>2. SuccessIsWhole'
        BY <1>2, <2>3, <3>5, <4>1, SuccessComes DEF Ended
      <4> QED BY <3>5, <4>2 DEF Ended
    <3> QED BY <3>3, <3>4, <3>5
  <2> QED BY <2>2, <2>3
<1>10. CASE subscribed /\ ~registered /\ ~retired /\ BufferOrphan(n)
  <2>1. UNCHANGED wireVars /\ orphan' = Append(orphan, n)
    BY <1>10 DEF BufferOrphan
  <2>2. lane' = lane /\ (terminal' <=> terminal) /\ totalRows' = totalRows /\ ledger' = ledger
    BY <2>1 DEF wireVars
  <2>3. SuccessIsWhole'
    BY <1>2, <1>6, <2>2, SuccessStays DEF QueuesNoSuccess
  <2>4. ASSUME ~terminal PROVE Buffered'
    <3>1. PICK st \in [Positions -> StreamStates] : Chain(st)
      BY <1>6, <2>4 DEF Buffered
    <3> PICK end : end = Len(orphan) + 1
      OBVIOUS
    <3> PICK longer : longer = [i \in 1..end + 1 |-> IF i = end + 1 THEN t ELSE st[i]]
      OBVIOUS
    <3>2. /\ Len(orphan) \in Nat /\ Len(orphan') = end /\ Positions' = 1..end + 1
          /\ orphan'[end] = n /\ \A i \in 1..Len(orphan) : orphan'[i] = orphan[i]
      BY <2>1 DEF TypeOK, WireTypeOK, Positions
    <3>3. /\ longer \in [Positions' -> StreamStates]
          /\ \A i \in 1..end : longer[i] = st[i]
          /\ longer[end + 1] = t
      BY <1>5, <3>2 DEF Positions
    <3>4. st[end] = s /\ end \in Nat /\ end >= 1
      BY <1>10, <3>1, <3>2 DEF Chain
    <3> HIDE DEF s
    <3>5. Delivered(longer[1])'
      <4>1. longer[1] = st[1]
        BY <3>3, <3>4
      <4>2. Delivered(st[1])'
        BY <1>2, <2>2, <3>1 DEF Chain, Delivered, PagesOf, IsPage
      <4> QED BY <4>1, <4>2 DEF Delivered
    <3>6. ASSUME NEW i \in 1..end
          PROVE  Advances(longer[i], orphan[i], longer[i + 1])'
      <4>1. Advances(longer[i], orphan'[i], longer[i + 1])
        <5>1. CASE i = end
          BY <1>3, <1>4, <3>2, <3>3, <3>4, <5>1
        <5>2. CASE i # end
          <6>1. i \in 1..Len(orphan) /\ i + 1 \in 1..end
            BY <3>2, <3>4, <5>2
          <6>2. Advances(st[i], orphan[i], st[i + 1])
            BY <3>1, <6>1 DEF Chain
          <6> QED BY <3>2, <3>3, <6>1, <6>2
        <5> QED BY <5>1, <5>2
      <4> QED BY <1>2, <4>1 DEF Advances, SetIsWhole
    <3>7. Chain(longer)'
      BY <1>4, <3>2, <3>3, <3>5, <3>6 DEF Chain
    <3> QED BY <3>3, <3>7 DEF Buffered
  <2> QED BY <2>2, <2>3, <2>4
<1> QED BY <1>7, <1>8, <1>9, <1>10 DEF Route, bufferVars

LEMMA InitFlow == Init => DemuxInv /\ FlowInv
<1> SUFFICES ASSUME Init PROVE DemuxInv /\ FlowInv
  OBVIOUS
<1>1. DemuxInv
  BY DEF Init, DemuxInv
<1>2. SuccessIsWhole
  BY DEF Init, SuccessIsWhole
<1> DEFINE start == [set |-> 0, page |-> 0, row |-> 0, rows |-> 0, done |-> FALSE]
           only == [i \in 1..1 |-> start]
<1>3. Sent = start /\ start \in StreamStates
  BY DEF Init, Sent, StreamStates
<1>4. Delivered(start)
  BY DEF Init, Delivered, PagesOf, ResultSets
<1>5. Len(orphan) = 0 /\ Positions = 1..1
  BY DEF Init, Positions
<1>6. only[1] = start /\ only \in [1..1 -> StreamStates]
  BY <1>3
<1> HIDE DEF only, start
<1>7. Chain(only)
  BY <1>3, <1>4, <1>5, <1>6 DEF Chain
<1>8. Buffered
  BY <1>5, <1>6, <1>7 DEF Buffered
<1> QED BY <1>1, <1>2, <1>8 DEF FlowInv

LEMMA FlowStep ==
  TypeOK /\ OneTerminalInv /\ DemuxInv /\ FlowInv /\ [Next]_vars => FlowInv'
<1> SUFFICES ASSUME TypeOK, OneTerminalInv, DemuxInv, FlowInv, [Next]_vars
             PROVE  FlowInv'
  OBVIOUS
<1>1. CASE UNCHANGED vars
  <2>1. Quiet
    BY <1>1 DEF vars, serverVars, wireVars, bufferVars, sessionVars, Quiet,
                StreamIsOver, QueuesNoStream
  <2> QED BY <2>1, QuietKeepsFlow
<1>2. CASE Server
  BY <1>2, ServerKeepsFlow
<1>3. CASE ReplayOrphan
  BY <1>3, ReplayKeepsFlow
<1>4. CASE Next /\ ~Server /\ ~ReplayOrphan
  BY <1>4, QuietSteps, QuietKeepsFlow
<1> QED BY <1>1, <1>2, <1>3, <1>4

(* When the peer keeps the contract, the sink rejects nothing and the      *)
(* buffer of early events did not overflow, a query that succeeds has      *)
(* handed over every page and row of its stream: whenever the execute      *)
(* response comes, and whatever cancels, losses and shutdowns race it.     *)
THEOREM SuccessIsTheWholeStreamCorrect == Spec => []SuccessIsTheWholeStream
<1> DEFINE I == /\ TypeOK /\ AckInv /\ OneTerminalInv /\ CompletionCases
                /\ DemuxInv /\ FlowInv
<1>1. Init => I
  <2>1. Init => OneTerminalInv /\ CompletionCases
    BY DEF Init, OneTerminalInv, OneTerminal, TerminalQueued, CompletionCases, Settled
  <2> QED BY <2>1, InitTypeOK, InitAck, InitFlow
<1>2. I /\ [Next]_vars => I'
  BY NextTypeOK, AckStep, OneTerminalStep, CompletionStep, DemuxStep, FlowStep
<1>3. I => SuccessIsTheWholeStream
  <2> SUFFICES ASSUME I, completion.status \in Success, Clean, failed = {}
               PROVE  /\ \A rs \in DOMAIN plan : Cardinality(PagesOf(rs)) = plan[rs]
                      /\ completion.rows = srv.rows
    BY DEF SuccessIsTheWholeStream, Success, Clean
  <2>1. Settled
    BY DEF Settled, Pending, Success
  <2>2. PICK i : CompletedBy(i)
    BY <2>1 DEF CompletionCases
  <2>3. /\ i \in DOMAIN lane /\ IsTerminal(i)
        /\ completion.status = lane[i].status /\ completion.rows = lane[i].rows
    BY <2>2 DEF CompletedBy, Summary
  <2> QED BY <2>3 DEF FlowInv, SuccessIsWhole, StreamOnLane
<1> QED BY <1>1, <1>2, <1>3, PTL DEF Spec

=============================================================================
