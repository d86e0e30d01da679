--------------------------- MODULE Sts2Query_types --------------------------
(***************************************************************************)
(* Type correctness of Sts2Query, for every stream, window, sink and peer. *)
(***************************************************************************)
EXTENDS Sts2Query, TLAPS

(***************************************************************************)
(* Type correctness: TypeOK is inductive.                                  *)
(***************************************************************************)

LEMMA InitTypeOK == Init => TypeOK
<1> SUFFICES ASSUME Init PROVE TypeOK
  OBVIOUS
<1>1. ServerTypeOK
  <2>1. srv.set <= Len(plan)
    BY ConstantsAssumption DEF ConstantsAssumption, Init
  <2>2. faults \in 0..MaxFaults
    BY ConstantsAssumption DEF ConstantsAssumption, Init
  <2> QED BY <2>1, <2>2 DEF Init, ServerTypeOK, ServerStates
<1>2. WireTypeOK
  BY DEF Init, WireTypeOK, NoLedger, Ledgers
<1>3. LaneTypeOK
  BY DEF Init, LaneTypeOK, Pending
<1>4. ControlTypeOK
  BY DEF Init, ControlTypeOK
<1>5. FlagTypeOK
  BY Zenon DEF Init, FlagTypeOK
<1> QED BY <1>1, <1>2, <1>3, <1>4, <1>5 DEF TypeOK

LEMMA AppendType ==
  ASSUME lane \in Seq(Steps), NEW x \in Steps, lane' = Append(lane, x)
  PROVE  lane' \in Seq(Steps) /\ Len(lane') = Len(lane) + 1
OBVIOUS

(* finishTerminal leaves the lane a sequence of steps, and no shorter.     *)
LEMMA FinishType ==
  ASSUME WireTypeOK, NEW status \in CompletionStatus, FinishTerminal(status)
  PROVE  lane' \in Seq(Steps) /\ Len(lane') >= Len(lane)
<1>1. [kind |-> "complete", status |-> status, rows |-> totalRows] \in Steps
  BY DEF WireTypeOK, Steps, CompleteStep
<1>2. CASE lane' = lane
  BY <1>2 DEF WireTypeOK
<1>3. CASE lane' = Append(lane, [kind |-> "complete", status |-> status,
                                 rows |-> totalRows])
  BY <1>1, <1>3 DEF WireTypeOK
<1> QED BY <1>2, <1>3 DEF FinishTerminal

(* What a notification does to an active query keeps its type.             *)
LEMMA OnWireType ==
  ASSUME WireTypeOK, NEW n \in Notifications, OnWire(n), orphan' \in Seq(Notifications)
  PROVE  WireTypeOK' /\ Len(lane') >= Len(lane)
<1>1. CASE DropAfterTerminal
  BY <1>1 DEF DropAfterTerminal, wireVars, WireTypeOK
<1>2. CASE OnWireResultSet(n)
  <2>1. n.rs \in ResultSets
    BY <1>2 DEF OnWireResultSet, Notifications
  <2>2. [kind |-> "resultSet", rs |-> n.rs] \in Steps
    BY <2>1 DEF Steps, MetadataStep
  <2>3. ledger' \in [ResultSets -> Ledgers]
    BY <1>2, <2>1 DEF OnWireResultSet, WireTypeOK, Ledgers
  <2>4. lane' \in Seq(Steps) /\ Len(lane') = Len(lane) + 1
    BY <1>2, <2>2, AppendType DEF OnWireResultSet, WireTypeOK
  <2> QED BY <1>2, <2>3, <2>4 DEF OnWireResultSet, WireTypeOK
<1>3. CASE OnWireRows(n)
  <2>1. n.rs \in ResultSets /\ n.seq \in Nat /\ n.off \in Nat /\ n.n \in Nat
    BY <1>3 DEF OnWireRows, Notifications
  <2>2. CASE ~ContinuesLedger(n)
    <3>1. lane' \in Seq(Steps) /\ Len(lane') >= Len(lane)
      BY <1>3, <2>2, FinishType DEF OnWireRows, ProtocolViolation, CompletionStatus
    <3> QED BY <1>3, <2>2, <3>1 DEF OnWireRows, ProtocolViolation, WireTypeOK
  <2>3. CASE ContinuesLedger(n)
    <3> DEFINE page == [kind |-> "rows", rs |-> n.rs, seq |-> n.seq,
                        off |-> n.off, n |-> n.n, ord |-> AckOrdinal(n)]
    <3>1. page \in Steps
      BY <2>1 DEF Steps, PageStep, AckOrdinal, WireTypeOK
    <3>2. lane' = Append(lane, page)
      BY <1>3, <2>3 DEF OnWireRows
    <3>3. lane' \in Seq(Steps) /\ Len(lane') = Len(lane) + 1
      BY <3>1, <3>2, AppendType DEF WireTypeOK
    <3>4. ledger' \in [ResultSets -> Ledgers]
      <4>1. ledger' = [ledger EXCEPT ![n.rs] = [open |-> TRUE, page |-> @.page + 1,
                                                row |-> @.row + n.n]]
        BY <1>3, <2>3 DEF OnWireRows
      <4> QED BY <2>1, <4>1 DEF WireTypeOK, Ledgers
    <3>5. totalRows' \in Nat /\ ordinal' \in Nat /\ errors' = errors /\ asked' = asked
      BY <1>3, <2>1, <2>3 DEF OnWireRows, WireTypeOK
    <3> QED BY <3>3, <3>4, <3>5 DEF WireTypeOK
  <2> QED BY <2>2, <2>3
<1>4. CASE OnWireMessage(n)
  <2>1. [kind |-> "message", error |-> n.error] \in Steps
    BY <1>4 DEF OnWireMessage, Notifications, Steps, MessageStep
  <2>2. lane' \in Seq(Steps) /\ Len(lane') = Len(lane) + 1
    BY <1>4, <2>1, AppendType DEF OnWireMessage, WireTypeOK
  <2> QED BY <1>4, <2>2 DEF OnWireMessage, WireTypeOK
<1>5. CASE OnWireComplete(n)
  <2>1. MapStatus(n.status) \in CompletionStatus
    BY <1>5 DEF OnWireComplete, MapStatus, Notifications, WireStatus, CompletionStatus
  <2>2. lane' \in Seq(Steps) /\ Len(lane') >= Len(lane)
    BY <1>5, <2>1, FinishType DEF OnWireComplete
  <2> QED BY <1>5, <2>2 DEF OnWireComplete, WireTypeOK
<1> QED BY <1>1, <1>2, <1>3, <1>4, <1>5 DEF OnWire

(* A notification reaches the lane, the buffer of early events, or nobody. *)
LEMMA NotifyType ==
  ASSUME TypeOK, NEW n \in Notifications, Notify(n)
  PROVE  WireTypeOK' /\ LaneTypeOK' /\ ControlTypeOK' /\ FlagTypeOK' /\ plan' = plan
<1>1. orphan' \in Seq(Notifications)
  BY DEF TypeOK, WireTypeOK, Notify, Route, BufferOrphan, bufferVars
<1>2. WireTypeOK' /\ Len(lane') >= Len(lane)
  <2>1. CASE OnWire(n)
    BY <1>1, <2>1, OnWireType DEF TypeOK
  <2>2. CASE UNCHANGED wireVars
    BY <1>1, <2>2 DEF wireVars, TypeOK, WireTypeOK
  <2> QED BY <2>1, <2>2 DEF Notify, Route, BufferOrphan
<1>3. LaneTypeOK'
  BY <1>2 DEF TypeOK, LaneTypeOK, Notify, laneVars, WireTypeOK
<1>4. ControlTypeOK'
  BY DEF TypeOK, ControlTypeOK, Notify, startVars, cancelVars, disposeVars, sessionVars
<1>5. FlagTypeOK'
  BY Zenon DEF TypeOK, FlagTypeOK, Notify, Route, OnWire, DropAfterTerminal,
       OnWireMessage, OnWireResultSet, OnWireRows, OnWireComplete, FinishTerminal,
       ProtocolViolation, BufferOrphan, wireVars, bufferVars, demuxVars, startVars,
       laneVars, cancelVars, disposeVars, sessionVars
<1>6. plan' = plan
  BY DEF Notify
<1> QED BY <1>2, <1>3, <1>4, <1>5, <1>6

(* The service never announces more result sets than the ids there are.    *)
LEMMA PlanBound ==
  ASSUME ServerTypeOK
  PROVE  /\ Len(plan) \in Nat
         /\ srv.set \in Nat
         /\ srv.set < Len(plan) => srv.set + 1 \in ResultSets
         /\ srv.set > 0 => srv.set \in ResultSets
<1>1. plan \in Seq(Nat) /\ Len(plan) <= MaxSets /\ MaxSets \in Nat
  BY ConstantsAssumption DEF ConstantsAssumption, ServerTypeOK
<1>2. srv.set \in Nat /\ srv.set <= Len(plan)
  BY DEF ServerTypeOK, ServerStates
<1>3. Len(plan) \in Nat
  BY <1>1
<1> QED BY <1>1, <1>2, <1>3 DEF ResultSets

LEMMA ServerType == TypeOK /\ Server => TypeOK'
<1> SUFFICES ASSUME TypeOK, Server PROVE TypeOK'
  OBVIOUS
<1>1. CASE ServerResultSet
  <2>1. srv.set + 1 \in ResultSets /\ srv.set < Len(plan)
    BY <1>1, PlanBound DEF ServerResultSet, TypeOK
  <2>2. [kind |-> "resultSet", rs |-> srv.set + 1] \in Notifications
    BY <2>1 DEF Notifications
  <2>3. plan' = plan /\ Notify([kind |-> "resultSet", rs |-> srv.set + 1])
    BY <1>1 DEF ServerResultSet, Notify
  <2>4. ServerTypeOK'
    <3>1. srv' = [srv EXCEPT !.set = @ + 1, !.page = 0, !.row = 0] /\ faults' = faults
      BY <1>1 DEF ServerResultSet
    <3>2. srv'.set = srv.set + 1 /\ srv'.set <= Len(plan)
      BY <2>1, <3>1, PlanBound DEF TypeOK, ServerTypeOK, ServerStates
    <3>3. srv' \in ServerStates
      <4> DEFINE a == [srv EXCEPT !.set = srv.set + 1]
                 b == [a EXCEPT !.page = 0]
      <4>1. srv \in ServerStates /\ srv.set + 1 \in Nat
        BY PlanBound DEF TypeOK, ServerTypeOK
      <4>2. a \in ServerStates
        BY <4>1 DEF ServerStates
      <4>3. srv' = [b EXCEPT !.row = 0]
        BY <3>1
      <4> HIDE DEF a
      <4>4. b \in ServerStates
        BY <4>2 DEF ServerStates
      <4> HIDE DEF b
      <4> QED BY <4>3, <4>4 DEF ServerStates
    <3> QED BY <2>3, <3>1, <3>2, <3>3 DEF TypeOK, ServerTypeOK
  <2> QED BY <2>2, <2>3, <2>4, NotifyType DEF TypeOK
<1>2. CASE ServerRows
  <2> PICK n \in PageRows :
        /\ srv' = [srv EXCEPT !.page = @ + 1, !.row = @ + n, !.rows = @ + n,
                              !.sent = @ + 1]
        /\ Notify([kind |-> "rows", rs |-> srv.set, seq |-> srv.page,
                   off |-> srv.row, n |-> n])
    BY <1>2 DEF ServerRows
  <2>1. n \in Nat
    BY ConstantsAssumption DEF ConstantsAssumption
  <2>2. srv.set \in ResultSets /\ srv.page \in Nat /\ srv.row \in Nat
    <3>1. srv.set > 0
      BY <1>2 DEF ServerRows
    <3>2. srv.page \in Nat /\ srv.row \in Nat
      BY DEF TypeOK, ServerTypeOK, ServerStates
    <3> QED BY <3>1, <3>2, PlanBound DEF TypeOK
  <2>3. [kind |-> "rows", rs |-> srv.set, seq |-> srv.page, off |-> srv.row,
         n |-> n] \in Notifications
    BY <2>1, <2>2 DEF Notifications
  <2>4. plan' = plan
    BY DEF Notify
  <2>5. ServerTypeOK'
    <3>1. faults' = faults
      BY <1>2 DEF ServerRows
    <3>2. srv' \in ServerStates
      <4> DEFINE a == [srv EXCEPT !.page = srv.page + 1]
                 b == [a EXCEPT !.row = srv.row + n]
                 c == [b EXCEPT !.rows = srv.rows + n]
      <4>1. /\ srv \in ServerStates
            /\ srv.page + 1 \in Nat /\ srv.row + n \in Nat
            /\ srv.rows + n \in Nat /\ srv.sent + 1 \in Nat
        BY <2>1, SMTT(60) DEF TypeOK, ServerTypeOK, ServerStates
      <4>2. a \in ServerStates
        BY <4>1 DEF ServerStates
      <4>3. srv' = [c EXCEPT !.sent = srv.sent + 1]
        BY <4>1 DEF ServerStates
      <4> HIDE DEF a
      <4>4. b \in ServerStates
        BY <4>1, <4>2 DEF ServerStates
      <4> HIDE DEF b
      <4>5. c \in ServerStates
        BY <4>1, <4>4 DEF ServerStates
      <4> HIDE DEF c
      <4> QED BY <4>1, <4>3, <4>5 DEF ServerStates
    <3>3. srv'.set = srv.set
      BY DEF TypeOK, ServerTypeOK, ServerStates
    <3> QED BY <2>4, <3>1, <3>2, <3>3 DEF TypeOK, ServerTypeOK
  <2> QED BY <2>3, <2>5, NotifyType DEF TypeOK
<1>3. CASE ServerMessage
  <2> PICK e \in BOOLEAN : Notify([kind |-> "message", error |-> e])
    BY <1>3 DEF ServerMessage
  <2>1. [kind |-> "message", error |-> e] \in Notifications
    BY DEF Notifications
  <2>2. plan' = plan
    BY DEF Notify
  <2>3. ServerTypeOK'
    BY <1>3, <2>2 DEF ServerMessage, TypeOK, ServerTypeOK, ServerStates
  <2> QED BY <2>1, <2>3, NotifyType DEF TypeOK
<1>4. CASE ServerFinish \/ ServerFail
  <2> PICK status \in WireStatus : ServerComplete(status)
    BY <1>4 DEF ServerFinish, ServerFail, WireStatus
  <2>1. [kind |-> "complete", status |-> status] \in Notifications
    BY DEF Notifications
  <2>2. Notify([kind |-> "complete", status |-> status]) /\ plan' = plan
    BY DEF ServerComplete, Notify
  <2>3. ServerTypeOK'
    BY <2>2 DEF ServerComplete, TypeOK, ServerTypeOK, ServerStates
  <2> QED BY <2>1, <2>2, <2>3, NotifyType DEF TypeOK
<1>5. CASE WireFault
  <2> PICK n \in FaultyWire : Notify(n)
    BY <1>5 DEF WireFault
  <2>1. n \in Notifications
    BY ConstantsAssumption DEF ConstantsAssumption
  <2>2. plan' = plan
    BY DEF Notify
  <2>3. ServerTypeOK'
    BY <1>5, <2>2, ConstantsAssumption
       DEF WireFault, TypeOK, ServerTypeOK, ConstantsAssumption
  <2> QED BY <2>1, <2>3, NotifyType DEF TypeOK
<1> QED BY <1>1, <1>2, <1>3, <1>4, <1>5 DEF Server

LEMMA StartType == TypeOK /\ Start => TypeOK'
<1> SUFFICES ASSUME TypeOK, Start PROVE TypeOK'
  OBVIOUS
<1> USE DEF serverVars, wireVars, bufferVars, demuxVars, startVars, laneVars,
            cancelVars, disposeVars, sessionVars
<1>1. CASE ExecuteAccepted
  <2>1. ServerTypeOK' /\ WireTypeOK' /\ LaneTypeOK'
    BY <1>1 DEF ExecuteAccepted, TypeOK, ServerTypeOK, WireTypeOK, LaneTypeOK
  <2>2. ControlTypeOK'
    BY <1>1 DEF ExecuteAccepted, SettleAccepted, TypeOK, ControlTypeOK
  <2>3. FlagTypeOK'
    BY <1>1, Zenon DEF ExecuteAccepted, TypeOK, FlagTypeOK
  <2> QED BY <2>1, <2>2, <2>3 DEF TypeOK
<1>2. CASE ReplayOrphan
  <2>1. Head(orphan) \in Notifications /\ Tail(orphan) \in Seq(Notifications)
    BY <1>2 DEF ReplayOrphan, TypeOK, WireTypeOK
  <2>2. WireTypeOK' /\ Len(lane') >= Len(lane)
    BY <1>2, <2>1, OnWireType DEF ReplayOrphan, TypeOK
  <2>3. ServerTypeOK'
    BY <1>2 DEF ReplayOrphan, TypeOK, ServerTypeOK
  <2>4. LaneTypeOK'
    BY <1>2, <2>2 DEF ReplayOrphan, TypeOK, LaneTypeOK, WireTypeOK
  <2>5. ControlTypeOK'
    BY <1>2 DEF ReplayOrphan, TypeOK, ControlTypeOK
  <2>6. FlagTypeOK'
    BY <1>2, Zenon DEF ReplayOrphan, TypeOK, FlagTypeOK, OnWire, DropAfterTerminal,
       OnWireMessage, OnWireResultSet, OnWireRows, OnWireComplete, FinishTerminal,
       ProtocolViolation
  <2> QED BY <2>2, <2>3, <2>4, <2>5, <2>6 DEF TypeOK
<1>3. CASE EnqueueAccepted
  <2>1. [kind |-> "accepted"] \in Steps
    BY DEF Steps, AcceptedStep
  <2>2. lane' \in Seq(Steps) /\ Len(lane') = Len(lane) + 1
    BY <1>3, <2>1, AppendType DEF EnqueueAccepted, TypeOK, WireTypeOK
  <2>3. ServerTypeOK'
    BY <1>3 DEF EnqueueAccepted, TypeOK, ServerTypeOK
  <2>4. WireTypeOK'
    BY <1>3, <2>2 DEF EnqueueAccepted, TypeOK, WireTypeOK
  <2>5. LaneTypeOK'
    BY <1>3, <2>2 DEF EnqueueAccepted, TypeOK, LaneTypeOK, WireTypeOK
  <2>6. ControlTypeOK'
    BY <1>3 DEF EnqueueAccepted, TypeOK, ControlTypeOK
  <2>7. FlagTypeOK'
    BY <1>3, Zenon DEF EnqueueAccepted, TypeOK, FlagTypeOK
  <2> QED BY <2>3, <2>4, <2>5, <2>6, <2>7 DEF TypeOK
<1>4. CASE ExecuteRejected
  <2>1. lane' \in Seq(Steps) /\ Len(lane') >= Len(lane)
    BY <1>4, FinishType DEF ExecuteRejected, TypeOK, CompletionStatus
  <2>2. ServerTypeOK'
    BY <1>4 DEF ExecuteRejected, TypeOK, ServerTypeOK, ServerStates
  <2>3. WireTypeOK'
    BY <1>4, <2>1 DEF ExecuteRejected, TypeOK, WireTypeOK
  <2>4. LaneTypeOK'
    BY <1>4, <2>1 DEF ExecuteRejected, TypeOK, LaneTypeOK, WireTypeOK
  <2>5. ControlTypeOK'
    BY <1>4 DEF ExecuteRejected, SettleAccepted, TypeOK, ControlTypeOK
  <2>6. FlagTypeOK'
    BY <1>4, Zenon DEF ExecuteRejected, FinishTerminal, TypeOK, FlagTypeOK
  <2> QED BY <2>2, <2>3, <2>4, <2>5, <2>6 DEF TypeOK
<1> QED BY <1>1, <1>2, <1>3, <1>4 DEF Start

(* The lane's own steps touch neither the service nor the controls.        *)
LEMMA LaneFrame ==
  ASSUME Lane
  PROVE  /\ UNCHANGED <<plan, srv, faults, lane, ledger, ordinal, totalRows, errors>>
         /\ UNCHANGED <<exec, accepted, cancelPc, cancelRequested, disposePc,
                        drainTimer, session, listed, closers, backend, subscribed>>
<1> USE DEF serverVars, wireVars, bufferVars, demuxVars, startVars, laneVars,
            cancelVars, disposeVars, sessionVars
<1>1. CASE RunStep
  BY <1>1 DEF RunStep
<1>2. CASE PageAccepted
  BY <1>2 DEF PageAccepted
<1>3. CASE StepDone
  BY <1>3 DEF StepDone
<1>4. CASE CompleteDelivered
  BY <1>4 DEF CompleteDelivered
<1>5. CASE StepFailed
  BY <1>5 DEF StepFailed
<1> QED BY <1>1, <1>2, <1>3, <1>4, <1>5 DEF Lane, SinkSettles

(* unregisterQuery keeps the buffer, or empties it.                        *)
LEMMA UnregisterType ==
  ASSUME WireTypeOK, UnregisterQuery
  PROVE  orphan' \in Seq(Notifications)
<1>1. CASE UNCHANGED <<registered, retired, orphan>>
  <2>1. orphan' = orphan
    BY <1>1
  <2> QED BY <2>1 DEF WireTypeOK
<1>2. CASE orphan' = <<>>
  BY <1>2
<1> QED BY <1>1, <1>2, Zenon DEF UnregisterQuery

LEMMA LaneType == TypeOK /\ Lane => TypeOK'
<1> SUFFICES ASSUME TypeOK, Lane PROVE TypeOK'
  OBVIOUS
<1> USE DEF serverVars, wireVars, bufferVars, demuxVars, startVars, laneVars,
            cancelVars, disposeVars, sessionVars
<1>1. ServerTypeOK' /\ ControlTypeOK'
  BY LaneFrame, ZenonT(60) DEF TypeOK, ServerTypeOK, ControlTypeOK
<1>2. busy => lane[pos] \in Steps /\ pos \in 1..Len(lane)
  BY DEF TypeOK, LaneTypeOK, WireTypeOK
<1>3. ASSUME orphan' \in Seq(Notifications), asked' \subseteq {"cancel", "dispose"}
      PROVE  WireTypeOK'
  BY <1>3, LaneFrame DEF TypeOK, WireTypeOK
<1>4. CASE RunStep
  <2>1. WireTypeOK' /\ LaneTypeOK'
    BY <1>3, <1>4 DEF RunStep, TypeOK, LaneTypeOK, WireTypeOK
  <2>2. FlagTypeOK'
    BY <1>4, Zenon DEF RunStep, TypeOK, FlagTypeOK
  <2> QED BY <1>1, <2>1, <2>2 DEF TypeOK
<1>5. CASE PageAccepted
  <2>1. lane[pos].ord \in Nat
    BY <1>2, <1>5 DEF PageAccepted, InFlight, Steps, AcceptedStep, MetadataStep,
                      PageStep, MessageStep, CompleteStep
  <2>2. WireTypeOK' /\ LaneTypeOK'
    BY <1>3, <1>5, <2>1 DEF PageAccepted, TypeOK, LaneTypeOK, WireTypeOK
  <2>3. FlagTypeOK'
    BY <1>5, Zenon DEF PageAccepted, TypeOK, FlagTypeOK
  <2> QED BY <1>1, <2>2, <2>3 DEF TypeOK
<1>6. CASE StepDone
  <2>1. WireTypeOK' /\ LaneTypeOK'
    BY <1>3, <1>6 DEF StepDone, TypeOK, LaneTypeOK, WireTypeOK
  <2>2. FlagTypeOK'
    BY <1>6, Zenon DEF StepDone, TypeOK, FlagTypeOK
  <2> QED BY <1>1, <2>1, <2>2 DEF TypeOK
<1>7. CASE CompleteDelivered
  <2>1. lane[pos].status \in CompletionStatus /\ lane[pos].rows \in Nat
    BY <1>2, <1>7 DEF CompleteDelivered, InFlight, Steps, AcceptedStep,
                      MetadataStep, PageStep, MessageStep, CompleteStep
  <2>2. WireTypeOK'
    BY <1>3, <1>7, UnregisterType DEF CompleteDelivered, TypeOK, WireTypeOK
  <2>3. completion' \in [status : CompletionStatus \cup {"pending"}, rows : Nat]
    BY <1>7, <2>1 DEF CompleteDelivered, SettleCompletion, TypeOK, LaneTypeOK
  <2>4. LaneTypeOK'
    BY <1>7, <2>3 DEF CompleteDelivered, TypeOK, LaneTypeOK
  <2>5. FlagTypeOK'
    BY <1>7, Zenon DEF CompleteDelivered, UnregisterQuery, TypeOK, FlagTypeOK
  <2> QED BY <1>1, <2>2, <2>4, <2>5 DEF TypeOK
<1>8. CASE StepFailed
  <2>1. orphan' \in Seq(Notifications)
    BY <1>8, UnregisterType DEF StepFailed, TypeOK, WireTypeOK
  <2>2. WireTypeOK'
    BY <1>3, <1>8, <2>1 DEF StepFailed, TypeOK, WireTypeOK
  <2>3. completion' \in [status : CompletionStatus \cup {"pending"}, rows : Nat]
    BY <1>8 DEF StepFailed, SettleCompletion, SinkError, TypeOK, LaneTypeOK,
                WireTypeOK, CompletionStatus
  <2>4. failed' = failed \cup {pos} /\ pos' = pos /\ lane' = lane /\ acked' = acked
    BY <1>8 DEF StepFailed
  <2>5. busy /\ busy' = FALSE
    BY <1>8 DEF StepFailed, InFlight
  <2>6. LaneTypeOK'
    BY <1>2, <2>3, <2>4, <2>5 DEF TypeOK, LaneTypeOK
  <2>7. FlagTypeOK'
    BY <1>8, Zenon DEF StepFailed, UnregisterQuery, TypeOK, FlagTypeOK
  <2> QED BY <1>1, <2>2, <2>6, <2>7 DEF TypeOK
<1> QED BY <1>4, <1>5, <1>6, <1>7, <1>8 DEF Lane, SinkSettles

(* A synthesized terminal keeps the types of what it writes.               *)
LEMMA SynthesizeType ==
  ASSUME TypeOK, NEW status \in CompletionStatus, SynthesizeTerminal(status)
  PROVE  /\ lane' \in Seq(Steps) /\ Len(lane') >= Len(lane)
         /\ accepted' \in {"pending", "accepted", "rejected", "aborted"}
<1>1. lane' \in Seq(Steps) /\ Len(lane') >= Len(lane)
  BY FinishType DEF SynthesizeTerminal, TypeOK
<1>2. accepted' = accepted \/ accepted' = "aborted"
  BY Zenon DEF SynthesizeTerminal, SettleAccepted
<1> QED BY <1>1, <1>2 DEF TypeOK, ControlTypeOK

LEMMA ControlType == TypeOK /\ Control => TypeOK'
<1> SUFFICES ASSUME TypeOK, Control PROVE TypeOK'
  OBVIOUS
<1> USE DEF serverVars, wireVars, bufferVars, demuxVars, startVars, laneVars,
            cancelVars, disposeVars, sessionVars
<1>1. CASE CancelCall \/ CancelGetsId \/ CancelAnswered
  <2>1. CancelFrame
    BY <1>1 DEF CancelCall, CancelGetsId, CancelAnswered
  <2>2. asked' \subseteq {"cancel", "dispose"} /\ cancelPc' \in {"idle", "waitId", "requested"}
    BY <1>1 DEF CancelCall, CancelGetsId, CancelAnswered, SendCancel, TypeOK,
                WireTypeOK
  <2>3. ServerTypeOK' /\ WireTypeOK'
    BY <2>1, <2>2 DEF CancelFrame, TypeOK, ServerTypeOK, WireTypeOK
  <2>4. LaneTypeOK'
    BY <2>1 DEF CancelFrame, TypeOK, LaneTypeOK
  <2>5. ControlTypeOK'
    BY <2>1, <2>2 DEF CancelFrame, TypeOK, ControlTypeOK
  <2>6. FlagTypeOK'
    <3>1. CASE CancelCall
      BY <2>1, <3>1, Zenon DEF CancelCall, CancelFrame, TypeOK, FlagTypeOK
    <3>2. CASE CancelGetsId
      BY <2>1, <3>2, Zenon DEF CancelGetsId, CancelFrame, TypeOK, FlagTypeOK
    <3>3. CASE CancelAnswered
      BY <2>1, <3>3, Zenon DEF CancelAnswered, ArmCancelDeadline, CancelFrame,
                               TypeOK, FlagTypeOK
    <3> QED BY <1>1, <3>1, <3>2, <3>3
  <2> QED BY <2>3, <2>4, <2>5, <2>6 DEF TypeOK
<1>2. CASE CancelDeadline
  <2>1. /\ lane' \in Seq(Steps) /\ Len(lane') >= Len(lane)
        /\ accepted' \in {"pending", "accepted", "rejected", "aborted"}
    BY <1>2, SynthesizeType DEF CancelDeadline, CompletionStatus
  <2>2. ServerTypeOK' /\ WireTypeOK'
    BY <1>2, <2>1 DEF CancelDeadline, TypeOK, ServerTypeOK, WireTypeOK
  <2>3. LaneTypeOK'
    BY <1>2, <2>1 DEF CancelDeadline, TypeOK, LaneTypeOK, WireTypeOK
  <2>4. ControlTypeOK'
    BY <1>2, <2>1 DEF CancelDeadline, TypeOK, ControlTypeOK
  <2>5. FlagTypeOK'
    BY <1>2, Zenon DEF CancelDeadline, SynthesizeTerminal, FinishTerminal,
                       TypeOK, FlagTypeOK
  <2> QED BY <2>2, <2>3, <2>4, <2>5 DEF TypeOK
<1>3. CASE DisposeCall \/ DisposeGetsId \/ DisposeAcknowledged
  <2>1. DisposeFrame /\ NoTerminal
    BY <1>3 DEF DisposeCall, DisposeGetsId, DisposeAcknowledged
  <2>2. asked' \subseteq {"cancel", "dispose"} /\ disposePc' \in {"idle", "waitId", "requested"}
    BY <1>3 DEF DisposeCall, DisposeGetsId, DisposeAcknowledged, SendDispose,
                TypeOK, WireTypeOK
  <2>3. ServerTypeOK' /\ WireTypeOK'
    BY <2>1, <2>2 DEF DisposeFrame, NoTerminal, TypeOK, ServerTypeOK, WireTypeOK
  <2>4. LaneTypeOK'
    BY <2>1 DEF DisposeFrame, NoTerminal, TypeOK, LaneTypeOK
  <2>5. ControlTypeOK'
    BY <2>1, <2>2 DEF DisposeFrame, NoTerminal, TypeOK, ControlTypeOK
  <2>6. FlagTypeOK'
    <3>1. drainTimer' = drainTimer \/ drainTimer' = TRUE
      BY <1>3, Zenon DEF DisposeCall, DisposeGetsId, DisposeAcknowledged
    <3> QED BY <2>1, <3>1, Zenon DEF DisposeFrame, NoTerminal, TypeOK, FlagTypeOK
  <2> QED BY <2>3, <2>4, <2>5, <2>6 DEF TypeOK
<1>4. CASE DisposeFailed \/ DrainDeadline
  <2>1. DisposeFrame /\ SynthesizeTerminal("disposed") /\ asked' = asked
    BY <1>4 DEF DisposeFailed, DrainDeadline
  <2>2. /\ lane' \in Seq(Steps) /\ Len(lane') >= Len(lane)
        /\ accepted' \in {"pending", "accepted", "rejected", "aborted"}
    BY <2>1, SynthesizeType DEF CompletionStatus
  <2>3. disposePc' \in {"idle", "waitId", "requested"}
    <3>1. disposePc' = "idle" \/ disposePc' = disposePc
      BY <1>4, Zenon DEF DisposeFailed, DrainDeadline
    <3> QED BY <3>1 DEF TypeOK, ControlTypeOK
  <2>4. ServerTypeOK' /\ WireTypeOK'
    BY <2>1, <2>2 DEF DisposeFrame, TypeOK, ServerTypeOK, WireTypeOK
  <2>5. LaneTypeOK'
    BY <2>1, <2>2 DEF DisposeFrame, TypeOK, LaneTypeOK, WireTypeOK
  <2>6. ControlTypeOK'
    BY <2>1, <2>2, <2>3 DEF DisposeFrame, TypeOK, ControlTypeOK
  <2>7. FlagTypeOK'
    BY <1>4, ZenonT(60) DEF DisposeFailed, DrainDeadline, SynthesizeTerminal,
                              FinishTerminal, DisposeFrame, TypeOK, FlagTypeOK
  <2> QED BY <2>4, <2>5, <2>6, <2>7 DEF TypeOK
<1> QED BY <1>1, <1>2, <1>3, <1>4 DEF Control

(* Ending the active query: a stutter, or a synthesized terminal.          *)
LEMMA EndActiveType ==
  ASSUME TypeOK, NEW status \in CompletionStatus, EndActiveQuery(status)
  PROVE  /\ lane' \in Seq(Steps) /\ Len(lane') >= Len(lane)
         /\ accepted' \in {"pending", "accepted", "rejected", "aborted"}
<1>1. CASE NoTerminal
  BY <1>1 DEF NoTerminal, TypeOK, WireTypeOK, ControlTypeOK
<1>2. CASE SynthesizeTerminal(status)
  BY <1>2, SynthesizeType
<1> QED BY <1>1, <1>2 DEF EndActiveQuery

LEMMA SessionType == TypeOK /\ Session => TypeOK'
<1> SUFFICES ASSUME TypeOK, Session PROVE TypeOK'
  OBVIOUS
<1> USE DEF serverVars, wireVars, bufferVars, demuxVars, startVars, laneVars,
            cancelVars, disposeVars, sessionVars
<1>1. SessionFrame
  BY DEF Session, OnFatal, CloseCall, CloseDone, BackendDispose, BackendDisposed
<1>2. /\ lane' \in Seq(Steps) /\ Len(lane') >= Len(lane)
      /\ accepted' \in {"pending", "accepted", "rejected", "aborted"}
  <2>1. CASE NoTerminal
    BY <2>1 DEF NoTerminal, TypeOK, WireTypeOK, ControlTypeOK
  <2>2. CASE EndActiveQuery("connectionLost") \/ EndActiveQuery("canceled")
    BY <2>2, EndActiveType DEF CompletionStatus
  <2> QED BY <2>1, <2>2 DEF Session, OnFatal, MarkLost, CloseCall, CloseDone,
                            BackendDispose, BackendDisposed
<1>3. orphan' \in Seq(Notifications) /\ asked' \subseteq {"cancel", "dispose"}
  <2>1. CASE OnFatal
    BY <2>1 DEF OnFatal, TypeOK, WireTypeOK
  <2>2. CASE CloseCall
    BY <2>2 DEF CloseCall, BeginClose, TypeOK, WireTypeOK
  <2>3. CASE \E f \in {"canceled", "connectionLost"} : CloseDone(f)
    BY <2>3 DEF CloseDone, TypeOK, WireTypeOK
  <2>4. CASE BackendDispose
    BY <2>4 DEF BackendDispose, BeginClose, TypeOK, WireTypeOK
  <2>5. CASE BackendDisposed
    BY <2>5 DEF BackendDisposed, TypeOK, WireTypeOK
  <2> QED BY <2>1, <2>2, <2>3, <2>4, <2>5 DEF Session
<1>4. /\ session' \in {"open", "closing", "closed", "lost"}
      /\ closers' \subseteq {"canceled", "connectionLost"}
      /\ backend' \in {"up", "disposing", "disposed"}
  <2>1. CASE OnFatal
    BY <2>1 DEF OnFatal, MarkLost, TypeOK, ControlTypeOK
  <2>2. CASE CloseCall
    BY <2>2 DEF CloseCall, BeginClose, TypeOK, ControlTypeOK
  <2>3. CASE \E f \in {"canceled", "connectionLost"} : CloseDone(f)
    BY <2>3 DEF CloseDone, TypeOK, ControlTypeOK
  <2>4. CASE BackendDispose
    BY <2>4 DEF BackendDispose, BeginClose, TypeOK, ControlTypeOK
  <2>5. CASE BackendDisposed
    BY <2>5 DEF BackendDisposed, TypeOK, ControlTypeOK
  <2> QED BY <2>1, <2>2, <2>3, <2>4, <2>5 DEF Session
<1>5. FlagTypeOK'
  <2>1. CASE OnFatal
    BY <1>1, <2>1, Zenon DEF OnFatal, MarkLost, EndActiveQuery, NoTerminal,
       SynthesizeTerminal, FinishTerminal, SessionFrame, TypeOK, FlagTypeOK
  <2>2. CASE CloseCall
    BY <1>1, <2>2, Zenon DEF CloseCall, NoTerminal, SessionFrame, TypeOK, FlagTypeOK
  <2>3. CASE \E f \in {"canceled", "connectionLost"} : CloseDone(f)
    BY <1>1, <2>3, Zenon DEF CloseDone, EndActiveQuery, NoTerminal,
       SynthesizeTerminal, FinishTerminal, SessionFrame, TypeOK, FlagTypeOK
  <2>4. CASE BackendDispose
    BY <1>1, <2>4, Zenon DEF BackendDispose, NoTerminal, SessionFrame, TypeOK, FlagTypeOK
  <2>5. CASE BackendDisposed
    BY <1>1, <2>5, Zenon DEF BackendDisposed, NoTerminal, SessionFrame, TypeOK, FlagTypeOK
  <2> QED BY <2>1, <2>2, <2>3, <2>4, <2>5 DEF Session
<1>6. ServerTypeOK' /\ WireTypeOK'
  BY <1>1, <1>2, <1>3 DEF SessionFrame, TypeOK, ServerTypeOK, WireTypeOK
<1>7. LaneTypeOK'
  BY <1>1, <1>2 DEF SessionFrame, TypeOK, LaneTypeOK, WireTypeOK
<1>8. ControlTypeOK'
  BY <1>1, <1>2, <1>4 DEF SessionFrame, TypeOK, ControlTypeOK
<1> QED BY <1>5, <1>6, <1>7, <1>8 DEF TypeOK

(* TypeOK is inductive: every handler of the query, its session and its    *)
(* backend keeps the state in its types.                                   *)
LEMMA NextTypeOK == TypeOK /\ [Next]_vars => TypeOK'
<1>1. TypeOK /\ Next => TypeOK'
  BY ServerType, StartType, LaneType, ControlType, SessionType DEF Next
<1>2. TypeOK /\ UNCHANGED vars => TypeOK'
  <2> SUFFICES ASSUME TypeOK, UNCHANGED vars PROVE TypeOK'
    OBVIOUS
  <2> USE DEF vars, serverVars, wireVars, bufferVars, demuxVars, startVars,
              laneVars, cancelVars, disposeVars, sessionVars
  <2>1. ServerTypeOK' /\ WireTypeOK' /\ LaneTypeOK' /\ ControlTypeOK'
    BY DEF TypeOK, ServerTypeOK, WireTypeOK, LaneTypeOK, ControlTypeOK
  <2>2. FlagTypeOK'
    BY Zenon DEF TypeOK, FlagTypeOK
  <2> QED BY <2>1, <2>2 DEF TypeOK
<1> QED BY <1>1, <1>2

(* For every plan, window, sink, wire fault and set of operations, the     *)
(* state of the query stays in its types.                                  *)
THEOREM TypeCorrect == Spec => []TypeOK
<1>1. Init => TypeOK
  BY InitTypeOK
<1>2. TypeOK /\ [Next]_vars => TypeOK'
  BY NextTypeOK
<1> QED BY <1>1, <1>2, PTL DEF Spec

============================================================================
