----------------------------- MODULE Sts2Query -----------------------------
(***************************************************************************)
(* One query of the STS2 binding (sts2Backend.ts): the class Sts2Query     *)
(* with its ordered lane, its ledger, its acks and its synthesized         *)
(* terminals, the demultiplexing of its notifications by Sts2Backend, the  *)
(* session that owns it, the STS2 service that streams it and the feature  *)
(* sink that consumes it.                                                  *)
(*                                                                         *)
(* The extension host runs on one thread: a handler is one action, and an  *)
(* action ends where the code awaits.  The one handler that is several     *)
(* actions is the execute continuation, which replays buffered events one  *)
(* by one; while it runs (exec = "draining") nothing else may step.        *)
(*                                                                         *)
(* Notifications are dispatched by the step that sends them: a delay on    *)
(* the wire is the service sending later.  The execute response travels on *)
(* its own, so it may be dispatched before or after any notification.      *)
(***************************************************************************)
EXTENDS Integers, Sequences, FiniteSets

CONSTANTS
  MaxSets,          \* result set ids are 1..MaxSets
  Plans,            \* the streams a service may produce: pages per result set
  PageRows,         \* the row counts a page may have
  Window,           \* pages the service sends ahead of the acks (limits.windowPages)
  MaxOrphanEvents,  \* MAX_ORPHAN_EVENTS_PER_QUERY
  MaxMessages,      \* bound: server messages per query
  MaxFaults,        \* bound: notifications that break the wire contract
  FaultyWire,       \* the notifications a broken peer may send
  SinkMayFail,      \* whether a sink callback may reject
  Operations        \* the control operations the environment may call

ResultSets == 1..MaxSets

WireStatus == {"succeeded", "failed", "canceled", "disposed"}

Notifications ==
  [kind : {"resultSet"}, rs : ResultSets]
    \cup [kind : {"rows"}, rs : ResultSets, seq : Nat, off : Nat, n : Nat]
    \cup [kind : {"message"}, error : BOOLEAN]
    \cup [kind : {"complete"}, status : WireStatus]

AllOperations == {"cancel", "dispose", "close", "fatal", "shutdown"}

ASSUME ConstantsAssumption ==
  /\ MaxSets \in Nat
  /\ \A p \in Plans : p \in Seq(Nat) /\ Len(p) <= MaxSets
  /\ PageRows \subseteq Nat
  /\ Window \in Nat \ {0}
  /\ MaxOrphanEvents \in Nat
  /\ MaxMessages \in Nat
  /\ MaxFaults \in Nat
  /\ FaultyWire \subseteq Notifications
  /\ SinkMayFail \in BOOLEAN
  /\ Operations \subseteq AllOperations

VARIABLES
  plan,        \* pages per result set of the stream the service produces
  srv,         \* the service's side of the query
  asked,       \* what the service has been asked: {"cancel", "dispose"}
  faults,      \* contract-breaking notifications sent so far
  subscribed,  \* the backend listens to notifications
  registered,  \* the query id is in Sts2Backend.queries
  retired,     \* the query id is in Sts2Backend.retiredQueryIds
  orphan,      \* Sts2Backend.orphanBuffer for the query id
  overflowed,  \* history: an event was dropped at the buffer's limit
  exec,        \* the execute request: inflight, draining, answered, rejected
  accepted,    \* handle.accepted
  terminal,    \* terminalSent
  ledger,      \* ledgers: next page and row per result set
  ordinal,     \* receivedPageOrdinal
  totalRows,
  errors,
  lane,        \* every step ever put on the lane, in order
  pos,         \* steps whose sink callback has been called
  busy,        \* the callback of step pos has not settled
  failed,      \* history: positions whose callback rejected
  acked,       \* highestAckedPageSeq, the last throughPageSeq sent
  completion,  \* handle.completion
  cancelPc, cancelRequested, cancelTimer, disposePc, drainTimer,
  session,     \* Sts2Session.state
  listed,      \* the session is in Sts2Backend.sessions
  closers,     \* closeInternal calls awaiting connection.close, by fallback
  backend      \* Sts2Backend.dispose: up, disposing, disposed

serverVars  == <<plan, srv, faults>>
wireVars    == <<lane, ledger, ordinal, totalRows, errors, terminal, cancelTimer, asked>>
bufferVars  == <<orphan, overflowed>>
demuxVars   == <<registered, retired>>
startVars   == <<exec, accepted>>
laneVars    == <<pos, busy, failed, acked, completion>>
cancelVars  == <<cancelPc, cancelRequested>>
disposeVars == <<disposePc, drainTimer>>
sessionVars == <<session, listed, closers, backend, subscribed>>

vars == <<serverVars, wireVars, bufferVars, demuxVars, startVars, laneVars,
          cancelVars, disposeVars, sessionVars>>

----------------------------------------------------------------------------
(* Data.                                                                   *)

NoLedger == [open |-> FALSE, page |-> 0, row |-> 0]
Ledgers  == [open : BOOLEAN, page : Nat, row : Nat]

CompletionStatus ==
  {"succeeded", "completedWithErrors", "failed", "canceled", "disposed",
   "connectionLost"}

AcceptedStep  == [kind : {"accepted"}]
MetadataStep  == [kind : {"resultSet"}, rs : ResultSets]
PageStep      == [kind : {"rows"}, rs : ResultSets, seq : Nat, off : Nat,
                  n : Nat, ord : Nat]
MessageStep   == [kind : {"message"}, error : BOOLEAN]
CompleteStep  == [kind : {"complete"}, status : CompletionStatus, rows : Nat]
Steps == AcceptedStep \cup MetadataStep \cup PageStep \cup MessageStep
           \cup CompleteStep

Pending   == [status |-> "pending", rows |-> 0]
SinkError == [status |-> "failed", rows |-> totalRows]
Settled   == completion # Pending

(* The query id is known (backendId is not "").                            *)
HasId == exec \in {"draining", "answered"}

(* No handler is running on the extension host's thread.                   *)
Free == exec # "draining"

----------------------------------------------------------------------------
(* Terminals.                                                              *)

SettleAccepted(a) == accepted' = IF accepted = "pending" THEN a ELSE accepted

(* Mutant: a late terminal is not ignored.                                 *)
FinishTerminalAgain(status) ==
  /\ terminal' = TRUE
  /\ cancelTimer' = FALSE
  /\ lane' = Append(lane, [kind |-> "complete", status |-> status,
                           rows |-> totalRows])

(* finishTerminal: the first caller wins and queues the only onComplete.   *)
FinishTerminal(status) ==
  \/ /\ terminal
     /\ UNCHANGED <<terminal, cancelTimer, lane>>
  \/ /\ ~terminal
     /\ terminal' = TRUE
     /\ cancelTimer' = FALSE
     /\ lane' = Append(lane, [kind |-> "complete", status |-> status,
                              rows |-> totalRows])

(* synthesizeTerminal: also settles a pending acceptance as aborted.       *)
SynthesizeTerminal(status) ==
  /\ IF terminal THEN UNCHANGED accepted ELSE SettleAccepted("aborted")
  /\ FinishTerminal(status)

(* protocolViolation: best-effort cancel, then a failed terminal.          *)
ProtocolViolation ==
  /\ asked' = asked \cup {"cancel"}
  /\ FinishTerminal("failed")

----------------------------------------------------------------------------
(* Wire deliveries.                                                        *)

OnWireResultSet(n) ==
  /\ n.kind = "resultSet"
  /\ ~terminal
  /\ ledger' = [ledger EXCEPT ![n.rs] = [open |-> TRUE, page |-> 0, row |-> 0]]
  /\ lane' = Append(lane, [kind |-> "resultSet", rs |-> n.rs])
  /\ UNCHANGED <<ordinal, totalRows, errors, terminal, cancelTimer, asked>>

(* Mutant: a gap in the page sequence passes.                              *)
ContinuesWithGaps(n) ==
  /\ ledger[n.rs].open
  /\ n.seq >= ledger[n.rs].page

(* The page continues its result set: metadata seen, next page, next row.  *)
ContinuesLedger(n) ==
  /\ ledger[n.rs].open
  /\ n.seq = ledger[n.rs].page
  /\ n.off = ledger[n.rs].row

(* Mutant: the page sequence of the result set is the ack ordinal.         *)
AckPageSeq(n) == n.seq

(* Mutant: the ordinal of the page before.                                 *)
AckPrevious(n) == ordinal - 1

(* A page's ack ordinal counts the pages of the query, not of its result   *)
(* set, whose page sequence restarts at 0.                                 *)
AckOrdinal(n) == ordinal

OnWireRows(n) ==
  /\ n.kind = "rows"
  /\ ~terminal
  /\ \/ /\ ~ContinuesLedger(n)
        /\ ProtocolViolation
        /\ UNCHANGED <<ledger, ordinal, totalRows, errors>>
     \/ /\ ContinuesLedger(n)
        /\ ledger' = [ledger EXCEPT ![n.rs] = [open |-> TRUE, page |-> @.page + 1,
                                               row |-> @.row + n.n]]
        /\ totalRows' = totalRows + n.n
        /\ ordinal' = ordinal + 1
        /\ lane' = Append(lane, [kind |-> "rows", rs |-> n.rs, seq |-> n.seq,
                                 off |-> n.off, n |-> n.n, ord |-> AckOrdinal(n)])
        /\ UNCHANGED <<errors, terminal, cancelTimer, asked>>

OnWireMessage(n) ==
  /\ n.kind = "message"
  /\ ~terminal
  /\ errors' = IF n.error THEN errors + 1 ELSE errors
  /\ lane' = Append(lane, [kind |-> "message", error |-> n.error])
  /\ UNCHANGED <<ledger, ordinal, totalRows, terminal, cancelTimer, asked>>

(* A success with error messages on the way is completedWithErrors.        *)
MapStatus(s) ==
  IF s = "succeeded" /\ errors > 0 THEN "completedWithErrors" ELSE s

OnWireComplete(n) ==
  /\ n.kind = "complete"
  /\ ~terminal
  /\ FinishTerminal(MapStatus(n.status))
  /\ UNCHANGED <<ledger, ordinal, totalRows, errors, asked>>

(* terminalGuard, and the duplicate terminal: after a terminal, drop.      *)
DropAfterTerminal ==
  /\ terminal
  /\ UNCHANGED wireVars

OnWire(n) ==
  \/ DropAfterTerminal
  \/ OnWireResultSet(n)
  \/ OnWireRows(n)
  \/ OnWireMessage(n)
  \/ OnWireComplete(n)

(* bufferOrphan: an event at the limit is dropped.                         *)
BufferOrphan(n) ==
  /\ UNCHANGED wireVars
  /\ \/ /\ Len(orphan) < MaxOrphanEvents
        /\ orphan' = Append(orphan, n)
        /\ UNCHANGED overflowed
     \/ /\ Len(orphan) >= MaxOrphanEvents
        /\ overflowed' = TRUE
        /\ UNCHANGED orphan

(* route: an active lane, a retired id, or an id nobody knows yet.         *)
Route(n) ==
  \/ ~subscribed /\ UNCHANGED <<wireVars, bufferVars>>
  \/ subscribed /\ registered /\ OnWire(n) /\ UNCHANGED bufferVars
  \/ subscribed /\ ~registered /\ retired /\ UNCHANGED <<wireVars, bufferVars>>
  \/ subscribed /\ ~registered /\ ~retired /\ BufferOrphan(n)

Notify(n) ==
  /\ Free
  /\ Route(n)
  /\ UNCHANGED <<plan, demuxVars, startVars, laneVars, cancelVars, disposeVars,
                 sessionVars>>

----------------------------------------------------------------------------
(* The STS2 service, as the binding uses it.                               *)

ServerResultSet ==
  /\ srv.phase = "running"
  /\ srv.set < Len(plan)
  /\ srv.set > 0 => srv.page = plan[srv.set]
  /\ srv' = [srv EXCEPT !.set = @ + 1, !.page = 0, !.row = 0]
  /\ Notify([kind |-> "resultSet", rs |-> srv.set + 1])
  /\ UNCHANGED faults

(* Pages sent but not covered by an ack.                                   *)
Outstanding == srv.sent - (acked + 1)

ServerRows ==
  /\ srv.phase = "running"
  /\ srv.set > 0
  /\ srv.page < plan[srv.set]
  /\ Outstanding < Window
  /\ \E n \in PageRows :
       /\ srv' = [srv EXCEPT !.page = @ + 1, !.row = @ + n, !.rows = @ + n,
                           !.sent = @ + 1]
       /\ Notify([kind |-> "rows", rs |-> srv.set, seq |-> srv.page,
                  off |-> srv.row, n |-> n])
  /\ UNCHANGED faults

ServerMessage ==
  /\ srv.phase = "running"
  /\ srv.msgs < MaxMessages
  /\ srv' = [srv EXCEPT !.msgs = @ + 1]
  /\ \E e \in BOOLEAN : Notify([kind |-> "message", error |-> e])
  /\ UNCHANGED faults

StreamDone ==
  /\ srv.set = Len(plan)
  /\ srv.set > 0 => srv.page = plan[srv.set]

ServerComplete(status) ==
  /\ srv.phase = "running"
  /\ srv' = [srv EXCEPT !.phase = "done"]
  /\ Notify([kind |-> "complete", status |-> status])
  /\ UNCHANGED faults

(* The terminals a service owes: success at the end of the stream, or the  *)
(* answer to a cancel or a dispose.                                        *)
ServerFinish ==
  \/ StreamDone /\ ServerComplete("succeeded")
  \/ "cancel" \in asked /\ ServerComplete("canceled")
  \/ "dispose" \in asked /\ ServerComplete("disposed")

ServerFail == ServerComplete("failed")

(* A peer that breaks the wire contract: gaps, duplicates, late events.    *)
WireFault ==
  /\ faults < MaxFaults
  /\ faults' = faults + 1
  /\ \E n \in FaultyWire : Notify(n)
  /\ UNCHANGED srv

----------------------------------------------------------------------------
(* Sts2Query.start: the execute request and its answer.                    *)

ExecuteAccepted ==
  /\ exec = "inflight"
  /\ srv.phase # "rejected"
  /\ exec' = "draining"
  /\ SettleAccepted("accepted")
  /\ registered' = TRUE
  /\ retired' = FALSE
  /\ UNCHANGED <<serverVars, wireVars, bufferVars, laneVars, cancelVars,
                 disposeVars, sessionVars>>

(* Mutant: buffered events are discarded at registration.                  *)
DiscardOrphan ==
  /\ exec = "draining"
  /\ orphan # <<>>
  /\ orphan' = Tail(orphan)
  /\ UNCHANGED <<serverVars, wireVars, overflowed, demuxVars, startVars,
                 laneVars, cancelVars, disposeVars, sessionVars>>

(* registerQuery replays the buffered events before it returns.            *)
ReplayOrphan ==
  /\ exec = "draining"
  /\ orphan # <<>>
  /\ OnWire(Head(orphan))
  /\ orphan' = Tail(orphan)
  /\ UNCHANGED <<serverVars, overflowed, demuxVars, startVars, laneVars,
                 cancelVars, disposeVars, sessionVars>>

(* Only then is onAccepted put on the lane.                                *)
EnqueueAccepted ==
  /\ exec = "draining"
  /\ orphan = <<>>
  /\ exec' = "answered"
  /\ lane' = Append(lane, [kind |-> "accepted"])
  /\ UNCHANGED <<serverVars, ledger, ordinal, totalRows, errors, terminal,
                 cancelTimer, asked, bufferVars, demuxVars, accepted, laneVars,
                 cancelVars, disposeVars, sessionVars>>

(* The request is refused or its transport fails: no query runs.           *)
ExecuteRejected ==
  /\ exec = "inflight"
  /\ exec' = "rejected"
  /\ srv' = [srv EXCEPT !.phase = "rejected"]
  /\ errors' = errors + 1
  /\ SettleAccepted("rejected")
  /\ FinishTerminal("failed")
  /\ UNCHANGED <<plan, faults, ledger, ordinal, totalRows, asked, bufferVars,
                 demuxVars, laneVars, cancelVars, disposeVars, sessionVars>>

----------------------------------------------------------------------------
(* The lane: one sink callback in flight.                                  *)

RunStep ==
  /\ Free
  /\ ~busy
  /\ pos < Len(lane)
  /\ pos' = pos + 1
  /\ busy' = TRUE
  /\ UNCHANGED <<serverVars, wireVars, bufferVars, demuxVars, startVars,
                 failed, acked, completion, cancelVars, disposeVars, sessionVars>>

InFlight(kinds) == Free /\ busy /\ lane[pos].kind \in kinds

(* unregisterQuery(backendId): with no id yet, nothing is found.           *)
UnregisterQuery ==
  \/ ~HasId /\ UNCHANGED <<registered, retired, orphan>>
  \/ HasId /\ registered' = FALSE /\ retired' = TRUE /\ orphan' = <<>>

SettleCompletion(summary) ==
  completion' = IF Settled THEN completion ELSE summary

(* Mutant: the ack covers every page received so far.                      *)
PageAcceptedAll ==
  /\ InFlight({"rows"})
  /\ busy' = FALSE
  /\ acked' = IF ~terminal THEN ordinal - 1 ELSE acked
  /\ UNCHANGED <<serverVars, wireVars, bufferVars, demuxVars, startVars, pos,
                 failed, completion, cancelVars, disposeVars, sessionVars>>

(* The sink accepted a page: ack it, unless a terminal came meanwhile.     *)
PageAccepted ==
  /\ InFlight({"rows"})
  /\ busy' = FALSE
  /\ acked' = IF ~terminal /\ lane[pos].ord > acked THEN lane[pos].ord ELSE acked
  /\ UNCHANGED <<serverVars, wireVars, bufferVars, demuxVars, startVars, pos,
                 failed, completion, cancelVars, disposeVars, sessionVars>>

StepDone ==
  /\ InFlight({"accepted", "resultSet", "message"})
  /\ busy' = FALSE
  /\ UNCHANGED <<serverVars, wireVars, bufferVars, demuxVars, startVars, pos,
                 failed, acked, completion, cancelVars, disposeVars, sessionVars>>

(* onComplete returned or threw: either way the completion settles.        *)
CompleteDelivered ==
  /\ InFlight({"complete"})
  /\ busy' = FALSE
  /\ SettleCompletion([status |-> lane[pos].status, rows |-> lane[pos].rows])
  /\ UnregisterQuery
  /\ UNCHANGED <<serverVars, wireVars, overflowed, startVars, pos, failed,
                 acked, cancelVars, disposeVars, sessionVars>>

(* Mutant: the sink's failure settles the completion but is no terminal.   *)
StepFailedOpen ==
  /\ SinkMayFail
  /\ InFlight({"accepted", "resultSet", "rows", "message"})
  /\ busy' = FALSE
  /\ failed' = failed \cup {pos}
  /\ SettleCompletion(SinkError)
  /\ UNCHANGED <<serverVars, wireVars, bufferVars, demuxVars, startVars, pos,
                 acked, cancelVars, disposeVars, sessionVars>>

(* A callback rejected.  Before a terminal the query fails with SinkError; *)
(* after one the rejection is swallowed.  Queued steps stay on the lane.   *)
StepFailed ==
  /\ SinkMayFail
  /\ InFlight({"accepted", "resultSet", "rows", "message"})
  /\ busy' = FALSE
  /\ failed' = failed \cup {pos}
  /\ \/ /\ terminal
        /\ UNCHANGED <<terminal, cancelTimer, completion, asked, demuxVars, orphan>>
     \/ /\ ~terminal
        /\ terminal' = TRUE
        /\ cancelTimer' = FALSE
        /\ SettleCompletion(SinkError)
        /\ UnregisterQuery
        /\ asked' = asked \cup {"cancel"}
  /\ UNCHANGED <<serverVars, lane, ledger, ordinal, totalRows, errors,
                 overflowed, startVars, pos, acked, cancelVars, disposeVars,
                 sessionVars>>

SinkSettles == PageAccepted \/ StepDone \/ CompleteDelivered \/ StepFailed

----------------------------------------------------------------------------
(* handle.cancel.                                                          *)

(* Mutant: the cancel trusts the service to send a terminal.               *)
TrustTheService == UNCHANGED cancelTimer

ArmCancelDeadline == cancelTimer' = (cancelTimer \/ ~terminal)

SendCancel ==
  /\ cancelPc' = "requested"
  /\ asked' = asked \cup {"cancel"}

CancelFrame ==
  UNCHANGED <<serverVars, lane, ledger, ordinal, totalRows, errors, terminal,
              bufferVars, demuxVars, startVars, laneVars, disposeVars, sessionVars>>

CancelCall ==
  /\ Free
  /\ "cancel" \in Operations
  /\ cancelPc = "idle"
  /\ cancelRequested' = TRUE
  /\ \/ HasId /\ SendCancel
     \/ ~HasId /\ cancelPc' = "waitId" /\ UNCHANGED asked
  /\ UNCHANGED cancelTimer
  /\ CancelFrame

(* queryIdForControl: wait for the acceptance, within the ack deadline.    *)
CancelGetsId ==
  /\ Free
  /\ cancelPc = "waitId"
  /\ \/ accepted = "accepted" /\ SendCancel
     \/ /\ accepted \in {"rejected", "aborted"}
        /\ cancelPc' = "idle"
        /\ UNCHANGED asked
  /\ UNCHANGED <<cancelTimer, cancelRequested>>
  /\ CancelFrame

(* The ack, an error, or the deadline (of the id wait too) arms the timer. *)
CancelAnswered ==
  /\ Free
  /\ \/ cancelPc = "requested"
     \/ cancelPc = "waitId" /\ accepted = "pending"
  /\ cancelPc' = "idle"
  /\ ArmCancelDeadline
  /\ UNCHANGED <<cancelRequested, asked>>
  /\ CancelFrame

CancelDeadline ==
  /\ Free
  /\ cancelTimer
  /\ SynthesizeTerminal("canceled")
  /\ UNCHANGED <<serverVars, ledger, ordinal, totalRows, errors, asked,
                 bufferVars, demuxVars, exec, laneVars, cancelVars, disposeVars,
                 sessionVars>>

----------------------------------------------------------------------------
(* handle.dispose.                                                         *)

SendDispose ==
  /\ disposePc' = "requested"
  /\ asked' = asked \cup {"dispose"}

DisposeFrame ==
  UNCHANGED <<serverVars, ledger, ordinal, totalRows, errors, bufferVars,
              demuxVars, exec, laneVars, cancelVars, sessionVars>>

NoTerminal == UNCHANGED <<lane, terminal, cancelTimer, accepted>>

DisposeCall ==
  /\ Free
  /\ "dispose" \in Operations
  /\ disposePc = "idle"
  /\ \/ HasId /\ SendDispose
     \/ ~HasId /\ disposePc' = "waitId" /\ UNCHANGED asked
  /\ UNCHANGED drainTimer
  /\ NoTerminal
  /\ DisposeFrame

DisposeGetsId ==
  /\ Free
  /\ disposePc = "waitId"
  /\ \/ accepted = "accepted" /\ SendDispose
     \/ /\ accepted \in {"rejected", "aborted"}
        /\ disposePc' = "idle"
        /\ UNCHANGED asked
  /\ UNCHANGED drainTimer
  /\ NoTerminal
  /\ DisposeFrame

DisposeAcknowledged ==
  /\ Free
  /\ disposePc = "requested"
  /\ disposePc' = "idle"
  /\ drainTimer' = TRUE
  /\ UNCHANGED asked
  /\ NoTerminal
  /\ DisposeFrame

(* The request failed or a deadline expired: synthesize at once.           *)
DisposeFailed ==
  /\ Free
  /\ \/ disposePc = "requested"
     \/ disposePc = "waitId" /\ accepted = "pending"
  /\ disposePc' = "idle"
  /\ SynthesizeTerminal("disposed")
  /\ UNCHANGED <<drainTimer, asked>>
  /\ DisposeFrame

DrainDeadline ==
  /\ Free
  /\ drainTimer
  /\ drainTimer' = FALSE
  /\ SynthesizeTerminal("disposed")
  /\ UNCHANGED <<disposePc, asked>>
  /\ DisposeFrame

----------------------------------------------------------------------------
(* The session: loss, close, and the backend's own shutdown.               *)

(* Mutant: the session ends without ending its query.                      *)
LeaveActiveQuery(status) == NoTerminal

(* activeQuery?.synthesizeTerminal: cleared once the completion settles.   *)
EndActiveQuery(status) ==
  \/ Settled /\ NoTerminal
  \/ ~Settled /\ SynthesizeTerminal(status)

SessionFrame ==
  UNCHANGED <<serverVars, ledger, ordinal, totalRows, errors, overflowed, exec,
              laneVars, cancelVars, disposeVars>>

MarkLost ==
  /\ session \notin {"closed", "lost"}
  /\ session' = "lost"
  /\ listed' = FALSE
  /\ EndActiveQuery("connectionLost")

(* A v2/fatal notification loses every listed session.                     *)
OnFatal ==
  /\ Free
  /\ "fatal" \in Operations
  /\ subscribed
  /\ listed
  /\ MarkLost
  /\ UNCHANGED <<asked, closers, backend, subscribed, orphan, demuxVars>>
  /\ SessionFrame

(* closeInternal up to its await; the service cancels the query first.     *)
BeginClose(fallback) ==
  /\ session' = "closing"
  /\ closers' = closers \cup {fallback}
  /\ asked' = asked \cup {"cancel"}

CloseCall ==
  /\ Free
  /\ "close" \in Operations
  /\ session \notin {"closed", "closing"}
  /\ "canceled" \notin closers
  /\ BeginClose("canceled")
  /\ NoTerminal
  /\ UNCHANGED <<listed, backend, subscribed, orphan, demuxVars>>
  /\ SessionFrame

(* connection.close answered, failed, or ran into its deadline.            *)
CloseDone(fallback) ==
  /\ Free
  /\ fallback \in closers
  /\ closers' = closers \ {fallback}
  /\ session' = "closed"
  /\ listed' = FALSE
  /\ EndActiveQuery(fallback)
  /\ UNCHANGED <<asked, backend, subscribed, orphan, demuxVars>>
  /\ SessionFrame

(* dispose: stop listening first, then close the listed session.           *)
BackendDispose ==
  /\ Free
  /\ "shutdown" \in Operations
  /\ backend = "up"
  /\ backend' = "disposing"
  /\ subscribed' = FALSE
  /\ IF listed /\ session # "closing"
     THEN BeginClose("connectionLost")
     ELSE UNCHANGED <<session, closers, asked>>
  /\ NoTerminal
  /\ UNCHANGED <<listed, orphan, demuxVars>>
  /\ SessionFrame

BackendDisposed ==
  /\ Free
  /\ backend = "disposing"
  /\ "connectionLost" \notin closers
  /\ backend' = "disposed"
  /\ listed' = FALSE
  /\ registered' = FALSE
  /\ retired' = FALSE
  /\ orphan' = <<>>
  /\ NoTerminal
  /\ UNCHANGED <<asked, session, closers, subscribed>>
  /\ SessionFrame

----------------------------------------------------------------------------
(* The specification.                                                      *)

Init ==
  /\ plan \in Plans
  /\ srv = [phase |-> "running", set |-> 0, page |-> 0, row |-> 0, rows |-> 0,
            sent |-> 0, msgs |-> 0]
  /\ asked = {}
  /\ faults = 0
  /\ subscribed = TRUE
  /\ registered = FALSE
  /\ retired = FALSE
  /\ orphan = <<>>
  /\ overflowed = FALSE
  /\ exec = "inflight"
  /\ accepted = "pending"
  /\ terminal = FALSE
  /\ ledger = [rs \in ResultSets |-> NoLedger]
  /\ ordinal = 0
  /\ totalRows = 0
  /\ errors = 0
  /\ lane = <<>>
  /\ pos = 0
  /\ busy = FALSE
  /\ failed = {}
  /\ acked = -1
  /\ completion = Pending
  /\ cancelPc = "idle"
  /\ cancelRequested = FALSE
  /\ cancelTimer = FALSE
  /\ disposePc = "idle"
  /\ drainTimer = FALSE
  /\ session = "open"
  /\ listed = TRUE
  /\ closers = {}
  /\ backend = "up"

Server == ServerResultSet \/ ServerRows \/ ServerMessage \/ ServerFinish
            \/ ServerFail \/ WireFault

Start == ExecuteAccepted \/ ReplayOrphan \/ EnqueueAccepted \/ ExecuteRejected

Lane == RunStep \/ SinkSettles

Control == CancelCall \/ CancelGetsId \/ CancelAnswered \/ CancelDeadline
             \/ DisposeCall \/ DisposeGetsId \/ DisposeAcknowledged
             \/ DisposeFailed \/ DrainDeadline

Session == OnFatal \/ CloseCall \/ (\E f \in {"canceled", "connectionLost"} : CloseDone(f))
             \/ BackendDispose \/ BackendDisposed

Next == Server \/ Start \/ Lane \/ Control \/ Session

Spec == Init /\ [][Next]_vars

(* The event loop: promise continuations run, timers fire, deadlines bound *)
(* every request, and the feature's sink settles its callbacks.            *)
LocalFairness ==
  /\ WF_vars(ReplayOrphan) /\ WF_vars(EnqueueAccepted)
  /\ WF_vars(RunStep) /\ WF_vars(SinkSettles)
  /\ WF_vars(CancelGetsId) /\ WF_vars(CancelAnswered) /\ WF_vars(CancelDeadline)
  /\ WF_vars(DisposeGetsId) /\ WF_vars(DisposeAcknowledged \/ DisposeFailed)
  /\ WF_vars(DrainDeadline)
  /\ \A f \in {"canceled", "connectionLost"} : WF_vars(CloseDone(f))
  /\ WF_vars(BackendDisposed)

(* The service answers execute and streams as far as its credits allow.    *)
ServerFairness ==
  /\ WF_vars(ExecuteAccepted \/ ExecuteRejected)
  /\ WF_vars(ServerResultSet) /\ WF_vars(ServerRows) /\ WF_vars(ServerFinish)

LocalSpec == Spec /\ LocalFairness
FairSpec  == Spec /\ LocalFairness /\ ServerFairness

----------------------------------------------------------------------------
(* Properties.                                                             *)

ServerStates ==
  [phase : {"running", "done", "rejected"}, set : Nat, page : Nat, row : Nat,
   rows : Nat, sent : Nat, msgs : Nat]

ServerTypeOK ==
  /\ plan \in Plans
  /\ srv \in ServerStates
  /\ srv.set <= Len(plan)
  /\ faults \in 0..MaxFaults

WireTypeOK ==
  /\ lane \in Seq(Steps)
  /\ ledger \in [ResultSets -> Ledgers]
  /\ ordinal \in Nat
  /\ totalRows \in Nat
  /\ errors \in Nat
  /\ asked \subseteq {"cancel", "dispose"}
  /\ orphan \in Seq(Notifications)

LaneTypeOK ==
  /\ pos \in 0..Len(lane)
  /\ busy => pos > 0
  /\ failed \subseteq 1..pos
  /\ acked \in Nat \cup {-1}
  /\ completion \in [status : CompletionStatus \cup {"pending"}, rows : Nat]

ControlTypeOK ==
  /\ exec \in {"inflight", "draining", "answered", "rejected"}
  /\ accepted \in {"pending", "accepted", "rejected", "aborted"}
  /\ cancelPc \in {"idle", "waitId", "requested"}
  /\ disposePc \in {"idle", "waitId", "requested"}
  /\ session \in {"open", "closing", "closed", "lost"}
  /\ closers \subseteq {"canceled", "connectionLost"}
  /\ backend \in {"up", "disposing", "disposed"}

FlagTypeOK ==
  /\ terminal \in BOOLEAN /\ cancelTimer \in BOOLEAN
  /\ subscribed \in BOOLEAN /\ registered \in BOOLEAN /\ retired \in BOOLEAN
  /\ overflowed \in BOOLEAN /\ busy \in BOOLEAN
  /\ cancelRequested \in BOOLEAN /\ drainTimer \in BOOLEAN
  /\ listed \in BOOLEAN

(* The state each part of the query keeps: the service's stream, what the  *)
(* wire delivered, the lane's progress, the controls and the flags.        *)
TypeOK == ServerTypeOK /\ WireTypeOK /\ LaneTypeOK /\ ControlTypeOK /\ FlagTypeOK

IsPage(i)     == lane[i].kind = "rows"
IsTerminal(i) == lane[i].kind = "complete"
Called        == 1..pos
Returned      == IF busy THEN 1..pos - 1 ELSE 1..pos

(* Resolution of onRowsPage is durable acceptance and acks come only after *)
(* it: every page an ack covers was handed to the sink, and accepted.      *)
AckedPagesAreDurable ==
  \A i \in DOMAIN lane :
    IsPage(i) /\ lane[i].ord <= acked => i \in Returned \ failed

(* The ack high-water never regresses and never moves after the terminal   *)
(* was decided, nor when the sink has rejected anything.                   *)
AckDiscipline ==
  [][acked' # acked => /\ acked' > acked
                       /\ ~terminal
                       /\ failed = {}]_vars

(* Step i of the lane is the last step before step k about result set rs.  *)
About(rs, i) == lane[i].kind \in {"resultSet", "rows"} /\ lane[i].rs = rs
LastAbout(rs, i, k) ==
  /\ i < k
  /\ About(rs, i)
  /\ \A j \in i + 1..k - 1 : ~About(rs, j)

Continues(i, k) ==
  \/ /\ lane[i].kind = "resultSet"
     /\ lane[k].seq = 0
     /\ lane[k].off = 0
  \/ /\ IsPage(i)
     /\ lane[k].seq = lane[i].seq + 1
     /\ lane[k].off = lane[i].off + lane[i].n

(* Whatever the peer sends, the sink sees metadata before rows, no gap and *)
(* no repetition in a result set's pages, and contiguous row offsets.      *)
PagesInOrder ==
  \A k \in DOMAIN lane :
    IsPage(k) => \E i \in DOMAIN lane :
                   LastAbout(lane[k].rs, i, k) /\ Continues(i, k)

(* One terminal per query, and nothing of the stream behind it: only the   *)
(* onAccepted of an execute response that came late may follow.            *)
OneTerminal ==
  \A i, k \in DOMAIN lane :
    IsTerminal(i) /\ i < k => lane[k].kind = "accepted"

(* completion settles with the summary onComplete was called with, after   *)
(* it returned; only a query failed by its own sink has no onComplete.     *)
CompletionIsTheTerminal ==
  Settled =>
    LET terminals == {i \in DOMAIN lane : IsTerminal(i)} IN
    \/ \E i \in terminals \cap Returned :
         completion = [status |-> lane[i].status, rows |-> lane[i].rows]
    \/ terminals = {} /\ failed # {} /\ completion.status = "failed"

(* A terminal never leaves the acceptance of the handle open.              *)
AcceptanceSettles == terminal => accepted # "pending"

PagesOf(rs) == {i \in DOMAIN lane : IsPage(i) /\ lane[i].rs = rs}

(* A success is the whole stream: when the peer keeps the contract, the    *)
(* sink rejects nothing and the buffer of early events did not overflow,   *)
(* every page and row of the plan was handed to the sink before it.        *)
SuccessIsTheWholeStream ==
  /\ completion.status \in {"succeeded", "completedWithErrors"}
  /\ faults = 0 /\ failed = {} /\ ~overflowed
  => /\ \A rs \in DOMAIN plan : Cardinality(PagesOf(rs)) = plan[rs]
     /\ completion.rows = srv.rows

(* completion ALWAYS settles: with a service that answers execute and      *)
(* streams as its credits allow, every query ends.                         *)
CompletionSettles == <>Settled

(* cancel and dispose end the query whatever the service does: it may      *)
(* ignore them, never answer execute, or have gone silent.                 *)
ControlSettles == (cancelRequested \/ disposePc # "idle") ~> Settled

(* A session that is lost, closed or shut down takes its query with it,    *)
(* whatever the service does.                                              *)
SessionEndSettles == (session # "open") ~> Settled

(* The binding implements the contract of api.ts: a callback is called     *)
(* when its step starts and the acked pages are the credit.                *)
Contract ==
  INSTANCE QueryContract WITH
    acceptance <- accepted, calls <- SubSeq(lane, 1, pos), inCall <- busy,
    refused <- failed, credit <- acked, outcome <- completion

ImplementsContract == Contract!Spec

----------------------------------------------------------------------------
(* What comments say, where the code does otherwise.                       *)

(* A failure of the sink fails the query and stops the delivery            *)
(* (sts2Backend.ts:1516): no callback starts once the completion has       *)
(* settled by it.                                                          *)
FailedBySink ==
  Settled /\ failed # {} /\ \A i \in DOMAIN lane : ~IsTerminal(i)

SinkFailureStopsDelivery == [][FailedBySink => pos' = pos]_vars

(* One terminal, and no events after it (fakeBackend.ts:14-17, of any      *)
(* binding): once onComplete was called, the sink is not called again.     *)
SilenceAfterTerminal ==
  [][(\E i \in Called : IsTerminal(i)) => pos' = pos]_vars

(* An aborted acceptance is one "aborted before submission" (api.ts:381):  *)
(* the service never hands out an id for such a request.                   *)
AbortedBeforeSubmission == accepted = "aborted" => ~HasId

(* The partial result is never presented as truth (sts2Backend.ts:18): a   *)
(* query that succeeds has announced every result set of its stream.       *)
SuccessIsNeverPartial ==
  /\ completion.status \in {"succeeded", "completedWithErrors"}
  /\ faults = 0 /\ failed = {}
  => \A rs \in DOMAIN plan :
       \E i \in DOMAIN lane : lane[i].kind = "resultSet" /\ lane[i].rs = rs

(* completion ALWAYS settles (api.ts:384), however much of the stream      *)
(* comes before the execute response.                                      *)
EarlyStreamSettles == <>Settled

============================================================================
