--------------------------- MODULE QueryContract ---------------------------
(***************************************************************************)
(* What a feature may rely on about one query that the STS2 binding runs:  *)
(* how the sink is called, when a page may be acked to the backend, and    *)
(* how the promises of the handle settle (QueryHandle and IQueryEventSink, *)
(* sqlDataPlane/api.ts).                                                   *)
(*                                                                         *)
(* Three things the repository says of it are not here, because the        *)
(* binding does not keep them: that delivery stops when the sink fails,    *)
(* that nothing follows the terminal, and that an aborted request was      *)
(* never submitted.  They are stated at the end of Sts2Query, each with a  *)
(* configuration that shows what happens instead.                          *)
(***************************************************************************)
EXTENDS Integers, Sequences

CONSTANTS
  Steps  \* the sink callbacks, with their arguments

VARIABLES
  acceptance,  \* handle.accepted
  calls,       \* the sink callbacks made so far
  inCall,      \* the last of them has not settled
  refused,     \* positions of the callbacks the sink rejected
  credit,      \* the last page ordinal acked to the backend
  outcome      \* handle.completion

vars == <<acceptance, calls, inCall, refused, credit, outcome>>

Open == [status |-> "pending", rows |-> 0]

Init ==
  /\ acceptance = "pending"
  /\ calls = <<>>
  /\ inCall = FALSE
  /\ refused = {}
  /\ credit = -1
  /\ outcome = Open

(* Calls about the same result set as page p.                              *)
Earlier(p) == {i \in DOMAIN calls : /\ calls[i].kind \in {"resultSet", "rows"}
                                    /\ calls[i].rs = p.rs}

(* A page follows the metadata or the previous page of its result set.     *)
PageFollows(p) ==
  \E i \in Earlier(p) :
    /\ \A j \in Earlier(p) : j <= i
    /\ \/ calls[i].kind = "resultSet" /\ p.seq = 0 /\ p.off = 0
       \/ /\ calls[i].kind = "rows"
          /\ p.seq = calls[i].seq + 1
          /\ p.off = calls[i].off + calls[i].n

Terminated == \E i \in DOMAIN calls : calls[i].kind = "complete"

StreamKinds == {"resultSet", "rows", "message"}

(* What the acceptance of the request allows the sink to be told: nothing  *)
(* while it is open, the stream only of an accepted request, and of a      *)
(* rejected one that it is over, no more.                                  *)
Permits(kind) ==
  /\ acceptance # "pending"
  /\ kind \in StreamKinds => acceptance = "accepted"
  /\ acceptance = "rejected" => kind = "complete"

(* One more callback, one at a time.  onComplete comes once, and not to a  *)
(* query whose completion its own sink has failed; after it only a late    *)
(* onAccepted may come.                                                    *)
NewCall == calls'[Len(calls')]

Call ==
  /\ ~inCall
  /\ Len(calls') = Len(calls) + 1
  /\ calls' = Append(calls, NewCall)
  /\ NewCall \in Steps
  /\ Permits(NewCall.kind)
  /\ NewCall.kind = "accepted" \/ ~Terminated
  /\ NewCall.kind = "rows" => PageFollows(NewCall)
  /\ NewCall.kind = "complete" => outcome = Open
  /\ inCall' = TRUE
  /\ UNCHANGED <<acceptance, refused, credit, outcome>>

Last == calls[Len(calls)]

(* The callback resolved.  A page may now be acked, unless the sink has    *)
(* refused something; onComplete settles the completion.                   *)
Return ==
  /\ inCall
  /\ inCall' = FALSE
  /\ \/ UNCHANGED <<credit, outcome>>
     \/ /\ Last.kind = "rows" /\ refused = {} /\ outcome = Open
        /\ credit < Last.ord
        /\ credit' = Last.ord
        /\ UNCHANGED outcome
     \/ /\ Last.kind = "complete" /\ outcome = Open
        /\ outcome' = [status |-> Last.status, rows |-> Last.rows]
        /\ UNCHANGED credit
  /\ UNCHANGED <<acceptance, calls, refused>>

(* The callback rejected: the query fails, unless its terminal is known.   *)
Refuse ==
  /\ inCall
  /\ inCall' = FALSE
  /\ refused' = refused \cup {Len(calls)}
  /\ \/ UNCHANGED outcome
     \/ /\ outcome = Open
        /\ outcome' \in [status : {"failed"}, rows : Nat]
  /\ UNCHANGED <<acceptance, calls, credit>>

(* Settles once, as accepted, rejected or aborted, before any callback.    *)
SettleAcceptance ==
  /\ acceptance = "pending"
  /\ calls = <<>>
  /\ acceptance' \in {"accepted", "rejected", "aborted"}
  /\ UNCHANGED <<calls, inCall, refused, credit, outcome>>

Next == Call \/ Return \/ Refuse \/ SettleAcceptance

Spec == Init /\ [][Next]_vars
============================================================================
