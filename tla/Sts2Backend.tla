---------------------------- MODULE Sts2Backend ----------------------------
(***************************************************************************)
(* The STS2 backend of one client (class Sts2Backend): the single-flight,  *)
(* bounded v2/initialize handshake and the availability it leaves, opening *)
(* sessions, the fatal notification, the close of a session and disposal.  *)
(* The queries of a session are Sts2Query's.                               *)
(*                                                                         *)
(* An action ends where the code awaits.  What follows the await of a      *)
(* handshake is microtasks only: the opens that waited go on with the step *)
(* that ends it.                                                           *)
(***************************************************************************)
EXTENDS Integers, FiniteSets

CONSTANTS
  Opens,         \* the openSession calls, one session each
  MaxHandshakes  \* bound: v2/initialize requests

ASSUME BackendAssumption == MaxHandshakes \in Nat

VARIABLES
  availability,  \* availability; unavailable is retryable, disposed is not
  starting,      \* handshakes in flight (the promise this.starting)
  handshakes,    \* handshakes so far
  subscribed,    \* notificationSubs is not empty
  backend,       \* Sts2Backend.dispose: up, disposing, disposed
  open,          \* each openSession call
  conn,          \* the service's side of its connection
  canceled,      \* opens the service was told to cancel
  session,       \* Sts2Session.state, none before the open is answered
  sessions,      \* the sessions map
  closers,       \* sessions with a closeInternal awaiting connection.close
  draining       \* those of them whose end dispose awaits

handshakeVars == <<starting, handshakes>>
vars == <<availability, handshakeVars, subscribed, backend, open, conn, canceled,
          session, sessions, closers, draining>>

----------------------------------------------------------------------------
(* Data.                                                                   *)

Availabilities == {"unknown", "available", "unavailable", "disposed"}

(* checking: in canOpen, awaiting the handshake.  auth: resolving the      *)
(* credential.  requesting: v2/connection.open is in flight.               *)
OpenStates == {"new", "checking", "auth", "requesting", "opened", "failed"}

ConnStates == {"none", "asked", "connected", "refused"}

SessionStates == {"none", "open", "closing", "closed", "lost"}

----------------------------------------------------------------------------
(* The handshake.                                                          *)

(* Mutant: every caller sends its own initialize.                          *)
StartAnew == backend = "up"

(* start() sends an initialize: not when disposed, not when one runs.      *)
Starts == backend = "up" /\ starting = 0

BeginHandshake ==
  /\ handshakes < MaxHandshakes
  /\ starting' = starting + 1
  /\ handshakes' = handshakes + 1
  /\ subscribed' = TRUE

(* The factory starts the backend it has created, once.                    *)
Start ==
  /\ handshakes = 0
  /\ Starts /\ BeginHandshake
  /\ UNCHANGED <<availability, backend, open, conn, canceled, session, sessions, closers, draining>>

(* doStart after its await, and canOpen of every open that waited.         *)
HandshakeEnds(a) ==
  /\ starting > 0
  /\ starting' = starting - 1
  /\ availability' = a
  /\ open' = [o \in Opens |->
                CASE open[o] # "checking" -> open[o]
                  [] open[o] = "checking" /\ a = "available" -> "auth"
                  [] OTHER -> "failed"]
  /\ UNCHANGED <<handshakes, subscribed, backend, conn, canceled, session, sessions, closers, draining>>

HandshakeAnswered == HandshakeEnds("available")
HandshakeRejected == HandshakeEnds("unavailable")

(* Mutant: an unanswered initialize is waited for.                         *)
NoHandshakeDeadline == FALSE /\ HandshakeEnds("unavailable")

HandshakeDeadline == HandshakeEnds("unavailable")

----------------------------------------------------------------------------
(* openSession.                                                            *)

OpenGoes(o, pc) == open' = [open EXCEPT ![o] = pc]

(* canOpen runs the handshake again after a failure that may pass.         *)
NeedsHandshake == availability \in {"unknown", "unavailable"}

OpenAvailable(o) ==
  /\ open[o] = "new" /\ availability = "available"
  /\ OpenGoes(o, "auth")
  /\ UNCHANGED <<availability, handshakeVars, subscribed, backend, conn, canceled,
                 session, sessions, closers, draining>>

OpenJoinsHandshake(o) ==
  /\ open[o] = "new" /\ NeedsHandshake
  /\ starting > 0 /\ backend = "up"
  /\ OpenGoes(o, "checking")
  /\ UNCHANGED <<availability, handshakeVars, subscribed, backend, conn, canceled,
                 session, sessions, closers, draining>>

OpenStartsHandshake(o) ==
  /\ open[o] = "new" /\ NeedsHandshake
  /\ Starts /\ BeginHandshake
  /\ OpenGoes(o, "checking")
  /\ UNCHANGED <<availability, backend, conn, canceled, session, sessions, closers, draining>>

OpenUnavailable(o) ==
  /\ open[o] = "new" /\ availability # "available"
  /\ ~NeedsHandshake \/ backend # "up"
  /\ OpenGoes(o, "failed")
  /\ UNCHANGED <<availability, handshakeVars, subscribed, backend, conn, canceled,
                 session, sessions, closers, draining>>

(* The credential is there within the open budget: ask the service.        *)
AuthResolved(o) ==
  /\ open[o] = "auth"
  /\ OpenGoes(o, "requesting")
  /\ conn' = [conn EXCEPT ![o] = "asked"]
  /\ UNCHANGED <<availability, handshakeVars, subscribed, backend, canceled,
                 session, sessions, closers, draining>>

(* It is not, or the budget is spent.                                      *)
AuthFails(o) ==
  /\ open[o] = "auth"
  /\ OpenGoes(o, "failed")
  /\ UNCHANGED <<availability, handshakeVars, subscribed, backend, conn, canceled,
                 session, sessions, closers, draining>>

(* The service connects or refuses; an open it was told to cancel it       *)
(* refuses unless it has connected already.                                *)
ServiceConnects(o) ==
  /\ conn[o] = "asked"
  /\ conn' = [conn EXCEPT ![o] = "connected"]
  /\ UNCHANGED <<availability, handshakeVars, subscribed, backend, open, canceled,
                 session, sessions, closers, draining>>

ServiceRefuses(o) ==
  /\ conn[o] = "asked"
  /\ conn' = [conn EXCEPT ![o] = "refused"]
  /\ UNCHANGED <<availability, handshakeVars, subscribed, backend, open, canceled,
                 session, sessions, closers, draining>>

(* The answer of connection.open: a session, whatever has become of the    *)
(* backend meanwhile.                                                      *)
OpenAnswered(o) ==
  /\ open[o] = "requesting" /\ conn[o] = "connected"
  /\ OpenGoes(o, "opened")
  /\ session' = [session EXCEPT ![o] = "open"]
  /\ sessions' = sessions \cup {o}
  /\ UNCHANGED <<availability, handshakeVars, subscribed, backend, conn, canceled, closers, draining>>

OpenRefused(o) ==
  /\ open[o] = "requesting" /\ conn[o] = "refused"
  /\ OpenGoes(o, "failed")
  /\ UNCHANGED <<availability, handshakeVars, subscribed, backend, conn, canceled,
                 session, sessions, closers, draining>>

(* Mutant: the deadline gives up without telling the service.              *)
OpenAbandoned(o) ==
  /\ open[o] = "requesting"
  /\ OpenGoes(o, "failed")
  /\ UNCHANGED <<availability, handshakeVars, subscribed, backend, conn, canceled,
                 session, sessions, closers, draining>>

(* The deadline of the open: the service is told to cancel.                *)
OpenDeadline(o) ==
  /\ open[o] = "requesting"
  /\ OpenGoes(o, "failed")
  /\ canceled' = canceled \cup {o}
  /\ UNCHANGED <<availability, handshakeVars, subscribed, backend, conn,
                 session, sessions, closers, draining>>

----------------------------------------------------------------------------
(* The end of a session.                                                   *)

(* Mutant: the fatal notification only marks the backend.                  *)
OnFatalAlone ==
  /\ subscribed
  /\ availability' = "unavailable"
  /\ UNCHANGED <<handshakeVars, subscribed, backend, open, conn, canceled, session,
                 sessions, closers, draining>>

(* onFatal: every tracked session is marked lost and leaves the map.       *)
OnFatal ==
  /\ subscribed
  /\ availability' = "unavailable"
  /\ session' = [o \in Opens |-> IF o \in sessions /\ session[o] \notin {"closed", "lost"}
                                   THEN "lost" ELSE session[o]]
  /\ sessions' = {o \in sessions : session[o] = "closed"}
  /\ UNCHANGED <<handshakeVars, subscribed, backend, open, conn, canceled, closers, draining>>

(* The consumer closes its session.                                        *)
CloseCall(o) ==
  /\ session[o] \in {"open", "lost"}
  /\ session' = [session EXCEPT ![o] = "closing"]
  /\ closers' = closers \cup {o}
  /\ UNCHANGED <<availability, handshakeVars, subscribed, backend, open, conn, canceled,
                 sessions, draining>>

(* connection.close is answered, fails or is bounded by its deadline.      *)
CloseEnds(o) ==
  /\ o \in closers
  /\ session' = [session EXCEPT ![o] = "closed"]
  /\ sessions' = sessions \ {o}
  /\ closers' = closers \ {o}
  /\ draining' = draining \ {o}
  /\ UNCHANGED <<availability, handshakeVars, subscribed, backend, open, conn, canceled>>

CloseAnswered(o) == CloseEnds(o)

(* Mutant: a close waits for its answer.                                   *)
NoCloseDeadline(o) == FALSE /\ CloseEnds(o)

CloseDeadline(o) == CloseEnds(o)

(* dispose: every tracked session that is not closing already is closed.   *)
Dispose ==
  LET drained == {o \in sessions : session[o] \in {"open", "lost"}} IN
    /\ backend = "up"
    /\ backend' = "disposing"
    /\ subscribed' = FALSE
    /\ session' = [o \in Opens |-> IF o \in drained THEN "closing" ELSE session[o]]
    /\ closers' = closers \cup drained
    /\ draining' = drained
    /\ UNCHANGED <<availability, handshakeVars, open, conn, canceled, sessions>>

(* dispose after its await.                                                *)
Disposed ==
  /\ backend = "disposing" /\ draining = {}
  /\ backend' = "disposed"
  /\ sessions' = {}
  /\ availability' = "disposed"
  /\ UNCHANGED <<handshakeVars, subscribed, open, conn, canceled, session, closers, draining>>

----------------------------------------------------------------------------
Init ==
  /\ availability = "unknown"
  /\ starting = 0 /\ handshakes = 0
  /\ subscribed = FALSE
  /\ backend = "up"
  /\ open = [o \in Opens |-> "new"]
  /\ conn = [o \in Opens |-> "none"]
  /\ canceled = {}
  /\ session = [o \in Opens |-> "none"]
  /\ sessions = {} /\ closers = {} /\ draining = {}

Next ==
  \/ Start
  \/ HandshakeAnswered \/ HandshakeRejected \/ HandshakeDeadline
  \/ \E o \in Opens :
       \/ OpenAvailable(o) \/ OpenJoinsHandshake(o) \/ OpenStartsHandshake(o)
       \/ OpenUnavailable(o)
       \/ AuthResolved(o) \/ AuthFails(o)
       \/ ServiceConnects(o) \/ ServiceRefuses(o)
       \/ OpenAnswered(o) \/ OpenRefused(o) \/ OpenDeadline(o)
       \/ CloseCall(o) \/ CloseAnswered(o) \/ CloseDeadline(o)
  \/ OnFatal
  \/ Dispose \/ Disposed

Spec == Init /\ [][Next]_vars

(* The deadlines are timers (withDeadline) and what follows an await runs. *)
(* Nothing makes the service answer.                                       *)
Fairness ==
  /\ WF_vars(HandshakeDeadline)
  /\ WF_vars(Disposed)
  /\ \A o \in Opens :
       /\ WF_vars(AuthFails(o))
       /\ WF_vars(OpenDeadline(o))
       /\ WF_vars(CloseDeadline(o))

FairSpec == Spec /\ Fairness

----------------------------------------------------------------------------
(* Properties.                                                             *)

(* The types of the variables, and one initialize in flight at most:       *)
(* concurrent starts share it (start).                                     *)
TypeOK ==
  /\ availability \in Availabilities
  /\ starting \in {0, 1} /\ handshakes \in 0..MaxHandshakes
  /\ subscribed \in BOOLEAN
  /\ backend \in {"up", "disposing", "disposed"}
  /\ open \in [Opens -> OpenStates]
  /\ conn \in [Opens -> ConnStates]
  /\ canceled \subseteq Opens
  /\ session \in [Opens -> SessionStates]
  /\ sessions \subseteq Opens
  /\ closers \subseteq Opens /\ draining \subseteq closers

(* While the backend is up, the sessions it tracks are those that are      *)
(* open or closing, so that a fatal notification and a disposal reach      *)
(* every one of them, and no other is kept (openSession, removeSession).   *)
SessionsAreTracked ==
  backend = "up" =>
    \A o \in Opens :
      /\ session[o] = "open" => o \in sessions
      /\ o \in sessions => session[o] \in {"open", "closing"}

(* The loss of an available backend is the loss of its sessions: when the  *)
(* service reports a fatal error no session stays open on it (onFatal).    *)
FatalLosesEverySession ==
  [][availability = "available" /\ availability' = "unavailable"
       => \A o \in Opens : session'[o] # "open"]_vars

(* The service is told of every open its caller has given up: a connection *)
(* it makes for nobody is one it was asked to cancel (openSession).        *)
NoForgottenConnection ==
  \A o \in Opens :
    open[o] = "failed" /\ conn[o] \in {"asked", "connected"} => o \in canceled

(* Every open ends, though the service may never answer the handshake or   *)
(* the open, nor the user the credential prompt (start, openSession).      *)
OpensEnd ==
  \A o \in Opens : open[o] = "checking" ~> open[o] \in {"opened", "failed"}

(* dispose() ends, though the service may never answer a close             *)
(* (closeInternal).                                                        *)
DisposeEnds == backend = "disposing" ~> backend = "disposed"

----------------------------------------------------------------------------
(* What the file's header says and the code does not do in every order.    *)

(* "fatal/availability: sessions transition lost": no session is open on a *)
(* backend that has been lost, one that was opened after the loss included *)
(* (onFatal, openSession after its awaits).                                 *)
SessionsTransitionLost ==
  availability = "unavailable" => \A o \in Opens : session[o] # "open"
============================================================================
