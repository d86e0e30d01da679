------------------------- MODULE Sts2Backend_proofs -------------------------
(***************************************************************************)
(* Proofs about Sts2Backend: for any number of opens and handshakes, and   *)
(* in every order of failures, the sessions the backend tracks are the     *)
(* ones it has to tell of a loss, and no connection is left to itself.     *)
(***************************************************************************)
EXTENDS Sts2Backend, TLAPS

(* The service hears of an open only after the credential.                 *)
AskedAfterAuth ==
  \A o \in Opens : open[o] \in {"new", "checking", "auth"} => conn[o] = "none"

(* A handshake is only sent while the backend is not available, so that    *)
(* its failure takes no session with it.                                   *)
HandshakesHelp ==
  /\ starting > 0 => availability # "available" /\ handshakes > 0
  /\ handshakes = 0 => availability # "available"

(* Notifications stop with the backend.                                    *)
SubscribedWhileUp == subscribed => backend = "up"

----------------------------------------------------------------------------
(* Types.                                                                  *)

(* The steps on one session and those on the backend keep the types.       *)
LEMMA OpenKeepsTypes ==
  ASSUME TypeOK, NEW o \in Opens,
         \/ OpenAvailable(o) \/ OpenJoinsHandshake(o) \/ OpenStartsHandshake(o)
         \/ OpenUnavailable(o)
         \/ AuthResolved(o) \/ AuthFails(o)
         \/ ServiceConnects(o) \/ ServiceRefuses(o)
         \/ OpenAnswered(o) \/ OpenRefused(o) \/ OpenDeadline(o)
  PROVE  TypeOK'
<1>1. starting' \in {0, 1} /\ handshakes' \in 0..MaxHandshakes
  BY BackendAssumption
     DEF TypeOK, OpenAvailable, OpenJoinsHandshake, OpenStartsHandshake, OpenUnavailable,
         AuthResolved, AuthFails, ServiceConnects, ServiceRefuses, OpenAnswered,
         OpenRefused, OpenDeadline, Starts, BeginHandshake, handshakeVars
<1>2. (subscribed \in BOOLEAN)'
  BY Zenon
     DEF TypeOK, OpenAvailable, OpenJoinsHandshake, OpenStartsHandshake, OpenUnavailable,
         AuthResolved, AuthFails, ServiceConnects, ServiceRefuses, OpenAnswered,
         OpenRefused, OpenDeadline, BeginHandshake
<1>3. open' \in [Opens -> OpenStates] /\ conn' \in [Opens -> ConnStates]
  BY DEF TypeOK, OpenAvailable, OpenJoinsHandshake, OpenStartsHandshake, OpenUnavailable,
         AuthResolved, AuthFails, ServiceConnects, ServiceRefuses, OpenAnswered,
         OpenRefused, OpenDeadline, OpenGoes, OpenStates, ConnStates
<1>4. /\ session' \in [Opens -> SessionStates] /\ sessions' \subseteq Opens
      /\ canceled' \subseteq Opens
  BY DEF TypeOK, OpenAvailable, OpenJoinsHandshake, OpenStartsHandshake, OpenUnavailable,
         AuthResolved, AuthFails, ServiceConnects, ServiceRefuses, OpenAnswered,
         OpenRefused, OpenDeadline, SessionStates
<1>5. UNCHANGED <<availability, backend, closers, draining>>
  BY DEF OpenAvailable, OpenJoinsHandshake, OpenStartsHandshake, OpenUnavailable,
         AuthResolved, AuthFails, ServiceConnects, ServiceRefuses, OpenAnswered,
         OpenRefused, OpenDeadline
<1> QED
  BY <1>1, <1>2, <1>3, <1>4, <1>5 DEF TypeOK

LEMMA CloseKeepsTypes ==
  ASSUME TypeOK, NEW o \in Opens, CloseCall(o) \/ CloseEnds(o)
  PROVE  TypeOK'
<1>1. session' \in [Opens -> SessionStates]
  BY DEF TypeOK, CloseCall, CloseEnds, SessionStates
<1>2. /\ sessions' \subseteq Opens /\ closers' \subseteq Opens
      /\ draining' \subseteq closers'
  BY DEF TypeOK, CloseCall, CloseEnds
<1>3. UNCHANGED <<availability, handshakeVars, subscribed, backend, open, conn, canceled>>
  BY DEF CloseCall, CloseEnds
<1>4. (subscribed \in BOOLEAN)'
  BY <1>3, Zenon DEF TypeOK
<1> QED
  BY <1>1, <1>2, <1>3, <1>4 DEF TypeOK, handshakeVars

LEMMA HandshakeKeepsTypes ==
  ASSUME TypeOK, Start \/ HandshakeEnds("available") \/ HandshakeEnds("unavailable")
  PROVE  TypeOK'
<1>1. starting' \in {0, 1} /\ handshakes' \in 0..MaxHandshakes
  BY BackendAssumption DEF TypeOK, Start, Starts, BeginHandshake, HandshakeEnds
<1>2. (subscribed \in BOOLEAN)'
  BY Zenon DEF TypeOK, Start, BeginHandshake, HandshakeEnds
<1>3. availability' \in Availabilities
  BY DEF TypeOK, Start, HandshakeEnds, Availabilities
<1>4. open' \in [Opens -> OpenStates]
  BY DEF TypeOK, Start, HandshakeEnds, OpenStates
<1>5. UNCHANGED <<backend, conn, canceled, session, sessions, closers, draining>>
  BY DEF Start, HandshakeEnds
<1> QED
  BY <1>1, <1>2, <1>3, <1>4, <1>5 DEF TypeOK

LEMMA LossKeepsTypes ==
  ASSUME TypeOK, OnFatal \/ Dispose \/ Disposed
  PROVE  TypeOK'
<1>1. session' \in [Opens -> SessionStates] /\ sessions' \subseteq Opens
  BY DEF TypeOK, OnFatal, Dispose, Disposed, SessionStates
<1>2. closers' \subseteq Opens /\ draining' \subseteq closers'
  BY DEF TypeOK, OnFatal, Dispose, Disposed
<1>3. availability' \in Availabilities /\ backend' \in {"up", "disposing", "disposed"}
  BY DEF TypeOK, OnFatal, Dispose, Disposed, Availabilities
<1>4. (subscribed \in BOOLEAN)'
  BY Zenon DEF TypeOK, OnFatal, Dispose, Disposed
<1>5. UNCHANGED <<handshakeVars, open, conn, canceled>>
  BY DEF OnFatal, Dispose, Disposed
<1> QED
  BY <1>1, <1>2, <1>3, <1>4, <1>5 DEF TypeOK, handshakeVars

LEMMA StepKeepsTypes ==
  TypeOK /\ [Next]_vars => TypeOK'
<1> SUFFICES ASSUME TypeOK, [Next]_vars PROVE TypeOK'
  OBVIOUS
<1>1. CASE UNCHANGED vars
  <2>1. (subscribed \in BOOLEAN)'
    BY <1>1, Zenon DEF TypeOK, vars
  <2> QED
    BY <1>1, <2>1 DEF TypeOK, vars, handshakeVars
<1> QED
  BY <1>1, OpenKeepsTypes, CloseKeepsTypes, HandshakeKeepsTypes, LossKeepsTypes
     DEF Next, HandshakeAnswered, HandshakeRejected, HandshakeDeadline, CloseAnswered,
         CloseDeadline

LEMMA InitTypes ==
  Init => TypeOK
<1>1. Init => subscribed \in BOOLEAN
  BY Zenon DEF Init
<1> QED
  BY <1>1, BackendAssumption
     DEF Init, TypeOK, Availabilities, OpenStates, ConnStates, SessionStates

(* Types, and one handshake in flight at most.                             *)
THEOREM BackendTypes == Spec => []TypeOK
<1> QED
  BY InitTypes, StepKeepsTypes, PTL DEF Spec

----------------------------------------------------------------------------
(* The tracked sessions.                                                   *)

(* A session changes with its open, its close, a loss or the disposal.     *)
LEMMA StepKeepsTracking ==
  TypeOK /\ SessionsAreTracked /\ [Next]_vars => SessionsAreTracked'
<1> SUFFICES ASSUME TypeOK, SessionsAreTracked, [Next]_vars, backend' = "up",
                    NEW o \in Opens
             PROVE  /\ session'[o] = "open" => o \in sessions'
                    /\ o \in sessions' => session'[o] \in {"open", "closing"}
  BY DEF SessionsAreTracked
<1>1. CASE backend = "up" /\ UNCHANGED <<session, sessions>>
  BY <1>1 DEF SessionsAreTracked
<1>2. ASSUME NEW q \in Opens, OpenAnswered(q), backend = "up"
      PROVE  /\ session'[o] = "open" => o \in sessions'
             /\ o \in sessions' => session'[o] \in {"open", "closing"}
  BY <1>2 DEF SessionsAreTracked, OpenAnswered, TypeOK
<1>3. ASSUME NEW q \in Opens, CloseCall(q) \/ CloseEnds(q), backend = "up"
      PROVE  /\ session'[o] = "open" => o \in sessions'
             /\ o \in sessions' => session'[o] \in {"open", "closing"}
  BY <1>3 DEF SessionsAreTracked, CloseCall, CloseEnds, TypeOK
<1>4. ASSUME OnFatal, backend = "up"
      PROVE  /\ session'[o] = "open" => o \in sessions'
             /\ o \in sessions' => session'[o] \in {"open", "closing"}
  BY <1>4 DEF SessionsAreTracked, OnFatal, TypeOK
<1>5. backend = "up" /\ ~Dispose /\ ~Disposed
  BY DEF Dispose, Disposed, Next, vars, Start, HandshakeAnswered, HandshakeRejected,
         HandshakeDeadline, HandshakeEnds, OpenAvailable, OpenJoinsHandshake,
         OpenStartsHandshake, OpenUnavailable, AuthResolved, AuthFails, ServiceConnects,
         ServiceRefuses, OpenAnswered, OpenRefused, OpenDeadline, CloseCall,
         CloseAnswered, CloseDeadline, CloseEnds, OnFatal
<1> QED
  BY <1>1, <1>2, <1>3, <1>4, <1>5
     DEF Next, vars, Start, HandshakeAnswered, HandshakeRejected, HandshakeDeadline,
         HandshakeEnds, OpenAvailable, OpenJoinsHandshake, OpenStartsHandshake,
         OpenUnavailable, AuthResolved, AuthFails, ServiceConnects, ServiceRefuses,
         OpenRefused, OpenDeadline, CloseAnswered, CloseDeadline

(* While the backend is up it knows exactly its open and closing sessions. *)
THEOREM TrackingIsExact == Spec => []SessionsAreTracked
<1>1. Init => SessionsAreTracked
  BY DEF Init, SessionsAreTracked
<1> QED
  BY <1>1, BackendTypes, StepKeepsTracking, PTL DEF Spec

----------------------------------------------------------------------------
(* Connections nobody waits for.                                           *)

Remembering == TypeOK /\ AskedAfterAuth /\ NoForgottenConnection

LEMMA StepRemembers ==
  Remembering /\ [Next]_vars => Remembering'
<1> SUFFICES ASSUME Remembering, [Next]_vars
             PROVE  AskedAfterAuth' /\ NoForgottenConnection'
  BY StepKeepsTypes DEF Remembering
<1> USE DEF Remembering, AskedAfterAuth, NoForgottenConnection
<1>1. CASE UNCHANGED <<open, conn, canceled>>
  BY <1>1
<1>2. ASSUME NEW a \in Availabilities, HandshakeEnds(a)
      PROVE  AskedAfterAuth' /\ NoForgottenConnection'
  BY <1>2 DEF HandshakeEnds, TypeOK
<1>3. ASSUME NEW o \in Opens,
             \/ OpenAvailable(o) \/ OpenJoinsHandshake(o) \/ OpenStartsHandshake(o)
             \/ OpenUnavailable(o) \/ AuthFails(o)
      PROVE  AskedAfterAuth' /\ NoForgottenConnection'
  BY <1>3 DEF OpenAvailable, OpenJoinsHandshake, OpenStartsHandshake, OpenUnavailable,
              AuthFails, OpenGoes, TypeOK
<1>4. ASSUME NEW o \in Opens, AuthResolved(o)
      PROVE  AskedAfterAuth' /\ NoForgottenConnection'
  BY <1>4 DEF AuthResolved, OpenGoes, TypeOK
<1>5. ASSUME NEW o \in Opens, ServiceConnects(o) \/ ServiceRefuses(o)
      PROVE  AskedAfterAuth' /\ NoForgottenConnection'
  BY <1>5 DEF ServiceConnects, ServiceRefuses, TypeOK
<1>6. ASSUME NEW o \in Opens, OpenAnswered(o) \/ OpenRefused(o) \/ OpenDeadline(o)
      PROVE  AskedAfterAuth' /\ NoForgottenConnection'
  BY <1>6 DEF OpenAnswered, OpenRefused, OpenDeadline, OpenGoes, TypeOK
<1>7. "available" \in Availabilities /\ "unavailable" \in Availabilities
  BY DEF Availabilities
<1> QED
  BY <1>1, <1>2, <1>3, <1>4, <1>5, <1>6, <1>7
     DEF Next, vars, Start, HandshakeAnswered, HandshakeRejected, HandshakeDeadline,
         CloseCall, CloseAnswered, CloseDeadline, CloseEnds, OnFatal, Dispose, Disposed

(* The service is told of every open its caller has given up.              *)
THEOREM ConnectionsAreRemembered == Spec => []NoForgottenConnection
<1>1. Init => Remembering
  BY InitTypes DEF Init, Remembering, AskedAfterAuth, NoForgottenConnection
<1>2. Remembering => NoForgottenConnection
  BY DEF Remembering
<1> QED
  BY <1>1, <1>2, StepRemembers, PTL DEF Spec

----------------------------------------------------------------------------
(* The loss of the service.                                                *)

Listening == TypeOK /\ HandshakesHelp /\ SubscribedWhileUp

LEMMA StepListens ==
  Listening /\ [Next]_vars => Listening'
<1> SUFFICES ASSUME Listening, [Next]_vars
             PROVE  HandshakesHelp' /\ SubscribedWhileUp'
  BY StepKeepsTypes DEF Listening
<1> USE DEF Listening, HandshakesHelp, SubscribedWhileUp
<1>1. CASE UNCHANGED <<availability, starting, handshakes, subscribed, backend>>
  BY <1>1
<1>2. ASSUME UNCHANGED <<availability, backend>>,
             Starts /\ BeginHandshake, availability # "available"
      PROVE  HandshakesHelp' /\ SubscribedWhileUp'
  BY <1>2 DEF Starts, BeginHandshake, TypeOK
<1>3. ASSUME NEW a \in Availabilities, HandshakeEnds(a)
      PROVE  HandshakesHelp' /\ SubscribedWhileUp'
  BY <1>3 DEF HandshakeEnds, TypeOK
<1>4. ASSUME OnFatal \/ Dispose \/ Disposed
      PROVE  HandshakesHelp' /\ SubscribedWhileUp'
  BY <1>4 DEF OnFatal, Dispose, Disposed, handshakeVars, TypeOK
<1>5. ASSUME Start PROVE HandshakesHelp' /\ SubscribedWhileUp'
  BY <1>2, <1>5 DEF Start
<1>6. ASSUME NEW o \in Opens, OpenStartsHandshake(o)
      PROVE  HandshakesHelp' /\ SubscribedWhileUp'
  BY <1>2, <1>6 DEF OpenStartsHandshake, NeedsHandshake
<1>7. "available" \in Availabilities /\ "unavailable" \in Availabilities
  BY DEF Availabilities
<1> QED
  BY <1>1, <1>3, <1>4, <1>5, <1>6, <1>7
     DEF Next, vars, handshakeVars, HandshakeAnswered, HandshakeRejected,
         HandshakeDeadline, OpenAvailable, OpenJoinsHandshake, OpenUnavailable,
         AuthResolved, AuthFails, ServiceConnects, ServiceRefuses, OpenAnswered,
         OpenRefused, OpenDeadline, CloseCall, CloseAnswered, CloseDeadline, CloseEnds

(* The loss of an available backend is the loss of its sessions: only a    *)
(* fatal notification loses it, and while notifications come the backend   *)
(* is up and tracks every open session.                                    *)
THEOREM LossIsTotal == Spec => FatalLosesEverySession
<1> DEFINE Total == availability = "available" /\ availability' = "unavailable"
                      => \A o \in Opens : session'[o] # "open"
<1>1. Init => Listening
  BY InitTypes DEF Init, Listening, HandshakesHelp, SubscribedWhileUp
<1>2. Listening /\ SessionsAreTracked /\ [Next]_vars => Total
  <2> SUFFICES ASSUME Listening, SessionsAreTracked, [Next]_vars,
                      availability = "available", availability' = "unavailable",
                      NEW o \in Opens
               PROVE  session'[o] # "open"
    OBVIOUS
  <2>1. starting = 0
    BY DEF Listening, HandshakesHelp, TypeOK
  <2>2. OnFatal
    BY <2>1
       DEF Next, vars, Start, HandshakeAnswered, HandshakeRejected, HandshakeDeadline,
           HandshakeEnds, OpenAvailable, OpenJoinsHandshake, OpenStartsHandshake,
           OpenUnavailable, AuthResolved, AuthFails, ServiceConnects, ServiceRefuses,
           OpenAnswered, OpenRefused, OpenDeadline, CloseCall, CloseAnswered,
           CloseDeadline, CloseEnds, Dispose, Disposed
  <2>3. backend = "up"
    BY <2>2 DEF Listening, SubscribedWhileUp, OnFatal
  <2>4. session[o] = "open" => o \in sessions
    BY <2>3 DEF SessionsAreTracked
  <2> QED
    BY <2>2, <2>4 DEF OnFatal
<1>3. Spec => []Listening
  BY <1>1, StepListens, PTL DEF Spec
<1>4. Spec => [][Total]_vars
  BY <1>2, <1>3, TrackingIsExact, PTL DEF Spec
<1> QED
  BY <1>4 DEF FatalLosesEverySession
=============================================================================
