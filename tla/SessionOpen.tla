---------------------------- MODULE SessionOpen ----------------------------
(***************************************************************************)
(* Opening sessions on one profile: which backend is asked                 *)
(* (SqlDataPlaneService.openSessionWithFallback, serviceForProfile,        *)
(* resolveCapabilityFallback), the memory of the route a policy or a user  *)
(* has chosen, and the retries while an Azure serverless database wakes    *)
(* (openWithServerlessWake).                                               *)
(*                                                                         *)
(* Between the check of the capabilities and the decision there are only   *)
(* microtasks, so they are one action; the prompt, the start of the        *)
(* backend, the provider's own check, the open, the status check and the   *)
(* pause before a retry let other events in.  The lifecycle of the         *)
(* backends is DataPlaneRegistry's: here a backend that starts, stops or   *)
(* shakes hands again changes what it is known to support.                 *)
(***************************************************************************)
EXTENDS Integers, FiniteSets

CONSTANTS
  Kinds,       \* the registered backend kinds
  Capable,     \* the kinds whose static capabilities satisfy the profile
  TestKinds,   \* the kinds of realm class "test"
  Opens,       \* the opens of the profile, each used once
  MaxRetries,  \* SERVERLESS_WAKE_MAX_RETRY_ATTEMPTS
  MaxChanges,  \* bound: configuration changes
  MaxHandshakes \* bound: changes of a backend's negotiated capabilities

NoKind == "none"

ASSUME OpenAssumption ==
  /\ NoKind \notin Kinds
  /\ Capable \subseteq Kinds /\ TestKinds \subseteq Kinds
  /\ MaxRetries \in Nat /\ MaxChanges \in Nat /\ MaxHandshakes \in Nat

VARIABLES
  eligible,    \* whether the profile can be status-checked (canCheckPauseStatus)
  settings,    \* mssql.sqlDataPlane: the fallback policy and the default kind
  remembered,  \* rememberedFallback for the profile
  open,        \* each open: where it is, its kind, its attempts, its ARM checks
  live,        \* the kinds that satisfy the profile by effectiveSet
  changes,     \* configuration changes so far
  handshakes   \* changes of negotiated capabilities so far

env == <<eligible, settings, live, changes, handshakes>>
vars == <<eligible, settings, remembered, open, live, changes, handshakes>>

----------------------------------------------------------------------------
(* Data.                                                                   *)

Policies == {"prompt", "auto", "off"}

(* An unknown value of the default setting is not a kind.                  *)
Settings == [policy : Policies, default : Kinds \cup {NoKind}]

(* arm is the current status promise: none, pending, or its answer; an     *)
(* open that has ended holds none.                                         *)
ArmStates == {"none", "pending", "wake", "other"}

(* starting: awaiting service().  checked: the view's check has passed and *)
(* the provider's is awaited.  trying: the provider's open runs.  erred:   *)
(* an attempt has failed.  pausing: the delay before a retry.              *)
OpenStates == {"new", "prompting", "starting", "checked", "trying", "erred", "pausing",
               "opened", "failed"}

(* lapsed: since the view's check, the kind was seen not to satisfy the    *)
(* profile (a history variable of the property below).                     *)
OpenRecords == [pc : OpenStates, pinned : Kinds \cup {NoKind}, kind : Kinds \cup {NoKind},
                attempts : Nat, retries : Nat, wakeable : BOOLEAN, arm : ArmStates,
                armCalls : Nat, lapsed : BOOLEAN]

NewOpen == [pc |-> "new", pinned |-> NoKind, kind |-> NoKind, attempts |-> 0,
            retries |-> 0, wakeable |-> FALSE, arm |-> "none", armCalls |-> 0,
            lapsed |-> FALSE]

----------------------------------------------------------------------------
(* Routing.                                                                *)

Goes(o, r) == open' = [open EXCEPT ![o] = r]

(* The check of the requirements against what is known of the kind.        *)
CanOpen(k) == k \in live

(* Mutant: the kind decided on is not handed on.                           *)
StartingUnset(r, k) == [r EXCEPT !.pc = "starting"]

Starting(r, k) == [r EXCEPT !.pc = "starting", !.kind = k]
Failed(r) == [r EXCEPT !.pc = "failed", !.wakeable = FALSE, !.arm = "none"]

(* openSession asks canOpen again, of the kind the policy or the user has  *)
(* decided on, before it awaits the service.                               *)
Resolved(r, k) == IF CanOpen(k) THEN Starting(r, k) ELSE Failed([r EXCEPT !.kind = k])

(* kindsSatisfying: the kinds a profile the kind k cannot open may go to,  *)
(* by what they support statically.                                        *)
Alternatives(k) == (Capable \ TestKinds) \ {k}

(* Mutant: a route taken for a pinned open is remembered too.              *)
RememberAny(pinned, k) == remembered' = k

Remember(pinned, k) == remembered' = IF pinned = NoKind THEN k ELSE remembered

(* The kind an open asks for: the override, the remembered route, the      *)
(* configured default.                                                     *)
AskedKind(pinned) ==
  CASE pinned # NoKind -> pinned
    [] pinned = NoKind /\ remembered # NoKind -> remembered
    [] OTHER -> settings.default

(* The capability check passes: open on the kind asked for.                *)
OpenAsAsked(o, pinned) ==
  /\ open[o].pc = "new"
  /\ CanOpen(AskedKind(pinned))
  /\ Goes(o, [Starting(open[o], AskedKind(pinned)) EXCEPT !.pinned = pinned])
  /\ UNCHANGED <<env, remembered>>

(* It does not, and nothing else is left: an unknown default, policy off,  *)
(* or no alternative.                                                      *)
OpenAborted(o, pinned) ==
  /\ open[o].pc = "new"
  /\ ~CanOpen(AskedKind(pinned))
  /\ \/ AskedKind(pinned) = NoKind
     \/ settings.policy = "off"
     \/ Alternatives(AskedKind(pinned)) = {}
  /\ Goes(o, [Failed(open[o]) EXCEPT !.pinned = pinned])
  /\ UNCHANGED <<env, remembered>>

(* Policy auto: the route is taken and notified.                           *)
OpenRouted(o, pinned) ==
  /\ open[o].pc = "new"
  /\ AskedKind(pinned) # NoKind /\ ~CanOpen(AskedKind(pinned))
  /\ settings.policy = "auto"
  /\ \E k \in Alternatives(AskedKind(pinned)) :
       /\ Goes(o, [Resolved(open[o], k) EXCEPT !.pinned = pinned])
       /\ Remember(pinned, k)
  /\ UNCHANGED env

(* Policy prompt: the user is asked about one alternative.                 *)
OpenPrompts(o, pinned) ==
  /\ open[o].pc = "new"
  /\ AskedKind(pinned) # NoKind /\ ~CanOpen(AskedKind(pinned))
  /\ settings.policy = "prompt"
  /\ \E k \in Alternatives(AskedKind(pinned)) :
       Goes(o, [open[o] EXCEPT !.pc = "prompting", !.kind = k, !.pinned = pinned])
  /\ UNCHANGED <<env, remembered>>

PromptAccepted(o) ==
  /\ open[o].pc = "prompting"
  /\ Goes(o, Resolved(open[o], open[o].kind))
  /\ Remember(open[o].pinned, open[o].kind)
  /\ UNCHANGED env

PromptDismissed(o) ==
  /\ open[o].pc = "prompting"
  /\ Goes(o, Failed(open[o]))
  /\ UNCHANGED <<env, remembered>>

(* A background consumer (serviceForProfile) cannot prompt: it awaits the  *)
(* service of the remembered route or the default, and only the view it    *)
(* gets checks the requirements.                                           *)
OpenSilently(o) ==
  /\ open[o].pc = "new"
  /\ Goes(o, IF AskedKind(NoKind) # NoKind THEN Starting(open[o], AskedKind(NoKind))
                                           ELSE Failed(open[o]))
  /\ UNCHANGED <<env, remembered>>

(* An onDidChangeConfiguration event of the section.                       *)
ConfigChange(new) ==
  /\ changes < MaxChanges
  /\ settings' = new
  /\ remembered' = NoKind
  /\ changes' = changes + 1
  /\ UNCHANGED <<eligible, open, live, handshakes>>

(* A view has checked the requirements of this open.                       *)
PastTheView(r) == r.pc \notin {"new", "prompting", "starting"}

Lapses(r, k) == IF PastTheView(r) /\ r.kind = k THEN [r EXCEPT !.lapsed = TRUE] ELSE r

(* The backend of a kind starts, stops or shakes hands: its negotiated     *)
(* facts overlay the static ones, or no longer do (effectiveSet).          *)
Negotiated(k) ==
  /\ handshakes < MaxHandshakes
  /\ \/ k \notin live /\ live' = live \cup {k} /\ UNCHANGED open
     \/ k \in live /\ live' = live \ {k} /\ open' = [o \in Opens |-> Lapses(open[o], k)]
  /\ handshakes' = handshakes + 1
  /\ UNCHANGED <<eligible, settings, remembered, changes>>

----------------------------------------------------------------------------
(* openWithServerlessWake.                                                 *)

(* Mutant: the view takes the earlier check for its own.                   *)
ServiceUnchecked(o) ==
  /\ open[o].pc = "starting"
  /\ Goes(o, [open[o] EXCEPT !.pc = "checked"])
  /\ UNCHANGED <<env, remembered>>

(* service() resolves: the view checks the requirements again and awaits   *)
(* the provider's own canOpen.                                             *)
ServiceReady(o) ==
  /\ open[o].pc = "starting"
  /\ Goes(o, IF CanOpen(open[o].kind) THEN [open[o] EXCEPT !.pc = "checked"]
                                      ELSE Failed(open[o]))
  /\ UNCHANGED <<env, remembered>>

(* service() rejects, or the provider's canOpen does or says no.           *)
ServiceFails(o) ==
  /\ open[o].pc \in {"starting", "checked"}
  /\ Goes(o, Failed(open[o]))
  /\ UNCHANGED <<env, remembered>>

(* The provider is available: the first attempt, with the status check of  *)
(* an eligible profile beside it.                                          *)
FirstAttempt(o) ==
  /\ open[o].pc = "checked"
  /\ Goes(o, [open[o] EXCEPT !.pc = "trying", !.attempts = 1,
                             !.arm = IF eligible THEN "pending" ELSE "none",
                             !.armCalls = IF eligible THEN 1 ELSE 0])
  /\ UNCHANGED <<env, remembered>>

(* The status check answers; one that fails reads as no pause.             *)
ArmAnswers(o, status) ==
  /\ open[o].arm = "pending"
  /\ Goes(o, [open[o] EXCEPT !.arm = status])
  /\ UNCHANGED <<env, remembered>>

OpenSucceeds(o) ==
  /\ open[o].pc = "trying"
  /\ Goes(o, [open[o] EXCEPT !.pc = "opened", !.arm = "none"])
  /\ UNCHANGED <<env, remembered>>

MayRetry(r) == r.retries < MaxRetries /\ r.arm = "wake"

(* The attempt fails, with an error a waking database explains or another  *)
(* (isServerlessWakeRetryable).                                            *)
AttemptFails(o, wakeable) ==
  /\ open[o].pc = "trying"
  /\ Goes(o, [open[o] EXCEPT !.pc = "erred", !.wakeable = wakeable])
  /\ UNCHANGED <<env, remembered>>

Pausing(r) == [r EXCEPT !.pc = "pausing", !.wakeable = FALSE, !.retries = @ + 1,
                        !.arm = "pending", !.armCalls = @ + 1]

(* Mutant: the failure waits for the status check.                         *)
OpenFailsAfterArm(o) ==
  /\ open[o].pc = "erred" /\ open[o].arm # "pending"
  /\ Goes(o, IF open[o].wakeable /\ MayRetry(open[o]) THEN Pausing(open[o])
                                                      ELSE Failed(open[o]))
  /\ UNCHANGED <<env, remembered>>

(* The status is peeked, never waited for, and a retry asks for a fresh    *)
(* one before it pauses.                                                   *)
OpenFails(o) ==
  /\ open[o].pc = "erred"
  /\ Goes(o, IF open[o].wakeable /\ MayRetry(open[o]) THEN Pausing(open[o])
                                                      ELSE Failed(open[o]))
  /\ UNCHANGED <<env, remembered>>

Retry(o) ==
  /\ open[o].pc = "pausing"
  /\ Goes(o, [open[o] EXCEPT !.pc = "trying", !.attempts = @ + 1])
  /\ UNCHANGED <<env, remembered>>

----------------------------------------------------------------------------
Init ==
  /\ eligible \in BOOLEAN
  /\ settings \in Settings
  /\ remembered = NoKind
  /\ open = [o \in Opens |-> NewOpen]
  /\ live = Capable
  /\ changes = 0
  /\ handshakes = 0

Next ==
  \/ \E o \in Opens, pinned \in Kinds \cup {NoKind} :
       \/ OpenAsAsked(o, pinned) \/ OpenAborted(o, pinned)
       \/ OpenRouted(o, pinned) \/ OpenPrompts(o, pinned)
  \/ \E o \in Opens :
       \/ PromptAccepted(o) \/ PromptDismissed(o) \/ OpenSilently(o)
       \/ ServiceReady(o) \/ ServiceFails(o) \/ FirstAttempt(o)
       \/ ArmAnswers(o, "wake") \/ ArmAnswers(o, "other")
       \/ OpenSucceeds(o) \/ AttemptFails(o, TRUE) \/ AttemptFails(o, FALSE)
       \/ OpenFails(o) \/ Retry(o)
  \/ \E new \in Settings : ConfigChange(new)
  \/ \E k \in Kinds : Negotiated(k)

Spec == Init /\ [][Next]_vars

(* service() settles (DataPlaneRegistry), the provider's check is a        *)
(* bounded handshake (Sts2Backend), an open is bounded by its deadline and *)
(* the pause is a timer.  Nothing makes a user answer a prompt or the      *)
(* status check answer.                                                    *)
Fairness ==
  \A o \in Opens :
    /\ WF_vars(ServiceReady(o) \/ ServiceFails(o) \/ FirstAttempt(o))
    /\ WF_vars(OpenSucceeds(o) \/ AttemptFails(o, TRUE) \/ AttemptFails(o, FALSE))
    /\ WF_vars(OpenFails(o))
    /\ WF_vars(Retry(o))

FairSpec == Spec /\ Fairness

----------------------------------------------------------------------------
(* Properties.                                                             *)

(* The types of the variables; an open that goes anywhere knows its kind.  *)
TypeOK ==
  /\ eligible \in BOOLEAN
  /\ settings \in Settings
  /\ remembered \in Kinds \cup {NoKind}
  /\ open \in [Opens -> OpenRecords]
  /\ \A o \in Opens : open[o].pc \notin {"new", "failed"} => open[o].kind # NoKind
  /\ live \subseteq Kinds
  /\ changes \in 0..MaxChanges
  /\ handshakes \in 0..MaxHandshakes

(* No provider is asked to open a profile it is known not to satisfy: not  *)
(* by an override, a remembered route, a default, a decision or a check    *)
(* made before the capability was lost.  The exception is a capability     *)
(* lost after the view's check, while the provider answers its own or the  *)
(* open runs: nobody looks again (openSession of makeView).  A credential  *)
(* is only ever resolved by a provider that was asked.                     *)
OnlyCapableProvidersAreAsked ==
  \A o \in Opens :
    open[o].attempts > 0 => open[o].kind \in live \/ open[o].lapsed

(* The remembered route is one that a policy or a user chose, since the    *)
(* settings last changed, for an open that named no kind, and neither it   *)
(* nor a route on offer is a test backend: an override and a test backend  *)
(* never become the default of the profile (openSessionWithFallback,       *)
(* kindsSatisfying).                                                       *)
RoutesAreReal ==
  /\ remembered # NoKind =>
       /\ remembered \in Capable \ TestKinds
       /\ \E o \in Opens : open[o].pinned = NoKind /\ open[o].kind = remembered
  /\ \A o \in Opens :
       open[o].pc = "prompting" => open[o].kind \notin TestKinds

(* "The default backend or fallback policy may have changed - forget       *)
(* remembered routes so the new policy is honored on the next connect"     *)
(* (handleConfigurationChanged): while the policy is off, an open that     *)
(* names no kind goes to the default or nowhere.  Violated: a prompt that  *)
(* was open when the policy changed is answered afterwards, and its route  *)
(* is remembered under the new policy.                                     *)
NewPolicyIsHonored ==
  [][\A o \in Opens :
       /\ open[o].pc = "new" /\ open'[o].pc = "starting"
       /\ open'[o].pinned = NoKind /\ settings.policy = "off"
       => open'[o].kind = settings.default]_vars

(* The wake policy is bounded: an eligible profile makes at most           *)
(* MaxRetries + 1 attempts with one status check each, and any other       *)
(* profile one attempt and no status check (openWithServerlessWake).       *)
WakeIsBounded ==
  \A o \in Opens :
    /\ open[o].attempts <= (IF eligible THEN MaxRetries + 1 ELSE 1)
    /\ open[o].attempts > 0 => open[o].armCalls = (IF eligible THEN open[o].retries + 1 ELSE 0)

(* An open that asked a provider succeeds or fails although the status     *)
(* check may never answer: "a slow or failing ARM call never delays the    *)
(* failure path".                                                          *)
OpensEnd ==
  \A o \in Opens :
    open[o].pc = "starting" ~> open[o].pc \in {"opened", "failed"}
============================================================================
