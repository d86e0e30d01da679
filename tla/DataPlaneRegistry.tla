------------------------- MODULE DataPlaneRegistry -------------------------
(***************************************************************************)
(* The composition root of the data plane (SqlDataPlaneService): lazy,     *)
(* single-flight start of a backend, the registry view that counts the     *)
(* sessions opened through it, the swap of a backend whose settings have   *)
(* changed, and disposal.                                                  *)
(*                                                                         *)
(* A flight is one run of factory.create() and the service it yields: the  *)
(* promise entry.startup, the object entry.service and the view that       *)
(* captures it are all named by the number of the flight.  The backend     *)
(* itself is external: it may fail to start, refuse or fail an open, yield *)
(* a session after it was disposed, and never finish disposing.            *)
(***************************************************************************)
EXTENDS Integers, Sequences, FiniteSets

CONSTANTS
  Kinds,       \* the backend kinds with a registered factory
  Tunable,     \* the kinds whose fingerprint settings the user changes
  Configs,     \* the values the fingerprint settings of a kind may have
  Callers,     \* the consumers of the registry, with one session each at a time
  MaxFlights   \* bound: runs of factory.create()

ASSUME RegistryAssumption ==
  /\ Tunable \subseteq Kinds
  /\ MaxFlights \in Nat
  /\ IsFiniteSet(Callers)

VARIABLES
  config,      \* the fingerprint of each kind's settings, as configured now
  entry,       \* entries: the BackendEntry of each kind
  flights,     \* every flight so far: kind, configuration read, phase
  recomposing, \* recomposeEntry calls awaiting disposeEntry: kind and service
  caller,      \* where each consumer is, with the flight of its promise or view
  disposed     \* disposed

vars == <<config, entry, flights, recomposing, caller, disposed>>

----------------------------------------------------------------------------
(* Data.                                                                   *)

None == 0

EntryStates == {"idle", "starting", "running", "failed", "disposed"}

Entries == [state : EntryStates, startup : 0..MaxFlights, service : 0..MaxFlights,
            fingerprint : Configs, stale : BOOLEAN, count : Nat]

(* creating: create() is running.  discarding: its late service is being   *)
(* disposed, the promise still pending.  rejected: the promise rejected.   *)
(* live, disposing, disposed: the promise fulfilled with a service.        *)
Phases  == {"creating", "discarding", "rejected", "live", "disposing", "disposed"}
Flights == [kind : Kinds, config : Configs, phase : Phases]

CallerStates == {"idle", "waiting", "ready", "opening", "session"}

Started(e) == e.service # None \/ e.startup # None

PhaseOf(f) == flights[f].phase
SetPhase(f, p) == [flights EXCEPT ![f].phase = p]

NoCall == [pc |-> "idle", flight |-> None, finalized |-> FALSE]

Goes(c, pc) == caller' = [caller EXCEPT ![c].pc = pc]
Leaves(c) == caller' = [caller EXCEPT ![c] = NoCall]

(* The kind of backend a consumer has asked for.                           *)
KindOf(c) == flights[caller[c].flight].kind

(* The session of c is registered and its record not finalized.            *)
IsOpen(c) == caller[c].pc = "session" /\ ~caller[c].finalized

----------------------------------------------------------------------------
(* Scheduling.  The extension host runs its microtasks to the end before   *)
(* it takes the next event: no event is dispatched while the continuation  *)
(* of an await that has settled has yet to run.                            *)

Settled(f) == PhaseOf(f) \notin {"creating", "discarding"}

RecomposeReady(r) == r[2] # None => PhaseOf(r[2]) = "disposed"

Quiet ==
  /\ \A r \in recomposing : ~RecomposeReady(r)
  /\ \A c \in Callers : caller[c].pc = "waiting" => ~Settled(caller[c].flight)

----------------------------------------------------------------------------
(* disposeEntry and recomposeEntry.                                        *)

DisposedEntry(e) ==
  [e EXCEPT !.service = None, !.startup = None,
            !.state = IF @ = "failed" THEN @ ELSE "disposed"]

DisposeServices(fs) ==
  flights' = [f \in DOMAIN flights |->
                IF f \in fs THEN [flights[f] EXCEPT !.phase = "disposing"]
                            ELSE flights[f]]

(* recomposeEntry of kind k, whose entry the caller has made e, up to its  *)
(* await.                                                                  *)
BeginRecompose(k, e) ==
  /\ entry' = [entry EXCEPT ![k] = DisposedEntry(e)]
  /\ DisposeServices({e.service})
  /\ recomposing' = recomposing \cup {<<k, e.service>>}

Recomposed(e, k) ==
  [e EXCEPT !.state = "idle", !.stale = FALSE, !.fingerprint = config[k]]

(* recomposeEntry after its await: it writes to the entry whatever has     *)
(* happened to it meanwhile.                                               *)
RecomposeDone(r) ==
  /\ r \in recomposing /\ RecomposeReady(r)
  /\ recomposing' = recomposing \ {r}
  /\ entry' = [entry EXCEPT ![r[1]] = Recomposed(@, r[1])]
  /\ UNCHANGED <<config, flights, caller, disposed>>

(* disposeService: the provider's dispose returns, or the 10 s bound ends  *)
(* the wait for it.  A late service that was disposed of rejects the       *)
(* promise of its flight.                                                  *)
DisposalEnds(f) ==
  /\ PhaseOf(f) \in {"disposing", "discarding"}
  /\ flights' = SetPhase(f, IF PhaseOf(f) = "disposing" THEN "disposed" ELSE "rejected")
  /\ UNCHANGED <<config, entry, recomposing, caller, disposed>>

DisposeReturns(f) == f \in DOMAIN flights /\ DisposalEnds(f)

(* Mutant: the wait for a provider that hangs in dispose has no bound.     *)
NoDisposeTimeout(f) == FALSE /\ DisposalEnds(f)

DisposeTimeout(f) == f \in DOMAIN flights /\ DisposalEnds(f)

----------------------------------------------------------------------------
(* service().                                                              *)

Gets(c, pc, f) ==
  caller' = [caller EXCEPT ![c] = [pc |-> pc, flight |-> f, finalized |-> FALSE]]

(* The backend runs: the view at once.                                     *)
ServiceRunning(c, k) ==
  /\ caller[c].pc = "idle" /\ ~disposed
  /\ entry[k].service # None
  /\ Gets(c, "ready", entry[k].service)
  /\ UNCHANGED <<config, entry, flights, recomposing, disposed>>

(* Mutant: a caller awaits the promise although there is none.             *)
ServiceJoinsAny(c, k) ==
  /\ caller[c].pc = "idle" /\ ~disposed
  /\ entry[k].service = None
  /\ Gets(c, "waiting", entry[k].startup)
  /\ UNCHANGED <<config, entry, flights, recomposing, disposed>>

(* A start is in flight: join it.                                          *)
ServiceJoins(c, k) ==
  /\ caller[c].pc = "idle" /\ ~disposed
  /\ entry[k].service = None /\ entry[k].startup # None
  /\ Gets(c, "waiting", entry[k].startup)
  /\ UNCHANGED <<config, entry, flights, recomposing, disposed>>

(* Start a new one.  create() reads the settings before any event can      *)
(* change them.                                                            *)
ServiceStarts(c, k) ==
  LET f == Len(flights) + 1 IN
    /\ caller[c].pc = "idle" /\ ~disposed
    /\ ~Started(entry[k])
    /\ f <= MaxFlights
    /\ flights' = Append(flights, [kind |-> k, config |-> config[k], phase |-> "creating"])
    /\ entry' = [entry EXCEPT ![k].state = "starting", ![k].startup = f]
    /\ Gets(c, "waiting", f)
    /\ UNCHANGED <<config, recomposing, disposed>>

Retired(f) == disposed \/ entry[flights[f].kind].startup # f

(* Mutant: the late result of a retired flight becomes the service.        *)
CreateSucceedsLate(f) ==
  /\ f \in DOMAIN flights /\ PhaseOf(f) = "creating"
  /\ flights' = SetPhase(f, "live")
  /\ entry' = [entry EXCEPT ![flights[f].kind].service = f,
                            ![flights[f].kind].state = "running"]
  /\ UNCHANGED <<config, recomposing, caller, disposed>>

(* create() resolves.                                                      *)
CreateSucceeds(f) ==
  /\ f \in DOMAIN flights /\ PhaseOf(f) = "creating"
  /\ IF Retired(f)
       THEN /\ flights' = SetPhase(f, "discarding")
            /\ UNCHANGED entry
       ELSE /\ flights' = SetPhase(f, "live")
            /\ entry' = [entry EXCEPT ![flights[f].kind].service = f,
                                      ![flights[f].kind].state = "running"]
  /\ UNCHANGED <<config, recomposing, caller, disposed>>

(* Mutant: a retired flight that fails marks the entry failed.             *)
CreateFailsLate(f) ==
  /\ f \in DOMAIN flights /\ PhaseOf(f) = "creating"
  /\ flights' = SetPhase(f, "rejected")
  /\ entry' = [entry EXCEPT ![flights[f].kind].startup = None,
                            ![flights[f].kind].state = "failed"]
  /\ UNCHANGED <<config, recomposing, caller, disposed>>

(* create() rejects: only the current flight clears the entry's promise.   *)
CreateFails(f) ==
  /\ f \in DOMAIN flights /\ PhaseOf(f) = "creating"
  /\ flights' = SetPhase(f, "rejected")
  /\ entry' = IF entry[flights[f].kind].startup = f
                THEN [entry EXCEPT ![flights[f].kind].startup = None,
                                   ![flights[f].kind].state = "failed"]
                ELSE entry
  /\ UNCHANGED <<config, recomposing, caller, disposed>>

(* Mutant: a caller takes the flight it awaited without looking again.     *)
AnyFlight(c) == PhaseOf(caller[c].flight) # "rejected"

(* After the await: the flight must still be the entry's.                  *)
StillCurrent(c) ==
  LET e == entry[KindOf(c)] IN
    /\ PhaseOf(caller[c].flight) # "rejected"
    /\ ~disposed
    /\ e.startup = caller[c].flight /\ e.service # None

Resume(c) ==
  /\ caller[c].pc = "waiting" /\ Settled(caller[c].flight)
  /\ IF StillCurrent(c) THEN Goes(c, "ready") ELSE Leaves(c)
  /\ UNCHANGED <<config, entry, flights, recomposing, disposed>>

----------------------------------------------------------------------------
(* Sessions.                                                               *)

(* The view's openSession: its requirements and the provider's canOpen     *)
(* pass.  A provider that has been disposed refuses.                       *)
OpenSession(c) ==
  /\ caller[c].pc = "ready" /\ PhaseOf(caller[c].flight) # "disposed"
  /\ Goes(c, "opening")
  /\ UNCHANGED <<config, entry, flights, recomposing, disposed>>

(* They do not, or the caller drops the view.                              *)
OpenRefused(c) ==
  /\ caller[c].pc = "ready"
  /\ Leaves(c)
  /\ UNCHANGED <<config, entry, flights, recomposing, disposed>>

(* registerSession, against the entry whatever has become of the service.  *)
OpenSucceeds(c) ==
  /\ caller[c].pc = "opening"
  /\ Goes(c, "session")
  /\ entry' = [entry EXCEPT ![KindOf(c)].count = @ + 1]
  /\ UNCHANGED <<config, flights, recomposing, disposed>>

OpenFails(c) ==
  /\ caller[c].pc = "opening"
  /\ Leaves(c)
  /\ UNCHANGED <<config, entry, flights, recomposing, disposed>>

LastOut(e) == [e EXCEPT !.count = IF @ > 0 THEN @ - 1 ELSE 0]

(* Mutant: every report of the end of a session counts.                    *)
FinalizeEach(c) ==
  LET k == KindOf(c)
      e == LastOut(entry[k]) IN
    IF e.count = 0 /\ e.stale /\ ~disposed
      THEN BeginRecompose(k, e)
      ELSE entry' = [entry EXCEPT ![k] = e] /\ UNCHANGED <<flights, recomposing>>

(* finalize: the first report that the session has ended.                  *)
Finalize(c) ==
  LET k == KindOf(c)
      e == LastOut(entry[k]) IN
    IF caller[c].finalized
      THEN UNCHANGED <<entry, flights, recomposing>>
      ELSE IF e.count = 0 /\ e.stale /\ ~disposed
        THEN BeginRecompose(k, e)
        ELSE entry' = [entry EXCEPT ![k] = e] /\ UNCHANGED <<flights, recomposing>>

(* The session reports that it is lost or closed.                          *)
SessionEnds(c) ==
  /\ IsOpen(c) /\ Quiet
  /\ Finalize(c)
  /\ caller' = [caller EXCEPT ![c].finalized = TRUE]
  /\ UNCHANGED <<config, disposed>>

(* The consumer's close() or dispose() of the session returns or throws.   *)
CloseReturns(c) ==
  /\ caller[c].pc = "session"
  /\ Finalize(c)
  /\ Leaves(c)
  /\ UNCHANGED <<config, disposed>>

----------------------------------------------------------------------------
(* Configuration and disposal.                                             *)

Affected(k, new) == Started(entry[k]) /\ new[k] # entry[k].fingerprint

(* Mutant: the swap does not wait for the sessions.                        *)
DrainsAtOnce(k, new) == Affected(k, new)

Drains(k, new) == Affected(k, new) /\ entry[k].count = 0

Reconfigured(k, new) ==
  LET e == [entry[k] EXCEPT !.fingerprint = new[k]] IN
    IF ~Started(e) THEN e
    ELSE IF Drains(k, new) THEN DisposedEntry(e)
    ELSE IF Affected(k, new) THEN [e EXCEPT !.stale = TRUE]
    ELSE entry[k]

(* handleConfigurationChanged, for a change of the section that need not   *)
(* touch the fingerprint of any kind.  dispose() ends the watch.           *)
ConfigChange(new) ==
  /\ ~disposed /\ Quiet
  /\ \A k \in Kinds \ Tunable : new[k] = config[k]
  /\ config' = new
  /\ entry' = [k \in Kinds |-> Reconfigured(k, new)]
  /\ DisposeServices({entry[k].service : k \in {q \in Kinds : Drains(q, new)}})
  /\ recomposing' = recomposing \cup
                      {<<k, entry[k].service>> : k \in {q \in Kinds : Drains(q, new)}}
  /\ UNCHANGED <<caller, disposed>>

(* dispose(): what follows its await only drops the sessions map, which    *)
(* passive status reads and nothing else.                                  *)
Dispose ==
  /\ ~disposed /\ Quiet
  /\ disposed' = TRUE
  /\ entry' = [k \in Kinds |-> DisposedEntry(entry[k])]
  /\ DisposeServices({entry[k].service : k \in Kinds})
  /\ UNCHANGED <<config, recomposing, caller>>

----------------------------------------------------------------------------
Init ==
  /\ config \in [Kinds -> Configs]
  /\ entry = [k \in Kinds |->
                [state |-> "idle", startup |-> None, service |-> None,
                 fingerprint |-> config[k], stale |-> FALSE, count |-> 0]]
  /\ flights = <<>>
  /\ recomposing = {}
  /\ caller = [c \in Callers |-> NoCall]
  /\ disposed = FALSE

Next ==
  \/ \E c \in Callers, k \in Kinds :
       ServiceRunning(c, k) \/ ServiceJoins(c, k) \/ ServiceStarts(c, k)
  \/ \E c \in Callers :
       \/ Resume(c)
       \/ OpenSession(c) \/ OpenRefused(c) \/ OpenSucceeds(c) \/ OpenFails(c)
       \/ SessionEnds(c) \/ CloseReturns(c)
  \/ \E f \in DOMAIN flights :
       \/ CreateSucceeds(f) \/ CreateFails(f)
       \/ DisposeReturns(f) \/ DisposeTimeout(f)
  \/ \E r \in recomposing : RecomposeDone(r)
  \/ \E new \in [Kinds -> Configs] : ConfigChange(new)
  \/ Dispose

Spec == Init /\ [][Next]_vars

(* Every create() settles (a backend bounds its handshake), the disposal   *)
(* bound is a timer, and a continuation whose promise has settled runs.    *)
(* Nothing makes a provider's dispose return, an open settle, a consumer   *)
(* close its session or a user change a setting.                           *)
Fairness ==
  /\ \A f \in 1..MaxFlights :
       /\ WF_vars(CreateSucceeds(f) \/ CreateFails(f))
       /\ WF_vars(DisposeTimeout(f))
  /\ \A c \in Callers : WF_vars(Resume(c))
  /\ \A k \in Kinds, f \in 0..MaxFlights : WF_vars(RecomposeDone(<<k, f>>))

FairSpec == Spec /\ Fairness

----------------------------------------------------------------------------
(* Properties.                                                             *)

EntryTypeOK ==
  /\ config \in [Kinds -> Configs]
  /\ entry \in [Kinds -> Entries]

FlightTypeOK ==
  /\ flights \in Seq(Flights) /\ Len(flights) <= MaxFlights
  /\ recomposing \subseteq Kinds \X (0..Len(flights))

CallerTypeOK ==
  /\ caller \in [Callers -> [pc : CallerStates, flight : 0..Len(flights),
                             finalized : BOOLEAN]]
  /\ \A c \in Callers : caller[c].pc # "idle" => caller[c].flight # None

EntriesNameFlights ==
  \A k \in Kinds :
    entry[k].startup \in 0..Len(flights) /\ entry[k].service \in 0..Len(flights)

(* The types of the variables.  A consumer that is not idle names a flight *)
(* there has been, and an entry and a recompose one or none.               *)
TypeOK ==
  EntryTypeOK /\ FlightTypeOK /\ EntriesNameFlights /\ CallerTypeOK
    /\ disposed \in BOOLEAN

(* The session count of an entry, which decides whether a changed backend  *)
(* is swapped now or later, is the number of sessions open on its kind,    *)
(* however often and by whichever path their end is reported and whatever  *)
(* became of the backend meanwhile (registerSession, finalize).            *)
SessionAccounting ==
  \A k \in Kinds :
    entry[k].count = Cardinality({c \in Callers : IsOpen(c) /\ KindOf(c) = k})

(* No backend is leaked: a service that was created and not disposed of is *)
(* the service of its entry, and the entry holds no other; a retired       *)
(* flight that ends late never becomes one (service(), disposeEntry).      *)
LiveServicesAreOwned ==
  /\ \A f \in DOMAIN flights :
       PhaseOf(f) = "live" => entry[flights[f].kind].service = f
  /\ \A k \in Kinds :
       entry[k].service # None =>
         /\ PhaseOf(entry[k].service) = "live"
         /\ entry[k].startup = entry[k].service

(* What an entry claims of a start is true: running has a service, and     *)
(* starting, failed and disposed have none; a start that was retired never *)
(* speaks for the entry (the guards of service()'s then and catch).        *)
ClaimsAreTrue ==
  \A k \in Kinds :
    LET e == entry[k] IN
      /\ e.state = "running" => e.service # None
      /\ e.state = "starting" => e.startup # None /\ e.service = None
      /\ e.state \in {"failed", "disposed"} => ~Started(e)

(* While a session opened through a service is open, a configuration       *)
(* change does not dispose of that service: only dispose() does            *)
(* (handleConfigurationChanged, finalize).                                 *)
SwapSparesSessions ==
  [][\A c \in Callers :
       IsOpen(c) /\ IsOpen(c)' /\ PhaseOf(caller[c].flight) = "live" /\ ~disposed'
         => PhaseOf(caller[c].flight)' = "live"]_vars

(* A caller of service() that waited is given a running backend or an      *)
(* error, never one that was retired while it waited, and nothing at all   *)
(* once the registry is disposed (the checks after service()'s await).     *)
WaitersGetRunningBackends ==
  [][\A c \in Callers :
       caller[c].pc = "waiting" /\ caller'[c].pc = "ready"
         => flights'[caller'[c].flight].phase = "live" /\ ~disposed]_vars

(* Every caller of service() is answered, although a backend may hang in   *)
(* dispose (DISPOSE_TIMEOUT_MS).                                           *)
CallersAreAnswered ==
  \A c \in Callers : caller[c].pc = "waiting" ~> caller[c].pc # "waiting"

(* After dispose() every backend is released, the one still starting too   *)
(* (dispose, the retirement check of service()).                           *)
DisposeReleasesEverything ==
  disposed ~> \A f \in DOMAIN flights : PhaseOf(f) \in {"disposed", "rejected"}

----------------------------------------------------------------------------
(* What the comments and the tests say and the code does not do.           *)

(* The test of the stale swap: "Session still open: entry marked stale,    *)
(* service NOT recomposed yet."                                            *)
OpenSessionsHaveABackend ==
  ~disposed => \A c \in Callers : IsOpen(c) => PhaseOf(caller[c].flight) = "live"

(* The comment on the stale mark: "swapped when count reaches 0".  A       *)
(* backend that was started with other settings than those configured now  *)
(* does not outlive its own last session.                                  *)
StaleBackendsAreSwapped ==
  [][\A k \in Kinds :
       LET f == entry[k].service IN
         /\ f # None /\ flights[f].config # config[k] /\ ~disposed
         /\ entry[k].count > 0 /\ entry'[k].count = 0
         /\ \A c \in Callers : IsOpen(c) => caller[c].flight = f
         => entry'[k].service # f]_vars
============================================================================
