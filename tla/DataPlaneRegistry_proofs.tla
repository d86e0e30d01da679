---------------------- MODULE DataPlaneRegistry_proofs ----------------------
(***************************************************************************)
(* The registry of backends is safe for every number of kinds, consumers,  *)
(* settings and starts: it leaks no backend and claims none it lacks, it   *)
(* counts its sessions, and a change of settings spares them.              *)
(***************************************************************************)
EXTENDS DataPlaneRegistry_types, FiniteSetTheorems

(***************************************************************************)
(* Ownership.  LiveServicesAreOwned speaks of the kind of a flight, which  *)
(* is why the inductive invariant adds that an entry's service is of the   *)
(* entry's kind; ClaimsAreTrue needs both when a start ends.               *)
(***************************************************************************)

OwnKind == \A k \in Kinds : entry[k].service # None => flights[entry[k].service].kind = k

Ownership == TypeOK /\ LiveServicesAreOwned /\ ClaimsAreTrue /\ OwnKind

(* What an entry says of a service, before and after.                      *)
SameClaim(k) ==
  /\ entry'[k].service = entry[k].service /\ entry'[k].startup = entry[k].startup
  /\ entry'[k].state \in {entry[k].state, "idle"}

Released(k) == ~Started(entry'[k]) /\ entry'[k].state \in {"failed", "disposed"}

LEMMA ServiceInRange ==
  ASSUME TypeOK, NEW k \in Kinds, entry[k].service # None
  PROVE  entry[k].service \in 1..Len(flights)
BY DEF TypeOK, EntriesNameFlights, FlightTypeOK, None

LEMMA FlightsDomain ==
  ASSUME TypeOK
  PROVE  DOMAIN flights = 1..Len(flights) /\ Len(flights) \in Nat
BY DEF TypeOK, FlightTypeOK

(* A step that neither starts nor ends a flight.                           *)
LEMMA ClaimsKept ==
  ASSUME Ownership, TypeOK', UNCHANGED flights, \A k \in Kinds : SameClaim(k)
  PROVE  Ownership'
<1>1. \A f \in 1..Len(flights) : flights[f].kind \in Kinds
  BY FlightType DEF Ownership, TypeOK
<1>2. LiveServicesAreOwned'
  BY <1>1, FlightsDomain DEF Ownership, LiveServicesAreOwned, PhaseOf, SameClaim
<1>3. ClaimsAreTrue'
  BY DEF Ownership, ClaimsAreTrue, SameClaim, Started
<1>4. OwnKind'
  BY DEF Ownership, OwnKind, SameClaim
<1> QED BY <1>2, <1>3, <1>4 DEF Ownership

(* A step that retires the entries of some kinds and disposes of their     *)
(* services.                                                               *)
LEMMA Retirement ==
  ASSUME Ownership, TypeOK', NEW K \in SUBSET Kinds,
         DisposeServices({entry[k].service : k \in K}),
         \A k \in K : Released(k),
         \A k \in Kinds \ K : SameClaim(k)
  PROVE  Ownership'
<1> DEFINE fs == {entry[k].service : k \in K}
<1>1. /\ Len(flights') = Len(flights)
      /\ \A f \in 1..Len(flights) :
           /\ flights'[f].kind = flights[f].kind
           /\ flights'[f].phase = IF f \in fs THEN "disposing" ELSE flights[f].phase
  BY DisposeServicesType DEF Ownership, TypeOK
<1>2. \A f \in 1..Len(flights) : flights[f].kind \in Kinds
  BY FlightType DEF Ownership, TypeOK
<1>3. DOMAIN flights = 1..Len(flights) /\ DOMAIN flights' = 1..Len(flights)
  BY FlightsDomain DEF DisposeServices, Ownership
<1>4. \A k \in Kinds \ K : entry[k].service # None => entry[k].service \notin fs
  BY DEF Ownership, OwnKind
<1>5. LiveServicesAreOwned'
  <2>1. ASSUME NEW f \in 1..Len(flights), flights'[f].phase = "live"
        PROVE  entry'[flights'[f].kind].service = f
    <3>1. f \notin fs /\ flights[f].phase = "live"
      BY <1>1, <2>1
    <3>2. entry[flights[f].kind].service = f
      BY <1>3, <3>1 DEF Ownership, LiveServicesAreOwned, PhaseOf
    <3>3. flights[f].kind \in Kinds \ K
      BY <1>2, <3>1, <3>2
    <3> QED BY <1>1, <3>2, <3>3 DEF SameClaim
  <2>2. ASSUME NEW k \in Kinds, entry'[k].service # None
        PROVE  /\ flights'[entry'[k].service].phase = "live"
               /\ entry'[k].startup = entry'[k].service
    <3>1. k \notin K
      BY <2>2 DEF Released, Started
    <3>2. entry'[k].service = entry[k].service /\ entry'[k].startup = entry[k].startup
      BY <3>1 DEF SameClaim
    <3>3. entry[k].service \in 1..Len(flights) /\ entry[k].service \notin fs
      BY <1>4, <2>2, <3>1, <3>2, ServiceInRange DEF Ownership
    <3>4. flights[entry[k].service].phase = "live" /\ entry[k].startup = entry[k].service
      BY <2>2, <3>2 DEF Ownership, LiveServicesAreOwned, PhaseOf
    <3> QED BY <1>1, <3>2, <3>3, <3>4
  <2> QED BY <1>3, <2>1, <2>2 DEF LiveServicesAreOwned, PhaseOf
<1>6. ClaimsAreTrue'
  BY DEF Ownership, ClaimsAreTrue, SameClaim, Released, Started
<1>7. OwnKind'
  <2>1. ASSUME NEW k \in Kinds, entry'[k].service # None
        PROVE  flights'[entry'[k].service].kind = k
    <3>1. k \notin K
      BY <2>1 DEF Released, Started
    <3>2. entry'[k].service = entry[k].service
      BY <3>1 DEF SameClaim
    <3>3. entry[k].service \in 1..Len(flights)
      BY <2>1, <3>2, ServiceInRange DEF Ownership
    <3> QED BY <1>1, <2>1, <3>2, <3>3 DEF Ownership, OwnKind
  <2> QED BY <2>1 DEF OwnKind
<1> QED BY <1>5, <1>6, <1>7 DEF Ownership

LEMMA StartOwned ==
  ASSUME Ownership, TypeOK', NEW c \in Callers, NEW k \in Kinds, ServiceStarts(c, k)
  PROVE  Ownership'
<1> DEFINE f == Len(flights) + 1
           n == [kind |-> k, config |-> config[k], phase |-> "creating"]
<1>1. /\ flights \in Seq(Flights) /\ Len(flights) \in Nat /\ entry \in [Kinds -> Entries]
      /\ DOMAIN flights = 1..Len(flights)
  BY FlightsDomain DEF Ownership, TypeOK, FlightTypeOK, EntryTypeOK
<1>2. flights' = Append(flights, n) /\ entry[k].service = None
  BY DEF ServiceStarts, Started
<1>3. /\ DOMAIN flights' = 1..f /\ flights'[f] = n
      /\ \A g \in 1..Len(flights) : flights'[g] = flights[g]
  BY <1>1, <1>2
<1>4. /\ entry'[k].service = None /\ entry'[k].startup = f /\ entry'[k].state = "starting"
      /\ \A q \in Kinds \ {k} : entry'[q] = entry[q]
  BY <1>1, <1>2 DEF ServiceStarts, Entries
<1>5. f # None
  BY <1>1 DEF None
<1>6. \A q \in Kinds : entry'[q].service # None =>
        q # k /\ entry'[q] = entry[q] /\ entry[q].service \in 1..Len(flights)
  BY <1>4, ServiceInRange DEF Ownership
<1>7. LiveServicesAreOwned'
  <2>1. ASSUME NEW g \in 1..f, flights'[g].phase = "live"
        PROVE  entry'[flights'[g].kind].service = g
    <3>1. g \in 1..Len(flights)
      BY <1>1, <1>3, <2>1
    <3>2. flights[g].kind \in Kinds /\ entry[flights[g].kind].service = g
      BY <1>1, <1>3, <2>1, <3>1, FlightType
         DEF Ownership, TypeOK, LiveServicesAreOwned, PhaseOf
    <3>3. flights[g].kind # k
      BY <1>2, <3>1, <3>2 DEF None
    <3> QED BY <1>3, <1>4, <3>1, <3>2, <3>3
  <2>2. ASSUME NEW q \in Kinds, entry'[q].service # None
        PROVE  /\ flights'[entry'[q].service].phase = "live"
               /\ entry'[q].startup = entry'[q].service
    BY <1>3, <1>6, <2>2 DEF Ownership, LiveServicesAreOwned, PhaseOf
  <2> QED BY <1>3, <2>1, <2>2 DEF LiveServicesAreOwned, PhaseOf
<1>8. ClaimsAreTrue'
  BY <1>4, <1>5 DEF Ownership, ClaimsAreTrue, Started
<1>9. OwnKind'
  BY <1>3, <1>6 DEF Ownership, OwnKind
<1> QED BY <1>7, <1>8, <1>9 DEF Ownership

(* A flight that was not live ends, whatever its entry names.              *)
LEMMA PhaseOwned ==
  ASSUME Ownership, TypeOK', NEW f \in 1..Len(flights), NEW p \in Phases \ {"live"},
         flights[f].phase # "live", flights' = SetPhase(f, p),
         \A k \in Kinds : entry'[k].service = entry[k].service,
         \A k \in Kinds : entry[k].service # None => entry'[k].startup = entry[k].startup,
         ClaimsAreTrue'
  PROVE  Ownership'
<1>1. /\ Len(flights') = Len(flights) /\ DOMAIN flights' = 1..Len(flights)
      /\ \A g \in 1..Len(flights) :
           /\ flights'[g].kind = flights[g].kind
           /\ flights'[g].phase = IF g = f THEN p ELSE flights[g].phase
  BY SetPhaseType, FlightsDomain DEF Ownership, TypeOK, SetPhase
<1>2. \A g \in 1..Len(flights) : flights[g].kind \in Kinds
  BY FlightType DEF Ownership, TypeOK
<1>3. \A k \in Kinds : entry[k].service # None =>
        entry[k].service \in 1..Len(flights) /\ entry[k].service # f
  BY ServiceInRange DEF Ownership, LiveServicesAreOwned, PhaseOf
<1>4. LiveServicesAreOwned'
  <2>1. \A g \in 1..Len(flights) :
          flights'[g].phase = "live" => entry'[flights'[g].kind].service = g
    BY <1>1, <1>2, FlightsDomain DEF Ownership, LiveServicesAreOwned, PhaseOf
  <2>2. \A k \in Kinds : entry'[k].service # None =>
          /\ flights'[entry'[k].service].phase = "live"
          /\ entry'[k].startup = entry'[k].service
    BY <1>1, <1>3 DEF Ownership, LiveServicesAreOwned, PhaseOf
  <2> QED BY <1>1, <2>1, <2>2 DEF LiveServicesAreOwned, PhaseOf
<1>5. OwnKind'
  BY <1>1, <1>3 DEF Ownership, OwnKind
<1> QED BY <1>4, <1>5 DEF Ownership

LEMMA CreateSucceedsOwned ==
  ASSUME Ownership, TypeOK', NEW f \in DOMAIN flights, CreateSucceeds(f)
  PROVE  Ownership'
<1> DEFINE k == flights[f].kind
<1>1. /\ f \in 1..Len(flights) /\ DOMAIN flights = 1..Len(flights) /\ f # None
      /\ k \in Kinds /\ entry \in [Kinds -> Entries] /\ flights[f].phase = "creating"
  BY FlightsDomain, FlightType
     DEF Ownership, TypeOK, EntryTypeOK, CreateSucceeds, PhaseOf, None
<1>2. CASE Retired(f)
  <2>1. flights' = SetPhase(f, "discarding") /\ UNCHANGED entry
    BY <1>2 DEF CreateSucceeds
  <2>2. ClaimsAreTrue'
    BY <2>1 DEF Ownership, ClaimsAreTrue, Started
  <2> QED BY <1>1, <2>1, <2>2, PhaseOwned DEF Phases
<1>3. CASE ~Retired(f)
  <2>1. flights' = SetPhase(f, "live") /\ entry[k].startup = f
    BY <1>3 DEF CreateSucceeds, Retired
  <2>2. /\ entry'[k].service = f /\ entry'[k].startup = f /\ entry'[k].state = "running"
        /\ \A q \in Kinds \ {k} : entry'[q] = entry[q]
    BY <1>1, <1>3, <2>1 DEF CreateSucceeds, Entries
  <2>3. entry[k].service = None
    BY <1>1, <2>1 DEF Ownership, LiveServicesAreOwned, PhaseOf
  <2>4. /\ DOMAIN flights' = 1..Len(flights)
        /\ \A g \in 1..Len(flights) :
             /\ flights'[g].kind = flights[g].kind
             /\ flights'[g].phase = IF g = f THEN "live" ELSE flights[g].phase
    <3>1. "live" \in Phases
      BY DEF Phases
    <3> QED BY <1>1, <2>1, <3>1, SetPhaseType DEF Ownership, TypeOK, SetPhase
  <2>5. \A q \in Kinds \ {k} : entry[q].service # None =>
          entry[q].service \in 1..Len(flights) /\ entry[q].service # f
    BY <1>1, ServiceInRange DEF Ownership, LiveServicesAreOwned, PhaseOf
  <2>6. LiveServicesAreOwned'
    <3>1. ASSUME NEW g \in 1..Len(flights), flights'[g].phase = "live", g # f
          PROVE  entry'[flights'[g].kind].service = g
      <4>1. flights[g].kind \in Kinds /\ entry[flights[g].kind].service = g /\ g # None
        BY <1>1, <2>4, <3>1, FlightType
           DEF Ownership, TypeOK, LiveServicesAreOwned, PhaseOf, None
      <4> QED BY <2>2, <2>3, <2>4, <3>1, <4>1
    <3>2. \A q \in Kinds : entry'[q].service # None =>
            /\ flights'[entry'[q].service].phase = "live"
            /\ entry'[q].startup = entry'[q].service
      BY <1>1, <2>2, <2>4, <2>5 DEF Ownership, LiveServicesAreOwned, PhaseOf
    <3> QED BY <1>1, <2>2, <2>4, <3>1, <3>2 DEF LiveServicesAreOwned, PhaseOf
  <2>7. ClaimsAreTrue'
    BY <1>1, <2>2 DEF Ownership, ClaimsAreTrue, Started
  <2>8. OwnKind'
    BY <1>1, <2>2, <2>4, <2>5 DEF Ownership, OwnKind
  <2> QED BY <2>6, <2>7, <2>8 DEF Ownership
<1> QED BY <1>2, <1>3

LEMMA CreateFailsOwned ==
  ASSUME Ownership, TypeOK', NEW f \in DOMAIN flights, CreateFails(f)
  PROVE  Ownership'
<1> DEFINE k == flights[f].kind
<1>1. /\ f \in 1..Len(flights) /\ f # None
      /\ k \in Kinds /\ entry \in [Kinds -> Entries] /\ flights[f].phase = "creating"
      /\ flights' = SetPhase(f, "rejected")
  BY FlightsDomain, FlightType
     DEF Ownership, TypeOK, EntryTypeOK, CreateFails, PhaseOf, None
<1>2. CASE entry[k].startup # f
  <2>1. UNCHANGED entry
    BY <1>2 DEF CreateFails
  <2>2. ClaimsAreTrue'
    BY <2>1 DEF Ownership, ClaimsAreTrue, Started
  <2> QED BY <1>1, <2>1, <2>2, PhaseOwned DEF Phases
<1>3. CASE entry[k].startup = f
  <2>1. entry[k].service = None
    BY <1>1, <1>3 DEF Ownership, LiveServicesAreOwned, PhaseOf
  <2>2. /\ entry'[k].service = None /\ entry'[k].startup = None /\ entry'[k].state = "failed"
        /\ \A q \in Kinds \ {k} : entry'[q] = entry[q]
    BY <1>1, <1>3, <2>1 DEF CreateFails, Entries
  <2>3. ClaimsAreTrue'
    BY <2>2 DEF Ownership, ClaimsAreTrue, Started
  <2>4. \A q \in Kinds : /\ entry'[q].service = entry[q].service
                         /\ entry[q].service # None => entry'[q].startup = entry[q].startup
    BY <2>1, <2>2
  <2> QED BY <1>1, <2>3, <2>4, PhaseOwned DEF Phases
<1> QED BY <1>2, <1>3

LEMMA DisposalOwned ==
  ASSUME Ownership, TypeOK', NEW f \in DOMAIN flights, DisposalEnds(f)
  PROVE  Ownership'
<1> DEFINE p == IF PhaseOf(f) = "disposing" THEN "disposed" ELSE "rejected"
<1>1. /\ f \in 1..Len(flights) /\ flights[f].phase # "live" /\ p \in Phases \ {"live"}
      /\ flights' = SetPhase(f, p) /\ UNCHANGED entry
  BY FlightsDomain DEF Ownership, DisposalEnds, PhaseOf, Phases
<1> HIDE DEF p
<1>2. ClaimsAreTrue'
  BY <1>1 DEF Ownership, ClaimsAreTrue, Started
<1> QED BY <1>1, <1>2, PhaseOwned

LEMMA FinalizeOwned ==
  ASSUME Ownership, TypeOK', NEW c \in Callers, caller[c].pc # "idle", Finalize(c)
  PROVE  Ownership'
<1> DEFINE k == KindOf(c)
           e == LastOut(entry[k])
<1>1. k \in Kinds /\ entry \in [Kinds -> Entries]
  BY KindOfType DEF Ownership, TypeOK, EntryTypeOK
<1>2. /\ e \in Entries /\ e.service = entry[k].service /\ e.startup = entry[k].startup
      /\ e.state = entry[k].state
  BY <1>1, LastOutType
<1>3. \/ UNCHANGED <<entry, flights, recomposing>>
      \/ BeginRecompose(k, e)
      \/ entry' = [entry EXCEPT ![k] = e] /\ UNCHANGED <<flights, recomposing>>
  BY DEF Finalize
<1> HIDE DEF k, e
<1>4. CASE UNCHANGED <<entry, flights, recomposing>>
  BY <1>4, ClaimsKept DEF SameClaim
<1>5. CASE BeginRecompose(k, e)
  <2>1. /\ entry'[k] = DisposedEntry(e) /\ \A q \in Kinds \ {k} : entry'[q] = entry[q]
        /\ DisposeServices({e.service})
    BY <1>1, <1>5 DEF BeginRecompose
  <2>2. Released(k)
    BY <1>2, <2>1, DisposedEntryType DEF Released, Started
  <2>3. {entry[q].service : q \in {k}} = {e.service} /\ {k} \in SUBSET Kinds
    BY <1>1, <1>2
  <2> QED BY <2>1, <2>2, <2>3, Retirement DEF SameClaim
<1>6. CASE entry' = [entry EXCEPT ![k] = e] /\ UNCHANGED <<flights, recomposing>>
  BY <1>1, <1>2, <1>6, ClaimsKept DEF SameClaim
<1> QED BY <1>3, <1>4, <1>5, <1>6

LEMMA RetireOwned ==
  ASSUME Ownership, TypeOK',
         Dispose \/ \E new \in [Kinds -> Configs] : ConfigChange(new)
  PROVE  Ownership'
<1>1. EntryTypeOK
  BY DEF Ownership, TypeOK
<1>2. CASE Dispose
  <2>1. \A k \in Kinds : Released(k)
    BY <1>1, <1>2, DisposedEntryType DEF Dispose, Released, EntryTypeOK, Started
  <2>2. DisposeServices({entry[k].service : k \in Kinds})
    BY <1>2 DEF Dispose
  <2> QED BY <2>1, <2>2, Retirement
<1>3. CASE \E new \in [Kinds -> Configs] : ConfigChange(new)
  <2> PICK new \in [Kinds -> Configs] : ConfigChange(new)
    BY <1>3
  <2> DEFINE K == {q \in Kinds : Drains(q, new)}
  <2>1. \A k \in Kinds : entry'[k] = Reconfigured(k, new)
    BY DEF ConfigChange
  <2>2. \A k \in K : Released(k)
    BY <1>1, <2>1, ReconfiguredType DEF Released, Started
  <2>3. \A k \in Kinds \ K : SameClaim(k)
    BY <1>1, <2>1, ReconfiguredType DEF SameClaim
  <2>4. DisposeServices({entry[k].service : k \in K})
    BY DEF ConfigChange
  <2> QED BY <2>2, <2>3, <2>4, Retirement
<1> QED BY <1>2, <1>3

LEMMA OwnershipInit == Init => Ownership
<1> SUFFICES ASSUME Init PROVE Ownership
  OBVIOUS
<1>1. DOMAIN flights = {} /\ \A k \in Kinds : /\ entry[k].service = None
                                              /\ entry[k].startup = None
                                              /\ entry[k].state = "idle"
  BY DEF Init
<1>2. LiveServicesAreOwned /\ ClaimsAreTrue /\ OwnKind
  BY <1>1 DEF LiveServicesAreOwned, ClaimsAreTrue, OwnKind
<1> QED BY <1>2, TypeInit DEF Ownership

LEMMA OwnershipStep == Ownership /\ [Next]_vars => Ownership'
<1> SUFFICES ASSUME Ownership, [Next]_vars PROVE Ownership'
  OBVIOUS
<1>1. TypeOK /\ TypeOK'
  BY TypeStep DEF Ownership
<1>2. CASE UNCHANGED <<entry, flights>>
  BY <1>1, <1>2, ClaimsKept DEF SameClaim
<1>3. ASSUME NEW c \in Callers, NEW k \in Kinds, ServiceStarts(c, k)
      PROVE  Ownership'
  BY <1>1, <1>3, StartOwned
<1>4. ASSUME NEW c \in Callers, OpenSucceeds(c)
      PROVE  Ownership'
  <2>1. KindOf(c) \in Kinds /\ entry \in [Kinds -> Entries]
    BY <1>1, <1>4, KindOfType DEF OpenSucceeds, TypeOK, EntryTypeOK
  <2>2. UNCHANGED flights /\ \A k \in Kinds : SameClaim(k)
    BY <1>4, <2>1 DEF OpenSucceeds, SameClaim, Entries
  <2> QED BY <1>1, <2>2, ClaimsKept
<1>5. ASSUME NEW c \in Callers, SessionEnds(c) \/ CloseReturns(c)
      PROVE  Ownership'
  BY <1>1, <1>5, FinalizeOwned DEF SessionEnds, CloseReturns, IsOpen
<1>6. ASSUME NEW f \in DOMAIN flights, CreateSucceeds(f)
      PROVE  Ownership'
  BY <1>1, <1>6, CreateSucceedsOwned
<1>7. ASSUME NEW f \in DOMAIN flights, CreateFails(f)
      PROVE  Ownership'
  BY <1>1, <1>7, CreateFailsOwned
<1>8. ASSUME NEW f \in DOMAIN flights, DisposeReturns(f) \/ DisposeTimeout(f)
      PROVE  Ownership'
  BY <1>1, <1>8, DisposalOwned DEF DisposeReturns, DisposeTimeout
<1>9. ASSUME NEW r \in recomposing, RecomposeDone(r)
      PROVE  Ownership'
  <2>1. r[1] \in Kinds /\ entry \in [Kinds -> Entries]
    BY <1>1 DEF TypeOK, EntryTypeOK, FlightTypeOK
  <2>2. entry' = [entry EXCEPT ![r[1]] = Recomposed(entry[r[1]], r[1])] /\ UNCHANGED flights
    BY <1>9 DEF RecomposeDone
  <2>3. \A k \in Kinds : SameClaim(k)
    BY <1>1, <2>1, <2>2, RecomposedType DEF SameClaim, TypeOK, EntryTypeOK
  <2> QED BY <1>1, <2>2, <2>3, ClaimsKept
<1>10. CASE Dispose \/ \E new \in [Kinds -> Configs] : ConfigChange(new)
  BY <1>1, <1>10, RetireOwned
<1>11. ASSUME NEW c \in Callers, NEW k \in Kinds,
              ServiceRunning(c, k) \/ ServiceJoins(c, k)
       PROVE  UNCHANGED <<entry, flights>>
  BY <1>11 DEF ServiceRunning, ServiceJoins
<1>12. ASSUME NEW c \in Callers,
              Resume(c) \/ OpenSession(c) \/ OpenRefused(c) \/ OpenFails(c)
       PROVE  UNCHANGED <<entry, flights>>
  BY <1>12 DEF Resume, OpenSession, OpenRefused, OpenFails
<1>13. CASE UNCHANGED vars
  BY <1>2, <1>13 DEF vars
<1> QED BY <1>2, <1>3, <1>4, <1>5, <1>6, <1>7, <1>8, <1>9, <1>10, <1>11, <1>12, <1>13 DEF Next

LEMMA OwnershipHolds == Spec => []Ownership
<1> QED BY OwnershipInit, OwnershipStep, PTL DEF Spec

(* No backend is leaked, for every number of starts: a service that was    *)
(* created and not disposed of is the one its entry holds, and what an     *)
(* entry holds was not disposed of.                                        *)
THEOREM NoBackendLeaked == Spec => []LiveServicesAreOwned
<1>1. Ownership => LiveServicesAreOwned
  BY DEF Ownership
<1> QED BY <1>1, OwnershipHolds, PTL

(* An entry is never running without a service, nor failed or disposed     *)
(* with one: a retired start never speaks for it.                          *)
THEOREM EntriesClaimTheTruth == Spec => []ClaimsAreTrue
<1>1. Ownership => ClaimsAreTrue
  BY DEF Ownership
<1> QED BY <1>1, OwnershipHolds, PTL

(***************************************************************************)
(* Only the continuation of service()'s await gives a waiting consumer a   *)
(* view.                                                                   *)
(***************************************************************************)

LEMMA ReadyByResume ==
  ASSUME TypeOK, [Next]_vars, NEW c \in Callers,
         caller[c].pc = "waiting", caller'[c].pc = "ready"
  PROVE  Resume(c) /\ StillCurrent(c)
<1> DEFINE C == [pc : CallerStates, flight : 0..Len(flights), finalized : BOOLEAN]
<1>1. caller \in [Callers -> C]
  BY DEF TypeOK, CallerTypeOK
<1>2. caller'[c] # caller[c]
  OBVIOUS
<1>3. ASSUME NEW d \in Callers, NEW k \in Kinds,
             ServiceRunning(d, k) \/ ServiceJoins(d, k) \/ ServiceStarts(d, k)
      PROVE  FALSE
  BY <1>1, <1>2, <1>3 DEF ServiceRunning, ServiceJoins, ServiceStarts, Gets
<1>4. ASSUME NEW d \in Callers, Resume(d)
      PROVE  Resume(c) /\ StillCurrent(c)
  <2>1. c = d
    BY <1>1, <1>2, <1>4 DEF Resume, Goes, Leaves
  <2> QED BY <1>1, <1>4, <2>1 DEF Resume, Leaves, NoCall
<1>5. ASSUME NEW d \in Callers,
             \/ OpenSession(d) \/ OpenRefused(d) \/ OpenSucceeds(d) \/ OpenFails(d)
             \/ SessionEnds(d) \/ CloseReturns(d)
      PROVE  FALSE
  <2>1. caller[d].pc # "waiting"
    BY <1>5 DEF OpenSession, OpenRefused, OpenSucceeds, OpenFails, SessionEnds,
                CloseReturns, IsOpen
  <2>2. \E r : caller' = [caller EXCEPT ![d] = r]
    BY <1>5 DEF OpenSession, OpenRefused, OpenSucceeds, OpenFails, SessionEnds,
                CloseReturns, Goes, Leaves
  <2> QED BY <1>1, <1>2, <2>1, <2>2
<1>6. ASSUME NEW f \in DOMAIN flights,
             \/ CreateSucceeds(f) \/ CreateFails(f)
             \/ DisposeReturns(f) \/ DisposeTimeout(f)
      PROVE  FALSE
  BY <1>2, <1>6 DEF CreateSucceeds, CreateFails, DisposeReturns, DisposeTimeout, DisposalEnds
<1>7. ASSUME NEW r \in recomposing, RecomposeDone(r)
      PROVE  FALSE
  BY <1>2, <1>7 DEF RecomposeDone
<1>8. ASSUME NEW new \in [Kinds -> Configs], ConfigChange(new)
      PROVE  FALSE
  BY <1>2, <1>8 DEF ConfigChange
<1>9. CASE Dispose
  BY <1>2, <1>9 DEF Dispose
<1>10. CASE UNCHANGED vars
  BY <1>2, <1>10 DEF vars
<1> QED BY <1>3, <1>4, <1>5, <1>6, <1>7, <1>8, <1>9, <1>10 DEF Next

LEMMA WaiterStep ==
  ASSUME Ownership, [Next]_vars, NEW c \in Callers,
         caller[c].pc = "waiting", caller'[c].pc = "ready"
  PROVE  flights'[caller'[c].flight].phase = "live" /\ ~disposed
<1>1. TypeOK
  BY DEF Ownership
<1>2. Resume(c) /\ StillCurrent(c)
  BY <1>1, ReadyByResume
<1>3. caller[c] \in [pc : CallerStates, flight : 0..Len(flights), finalized : BOOLEAN]
  BY <1>1 DEF TypeOK, CallerTypeOK
<1>4. caller'[c].flight = caller[c].flight /\ UNCHANGED flights
  BY <1>1, <1>2, <1>3 DEF Resume, Goes, TypeOK, CallerTypeOK
<1>5. KindOf(c) \in Kinds
  BY <1>1, KindOfType
<1>6. flights[caller[c].flight].phase = "live" /\ ~disposed
  BY <1>2, <1>5 DEF StillCurrent, Ownership, LiveServicesAreOwned, PhaseOf
<1> QED BY <1>4, <1>6

(* A consumer that awaited a start gets a view of a backend that runs, for *)
(* every number of consumers and starts: what was retired while it waited  *)
(* is refused.                                                             *)
THEOREM WaitersAreServed == Spec => WaitersGetRunningBackends
<1>1. Ownership /\ [Next]_vars
        => [\A c \in Callers :
              caller[c].pc = "waiting" /\ caller'[c].pc = "ready"
                => flights'[caller'[c].flight].phase = "live" /\ ~disposed]_vars
  BY WaiterStep
<1> QED BY <1>1, OwnershipHolds, PTL DEF Spec, WaitersGetRunningBackends

(***************************************************************************)
(* The session count.                                                      *)
(***************************************************************************)

Sessions(k) == {c \in Callers : IsOpen(c) /\ KindOf(c) = k}

Accounting ==
  /\ TypeOK
  /\ \A k \in Kinds : entry[k].count = Cardinality(Sessions(k))
  /\ \A c \in Callers : caller[c].finalized => caller[c].pc = "session"

(* A flight keeps its kind.                                                *)
FlightsPersist ==
  /\ Len(flights') \in Nat /\ Len(flights') >= Len(flights)
  /\ \A f \in 1..Len(flights) : flights'[f].kind = flights[f].kind

LEMMA PersistStep ==
  ASSUME TypeOK, [Next]_vars
  PROVE  FlightsPersist
<1>1. FlightTypeOK /\ DOMAIN flights = 1..Len(flights) /\ Len(flights) \in Nat
      /\ flights \in Seq(Flights)
  BY FlightsDomain DEF TypeOK, FlightTypeOK
<1>2. CASE UNCHANGED flights
  BY <1>1, <1>2 DEF FlightsPersist
<1>3. ASSUME NEW fs, DisposeServices(fs)
      PROVE  FlightsPersist
  BY <1>1, <1>3, DisposeServicesType DEF FlightsPersist
<1>4. ASSUME NEW f \in DOMAIN flights, NEW p \in Phases, flights' = SetPhase(f, p)
      PROVE  FlightsPersist
  BY <1>1, <1>4, SetPhaseType DEF FlightsPersist, SetPhase
<1>5. ASSUME NEW c \in Callers, NEW k \in Kinds, ServiceStarts(c, k)
      PROVE  FlightsPersist
  <2> DEFINE n == [kind |-> k, config |-> config[k], phase |-> "creating"]
  <2>1. flights' = Append(flights, n)
    BY <1>5 DEF ServiceStarts
  <2> HIDE DEF n
  <2> QED BY <1>1, <2>1 DEF FlightsPersist
<1>6. ASSUME NEW c \in Callers, SessionEnds(c) \/ CloseReturns(c)
      PROVE  FlightsPersist
  <2>1. UNCHANGED flights \/ \E fs : DisposeServices(fs)
    BY <1>6 DEF SessionEnds, CloseReturns, Finalize, BeginRecompose
  <2> QED BY <1>2, <1>3, <2>1
<1>7. ASSUME NEW f \in DOMAIN flights,
             \/ CreateSucceeds(f) \/ CreateFails(f)
             \/ DisposeReturns(f) \/ DisposeTimeout(f)
      PROVE  FlightsPersist
  <2>1. \E p \in Phases : flights' = SetPhase(f, p)
    BY <1>7 DEF CreateSucceeds, CreateFails, DisposeReturns, DisposeTimeout, DisposalEnds, Phases
  <2> QED BY <1>4, <2>1
<1>8. ASSUME NEW new \in [Kinds -> Configs], ConfigChange(new)
      PROVE  FlightsPersist
  BY <1>3, <1>8 DEF ConfigChange
<1>9. CASE Dispose
  BY <1>3, <1>9 DEF Dispose
<1>10. ASSUME NEW c \in Callers, NEW k \in Kinds,
              ServiceRunning(c, k) \/ ServiceJoins(c, k)
       PROVE  UNCHANGED flights
  BY <1>10 DEF ServiceRunning, ServiceJoins
<1>11. ASSUME NEW c \in Callers,
              \/ Resume(c) \/ OpenSession(c) \/ OpenRefused(c)
              \/ OpenSucceeds(c) \/ OpenFails(c)
       PROVE  UNCHANGED flights
  BY <1>11 DEF Resume, OpenSession, OpenRefused, OpenSucceeds, OpenFails
<1>12. ASSUME NEW r \in recomposing, RecomposeDone(r)
       PROVE  UNCHANGED flights
  BY <1>12 DEF RecomposeDone
<1>13. CASE UNCHANGED vars
  BY <1>2, <1>13 DEF vars
<1> QED BY <1>2, <1>5, <1>6, <1>7, <1>8, <1>9, <1>10, <1>11, <1>12, <1>13 DEF Next

(* A consumer whose call a step leaves alone keeps the kind of its flight. *)
LEMMA KindKept ==
  ASSUME TypeOK, FlightsPersist, NEW c \in Callers, caller[c].pc # "idle",
         caller'[c].flight = caller[c].flight
  PROVE  KindOf(c)' = KindOf(c)
<1>1. caller[c].flight \in 1..Len(flights)
  BY KindOfType
<1> QED BY <1>1 DEF KindOf, FlightsPersist

(* A step after which the same sessions are open.                          *)
LEMMA CountKept ==
  ASSUME Accounting, TypeOK', FlightsPersist,
         \A k \in Kinds : entry'[k].count = entry[k].count,
         \A c \in Callers : \/ UNCHANGED caller[c]
                            \/ ~IsOpen(c) /\ ~IsOpen(c)' /\ ~caller'[c].finalized
  PROVE  Accounting'
<1>1. TypeOK
  BY DEF Accounting
<1>2. \A c \in Callers : /\ IsOpen(c)' <=> IsOpen(c)
                         /\ IsOpen(c) => KindOf(c)' = KindOf(c)
  BY <1>1, KindKept DEF IsOpen
<1>3. \A k \in Kinds : Sessions(k)' = Sessions(k)
  BY <1>2 DEF Sessions
<1>4. \A c \in Callers : caller'[c].finalized => caller'[c].pc = "session"
  BY DEF Accounting
<1> QED BY <1>3, <1>4 DEF Accounting

LEMMA SessionsFinite ==
  ASSUME NEW k
  PROVE  IsFiniteSet(Sessions(k)) /\ Cardinality(Sessions(k)) \in Nat
<1>1. IsFiniteSet(Callers)
  BY RegistryAssumption DEF RegistryAssumption
<1>2. Sessions(k) \in SUBSET Callers
  BY DEF Sessions
<1> QED BY <1>1, <1>2, FS_Subset, FS_CardinalityType

LEMMA OpenCounts ==
  ASSUME Accounting, TypeOK', FlightsPersist, NEW c \in Callers, OpenSucceeds(c)
  PROVE  Accounting'
<1>1. TypeOK /\ caller[c].pc = "opening" /\ ~caller[c].finalized
  BY DEF Accounting, OpenSucceeds
<1> PICK k \in Kinds : k = KindOf(c)
  BY <1>1, KindOfType
<1>2. /\ entry \in [Kinds -> Entries] /\ entry[k] \in Entries
      /\ caller \in [Callers -> [pc : CallerStates, flight : 0..Len(flights),
                                 finalized : BOOLEAN]]
  BY <1>1 DEF TypeOK, EntryTypeOK, CallerTypeOK
<1>3. /\ entry'[k].count = entry[k].count + 1
      /\ \A q \in Kinds \ {k} : entry'[q].count = entry[q].count
  BY <1>2 DEF OpenSucceeds, Entries
<1>4. /\ caller'[c].pc = "session" /\ ~caller'[c].finalized
      /\ caller'[c].flight = caller[c].flight
      /\ \A d \in Callers \ {c} : caller'[d] = caller[d]
  BY <1>1, <1>2 DEF OpenSucceeds, Goes
<1>5. /\ IsOpen(c)' /\ ~IsOpen(c) /\ KindOf(c)' = k
      /\ \A d \in Callers \ {c} : /\ IsOpen(d)' <=> IsOpen(d)
                                  /\ IsOpen(d) => KindOf(d)' = KindOf(d)
  BY <1>1, <1>4, KindKept DEF IsOpen
<1>6. /\ Sessions(k)' = Sessions(k) \cup {c} /\ c \notin Sessions(k)
      /\ \A q \in Kinds \ {k} : Sessions(q)' = Sessions(q)
  BY <1>5 DEF Sessions
<1>7. Cardinality(Sessions(k)') = Cardinality(Sessions(k)) + 1
  BY <1>6, SessionsFinite, FS_AddElement
<1>8. \A q \in Kinds : entry'[q].count = Cardinality(Sessions(q)')
  BY <1>2, <1>3, <1>6, <1>7 DEF Accounting
<1>9. \A d \in Callers : caller'[d].finalized => caller'[d].pc = "session"
  BY <1>4 DEF Accounting
<1> QED BY <1>8, <1>9 DEF Accounting

(* What finalize does to the counts.                                       *)
LEMMA FinalizeCounts ==
  ASSUME TypeOK, NEW c \in Callers, caller[c].pc # "idle", Finalize(c)
  PROVE  /\ caller[c].finalized => UNCHANGED entry
         /\ ~caller[c].finalized =>
              /\ entry'[KindOf(c)].count = IF entry[KindOf(c)].count > 0
                                             THEN entry[KindOf(c)].count - 1 ELSE 0
              /\ \A q \in Kinds \ {KindOf(c)} : entry'[q] = entry[q]
<1> DEFINE k == KindOf(c)
           e == LastOut(entry[k])
<1>1. k \in Kinds /\ entry \in [Kinds -> Entries] /\ entry[k] \in Entries
  BY KindOfType DEF TypeOK, EntryTypeOK
<1>2. e \in Entries /\ e.count = IF entry[k].count > 0 THEN entry[k].count - 1 ELSE 0
  BY <1>1, LastOutType
<1>3. DisposedEntry(e).count = e.count
  BY <1>2, DisposedEntryType
<1>4. caller[c].finalized => UNCHANGED entry
  BY DEF Finalize
<1>5. ~caller[c].finalized => \E x \in {e, DisposedEntry(e)} : entry' = [entry EXCEPT ![k] = x]
  BY DEF Finalize, BeginRecompose
<1> HIDE DEF k, e
<1>6. ~caller[c].finalized => /\ entry'[k].count = e.count
                              /\ \A q \in Kinds \ {k} : entry'[q] = entry[q]
  BY <1>1, <1>3, <1>5
<1> QED BY <1>2, <1>4, <1>6 DEF k

LEMMA EndCounts ==
  ASSUME Accounting, TypeOK', FlightsPersist, NEW c \in Callers,
         SessionEnds(c) \/ CloseReturns(c)
  PROVE  Accounting'
<1>1. TypeOK /\ caller[c].pc = "session" /\ Finalize(c)
  BY DEF Accounting, SessionEnds, CloseReturns, IsOpen
<1> PICK k \in Kinds : k = KindOf(c)
  BY <1>1, KindOfType
<1>2. caller \in [Callers -> [pc : CallerStates, flight : 0..Len(flights),
                              finalized : BOOLEAN]]
  BY <1>1 DEF TypeOK, CallerTypeOK
<1>3. /\ \A d \in Callers \ {c} : caller'[d] = caller[d]
      /\ ~IsOpen(c)' /\ (caller'[c].finalized => caller'[c].pc = "session")
  BY <1>1, <1>2 DEF SessionEnds, CloseReturns, Leaves, NoCall, IsOpen
<1>4. \A d \in Callers \ {c} : /\ IsOpen(d)' <=> IsOpen(d)
                               /\ IsOpen(d) => KindOf(d)' = KindOf(d)
  BY <1>1, <1>3, KindKept DEF IsOpen
<1>5. \A d \in Callers : caller'[d].finalized => caller'[d].pc = "session"
  BY <1>3 DEF Accounting
<1>6. CASE caller[c].finalized
  <2>1. \A q \in Kinds : Sessions(q)' = Sessions(q)
    BY <1>3, <1>4, <1>6 DEF Sessions, IsOpen
  <2>2. UNCHANGED entry
    BY <1>1, <1>6, FinalizeCounts
  <2> QED BY <1>5, <2>1, <2>2 DEF Accounting
<1>7. CASE ~caller[c].finalized
  <2>1. IsOpen(c) /\ c \in Sessions(k)
    BY <1>1, <1>7 DEF IsOpen, Sessions
  <2>2. Sessions(k)' = Sessions(k) \ {c} /\ \A q \in Kinds \ {k} : Sessions(q)' = Sessions(q)
    BY <1>3, <1>4 DEF Sessions
  <2>3. Cardinality(Sessions(k)') = Cardinality(Sessions(k)) - 1
        /\ Cardinality(Sessions(k)) \in Nat /\ Cardinality(Sessions(k)') \in Nat
    <3>1. IsFiniteSet(Sessions(k)) /\ Cardinality(Sessions(k)) \in Nat
      BY SessionsFinite
    <3>2. /\ IsFiniteSet(Sessions(k) \ {c})
          /\ Cardinality(Sessions(k) \ {c}) = Cardinality(Sessions(k)) - 1
      BY <2>1, <3>1, FS_RemoveElement
    <3> QED BY <2>2, <3>1, <3>2, FS_CardinalityType
  <2>4. entry[k].count = Cardinality(Sessions(k))
    BY <1>2 DEF Accounting
  <2>5. /\ entry'[k].count = IF entry[k].count > 0 THEN entry[k].count - 1 ELSE 0
        /\ \A q \in Kinds \ {k} : entry'[q] = entry[q]
    BY <1>1, <1>7, FinalizeCounts
  <2>6. entry'[k].count = Cardinality(Sessions(k)')
    BY <2>3, <2>4, <2>5
  <2>7. \A q \in Kinds : entry'[q].count = Cardinality(Sessions(q)')
    BY <2>2, <2>5, <2>6 DEF Accounting
  <2> QED BY <1>5, <2>7 DEF Accounting
<1> QED BY <1>6, <1>7

LEMMA AccountingInit == Init => Accounting
<1> SUFFICES ASSUME Init PROVE Accounting
  OBVIOUS
<1>1. \A c \in Callers : caller[c].pc = "idle" /\ ~caller[c].finalized
  BY DEF Init, NoCall
<1>2. \A k \in Kinds : Sessions(k) = {} /\ entry[k].count = 0
  BY <1>1 DEF Init, Sessions, IsOpen
<1>3. \A k \in Kinds : entry[k].count = Cardinality(Sessions(k))
  BY <1>2, FS_EmptySet
<1> QED BY <1>1, <1>3, TypeInit DEF Accounting

(* A step of a consumer that has no session before it nor after.           *)
LEMMA NoSessionMoves ==
  ASSUME Accounting, TypeOK', FlightsPersist, NEW c \in Callers,
         NEW r, caller' = [caller EXCEPT ![c] = r], ~caller'[c].finalized,
         caller[c].pc # "session", caller'[c].pc # "session",
         \A k \in Kinds : entry'[k].count = entry[k].count
  PROVE  Accounting'
<1>1. DOMAIN caller = Callers
  BY DEF Accounting, TypeOK, CallerTypeOK
<1>2. \A d \in Callers \ {c} : caller'[d] = caller[d]
  BY <1>1
<1>3. ~IsOpen(c) /\ ~IsOpen(c)'
  BY DEF IsOpen
<1> QED BY <1>2, <1>3, CountKept

LEMMA AccountingStep == Accounting /\ [Next]_vars => Accounting'
<1> SUFFICES ASSUME Accounting, [Next]_vars PROVE Accounting'
  OBVIOUS
<1>1. /\ TypeOK /\ TypeOK' /\ FlightsPersist /\ EntryTypeOK
      /\ entry \in [Kinds -> Entries] /\ DOMAIN flights = 1..Len(flights)
  BY TypeStep, PersistStep, FlightsDomain DEF Accounting, TypeOK, EntryTypeOK
<1>2. caller \in [Callers -> [pc : CallerStates, flight : 0..Len(flights),
                              finalized : BOOLEAN]]
  BY <1>1 DEF TypeOK, CallerTypeOK
<1>3. ASSUME UNCHANGED caller, \A k \in Kinds : entry'[k].count = entry[k].count
      PROVE  Accounting'
  BY <1>1, <1>3, CountKept
<1>4. ASSUME NEW c \in Callers, NEW k \in Kinds,
             ServiceRunning(c, k) \/ ServiceJoins(c, k) \/ ServiceStarts(c, k)
      PROVE  Accounting'
  <2>0. PICK pc \in {"ready", "waiting"} : \E f : Gets(c, pc, f)
    BY <1>4 DEF ServiceRunning, ServiceJoins, ServiceStarts
  <2>1. PICK f : Gets(c, pc, f)
    BY <2>0
  <2> DEFINE r == [pc |-> pc, flight |-> f, finalized |-> FALSE]
  <2>2. caller' = [caller EXCEPT ![c] = r] /\ caller'[c] = r /\ caller[c].pc # "session"
    BY <1>2, <1>4, <2>1 DEF Gets, ServiceRunning, ServiceJoins, ServiceStarts
  <2>3. r.pc # "session" /\ ~r.finalized
    OBVIOUS
  <2>4. \A q \in Kinds : entry'[q].count = entry[q].count
    <3>1. CASE ServiceRunning(c, k) \/ ServiceJoins(c, k)
      BY <3>1 DEF ServiceRunning, ServiceJoins
    <3>2. CASE ServiceStarts(c, k)
      <4>1. /\ entry'[k].count = entry[k].count
            /\ \A q \in Kinds \ {k} : entry'[q] = entry[q]
        BY <1>1, <3>2 DEF ServiceStarts, Entries
      <4> QED BY <4>1
    <3> QED BY <1>4, <3>1, <3>2
  <2> HIDE DEF r
  <2> QED BY <1>1, <2>2, <2>3, <2>4, NoSessionMoves
<1>5. ASSUME NEW c \in Callers,
             Resume(c) \/ OpenSession(c) \/ OpenRefused(c) \/ OpenFails(c)
      PROVE  Accounting'
  <2>1. /\ caller[c].pc # "session" /\ ~caller[c].finalized /\ UNCHANGED entry
        /\ Leaves(c) \/ \E pc \in {"ready", "opening"} : Goes(c, pc)
    BY <1>5 DEF Resume, OpenSession, OpenRefused, OpenFails, Accounting
  <2>2. PICK r : /\ caller' = [caller EXCEPT ![c] = r]
                 /\ ~r.finalized /\ r.pc # "session"
    <3>1. CASE Leaves(c)
      <4>1. ~NoCall.finalized /\ NoCall.pc # "session"
        BY DEF NoCall
      <4> QED BY <3>1, <4>1 DEF Leaves
    <3>2. ASSUME NEW pc \in {"ready", "opening"}, Goes(c, pc)
          PROVE  \E r : /\ caller' = [caller EXCEPT ![c] = r]
                        /\ ~r.finalized /\ r.pc # "session"
      <4> DEFINE r == [caller[c] EXCEPT !.pc = pc]
      <4>1. caller' = [caller EXCEPT ![c] = r]
        BY <3>2 DEF Goes
      <4>2. ~r.finalized /\ r.pc # "session"
        BY <1>2, <2>1
      <4> QED BY <4>1, <4>2
    <3> QED BY <2>1, <3>1, <3>2
  <2>3. caller'[c] = r
    BY <1>2, <2>2
  <2> QED BY <1>1, <2>1, <2>2, <2>3, NoSessionMoves
<1>6. ASSUME NEW c \in Callers, OpenSucceeds(c)
      PROVE  Accounting'
  BY <1>1, <1>6, OpenCounts
<1>7. ASSUME NEW c \in Callers, SessionEnds(c) \/ CloseReturns(c)
      PROVE  Accounting'
  BY <1>1, <1>7, EndCounts
<1>8. ASSUME NEW f \in DOMAIN flights,
             \/ CreateSucceeds(f) \/ CreateFails(f)
             \/ DisposeReturns(f) \/ DisposeTimeout(f)
      PROVE  Accounting'
  <2>1. UNCHANGED caller
    BY <1>8 DEF CreateSucceeds, CreateFails, DisposeReturns, DisposeTimeout, DisposalEnds
  <2>2. \A k \in Kinds : entry'[k].count = entry[k].count
    <3>1. f \in 1..Len(flights) /\ flights[f].kind \in Kinds
      BY <1>1, FlightType DEF TypeOK
    <3>2. \/ UNCHANGED entry
          \/ /\ entry'[flights[f].kind].count = entry[flights[f].kind].count
             /\ \A q \in Kinds \ {flights[f].kind} : entry'[q] = entry[q]
      <4>1. CASE CreateSucceeds(f)
        BY <1>1, <3>1, <4>1 DEF CreateSucceeds, Entries
      <4>2. CASE CreateFails(f)
        BY <1>1, <3>1, <4>2 DEF CreateFails, Entries
      <4> QED BY <1>8, <4>1, <4>2 DEF DisposeReturns, DisposeTimeout, DisposalEnds
    <3> QED BY <3>2
  <2> QED BY <1>3, <2>1, <2>2
<1>9. ASSUME NEW r \in recomposing, RecomposeDone(r)
      PROVE  Accounting'
  <2>1. r[1] \in Kinds
    BY <1>1 DEF TypeOK, FlightTypeOK
  <2>2. UNCHANGED caller /\ entry' = [entry EXCEPT ![r[1]] = Recomposed(entry[r[1]], r[1])]
    BY <1>9 DEF RecomposeDone
  <2>3. \A k \in Kinds : entry'[k].count = entry[k].count
    BY <1>1, <2>1, <2>2, RecomposedType DEF EntryTypeOK
  <2> QED BY <1>3, <2>2, <2>3
<1>10. ASSUME NEW new \in [Kinds -> Configs], ConfigChange(new)
       PROVE  Accounting'
  BY <1>1, <1>3, <1>10, ReconfiguredType DEF ConfigChange
<1>11. CASE Dispose
  BY <1>1, <1>3, <1>11, DisposedEntryType DEF Dispose
<1>12. CASE UNCHANGED vars
  BY <1>3, <1>12 DEF vars
<1> QED BY <1>4, <1>5, <1>6, <1>7, <1>8, <1>9, <1>10, <1>11, <1>12 DEF Next

LEMMA AccountingHolds == Spec => []Accounting
<1> QED BY AccountingInit, AccountingStep, PTL DEF Spec

(* The count that decides between swapping a changed backend now and later *)
(* is the number of sessions open on the kind, for every number of         *)
(* consumers.                                                              *)
THEOREM SessionsAreCounted == Spec => []SessionAccounting
<1>1. Accounting => SessionAccounting
  BY DEF Accounting, SessionAccounting, Sessions
<1> QED BY <1>1, AccountingHolds, PTL

(***************************************************************************)
(* Changed settings spare open sessions.                                   *)
(***************************************************************************)

(* A session open before and after a step is the same session.             *)
LEMMA OpenStaysPut ==
  ASSUME Accounting, [Next]_vars, NEW c \in Callers, IsOpen(c), IsOpen(c)'
  PROVE  /\ caller'[c] = caller[c]
         /\ ~SessionEnds(c) /\ ~CloseReturns(c)
<1>1. caller \in [Callers -> [pc : CallerStates, flight : 0..Len(flights),
                              finalized : BOOLEAN]]
  BY DEF Accounting, TypeOK, CallerTypeOK
<1>2. caller[c].pc = "session" /\ caller'[c].pc = "session" /\ ~caller'[c].finalized
  BY DEF IsOpen
<1>3. ~SessionEnds(c)
  BY <1>1, <1>2 DEF SessionEnds
<1>4. ~CloseReturns(c)
  BY <1>1, <1>2 DEF CloseReturns, Leaves, NoCall
<1>5. ASSUME NEW d \in Callers,
             \/ \E k \in Kinds : \/ ServiceRunning(d, k) \/ ServiceJoins(d, k)
                                 \/ ServiceStarts(d, k)
             \/ Resume(d) \/ OpenSession(d) \/ OpenRefused(d)
             \/ OpenSucceeds(d) \/ OpenFails(d)
      PROVE  caller'[c] = caller[c]
  <2>1. d # c
    BY <1>2, <1>5 DEF ServiceRunning, ServiceJoins, ServiceStarts, Resume, OpenSession,
                      OpenRefused, OpenSucceeds, OpenFails
  <2>2. \E r : caller' = [caller EXCEPT ![d] = r]
    BY <1>5 DEF ServiceRunning, ServiceJoins, ServiceStarts, Resume, OpenSession,
                OpenRefused, OpenSucceeds, OpenFails, Gets, Goes, Leaves
  <2> QED BY <1>1, <2>1, <2>2
<1>6. ASSUME NEW d \in Callers, SessionEnds(d) \/ CloseReturns(d)
      PROVE  caller'[c] = caller[c]
  <2>1. d # c
    BY <1>3, <1>4, <1>6
  <2>2. \E r : caller' = [caller EXCEPT ![d] = r]
    BY <1>6 DEF SessionEnds, CloseReturns, Leaves
  <2> QED BY <1>1, <2>1, <2>2
<1>7. UNCHANGED caller => caller'[c] = caller[c]
  OBVIOUS
<1>8. ASSUME NEW f \in DOMAIN flights,
             \/ CreateSucceeds(f) \/ CreateFails(f)
             \/ DisposeReturns(f) \/ DisposeTimeout(f)
      PROVE  UNCHANGED caller
  BY <1>8 DEF CreateSucceeds, CreateFails, DisposeReturns, DisposeTimeout, DisposalEnds
<1>9. ASSUME NEW r \in recomposing, RecomposeDone(r)
      PROVE  UNCHANGED caller
  BY <1>9 DEF RecomposeDone
<1>10. ASSUME NEW new \in [Kinds -> Configs], ConfigChange(new)
       PROVE  UNCHANGED caller
  BY <1>10 DEF ConfigChange
<1>11. Dispose => UNCHANGED caller
  BY DEF Dispose
<1>12. UNCHANGED vars => UNCHANGED caller
  BY DEF vars
<1>13. caller'[c] = caller[c]
  BY <1>5, <1>6, <1>7, <1>8, <1>9, <1>10, <1>11, <1>12 DEF Next
<1> QED BY <1>3, <1>4, <1>13

(* Disposing of the services of kinds without c's does not touch c's.      *)
LEMMA OtherServicesDisposed ==
  ASSUME Ownership, NEW K \in SUBSET Kinds,
         DisposeServices({entry[k].service : k \in K}),
         NEW f \in 1..Len(flights), flights[f].kind \notin K
  PROVE  flights'[f].phase = flights[f].phase
<1> DEFINE fs == {entry[k].service : k \in K}
<1>1. f \notin fs
  BY DEF Ownership, OwnKind, None
<1> HIDE DEF fs
<1> QED BY <1>1, DisposeServicesType DEF Ownership, TypeOK, fs

LEMMA SwapStep ==
  ASSUME Ownership, Accounting, [Next]_vars, NEW c \in Callers,
         IsOpen(c), IsOpen(c)', flights[caller[c].flight].phase = "live", ~disposed'
  PROVE  flights'[caller'[c].flight].phase = "live"
<1>1. /\ TypeOK /\ FlightTypeOK /\ EntryTypeOK /\ caller[c].pc # "idle"
      /\ caller'[c] = caller[c] /\ ~SessionEnds(c) /\ ~CloseReturns(c)
      /\ DOMAIN flights = 1..Len(flights)
  BY OpenStaysPut, FlightsDomain DEF Ownership, TypeOK, IsOpen
<1> PICK f \in 1..Len(flights) : f = caller[c].flight
  BY <1>1, KindOfType
<1> PICK k \in Kinds : k = KindOf(c)
  BY <1>1, KindOfType
<1>2. flights[f].kind = k /\ flights[f].phase = "live"
  BY DEF KindOf
<1> SUFFICES flights'[f].phase = "live"
  BY <1>1
<1>3. entry[k].count = Cardinality(Sessions(k)) /\ c \in Sessions(k) /\ IsFiniteSet(Sessions(k))
  BY SessionsFinite DEF Accounting, Sessions
<1>4. Cardinality(Sessions(k)) \in Nat /\ entry[k].count # 0
  BY <1>3, FS_EmptySet, SessionsFinite
<1>5. CASE UNCHANGED flights
  BY <1>2, <1>5
<1>6. ASSUME NEW d \in Callers, NEW q \in Kinds, ServiceStarts(d, q)
      PROVE  flights'[f].phase = "live"
  <2> DEFINE n == [kind |-> q, config |-> config[q], phase |-> "creating"]
  <2>1. flights' = Append(flights, n) /\ flights \in Seq(Flights)
    BY <1>1, <1>6 DEF ServiceStarts, FlightTypeOK
  <2> HIDE DEF n
  <2> QED BY <1>2, <2>1
<1>7. ASSUME NEW g \in DOMAIN flights,
             \/ CreateSucceeds(g) \/ CreateFails(g)
             \/ DisposeReturns(g) \/ DisposeTimeout(g)
      PROVE  flights'[f].phase = "live"
  <2>1. g # f /\ \E p : flights' = SetPhase(g, p)
    BY <1>2, <1>7 DEF CreateSucceeds, CreateFails, DisposeReturns, DisposeTimeout,
                      DisposalEnds, PhaseOf
  <2> QED BY <1>1, <1>2, <2>1 DEF SetPhase
<1>8. ASSUME NEW new \in [Kinds -> Configs], ConfigChange(new)
      PROVE  flights'[f].phase = "live"
  <2> DEFINE K == {q \in Kinds : Drains(q, new)}
  <2>1. k \notin K
    BY <1>4 DEF Drains
  <2>2. DisposeServices({entry[q].service : q \in K})
    BY <1>8 DEF ConfigChange
  <2> QED BY <1>2, <2>1, <2>2, OtherServicesDisposed
<1>9. ASSUME NEW d \in Callers, SessionEnds(d) \/ CloseReturns(d)
      PROVE  flights'[f].phase = "live"
  <2>1. d # c /\ caller[d].pc # "idle" /\ Finalize(d)
    BY <1>1, <1>9 DEF SessionEnds, CloseReturns, IsOpen
  <2> PICK q \in Kinds : q = KindOf(d)
    BY <1>1, <2>1, KindOfType
  <2> DEFINE e == LastOut(entry[q])
  <2>2. entry[q] \in Entries
    BY <1>1 DEF EntryTypeOK
  <2>3. e.count = (IF entry[q].count > 0 THEN entry[q].count - 1 ELSE 0)
        /\ e.service = entry[q].service
    BY <2>2, LastOutType
  <2>4. CASE UNCHANGED flights
    BY <1>5, <2>4
  <2>5. CASE ~caller[d].finalized /\ e.count = 0 /\ BeginRecompose(q, e)
    <3>1. q # k
      <4>1. SUFFICES ASSUME q = k PROVE FALSE
        OBVIOUS
      <4>2. d \in Sessions(k)
        BY <1>9, <2>5, <4>1 DEF SessionEnds, CloseReturns, Sessions, IsOpen
      <4>3. /\ IsFiniteSet(Sessions(k) \ {c}) /\ d \in Sessions(k) \ {c}
            /\ Cardinality(Sessions(k) \ {c}) = Cardinality(Sessions(k)) - 1
        BY <1>3, <2>1, <4>2, FS_RemoveElement
      <4>4. Cardinality(Sessions(k) \ {c}) # 0 /\ Cardinality(Sessions(k) \ {c}) \in Nat
        BY <4>3, FS_EmptySet, FS_CardinalityType
      <4>5. entry[k].count = 1
        BY <1>3, <1>4, <2>3, <2>5, <4>1
      <4> QED BY <1>3, <4>3, <4>4, <4>5
    <3>2. DisposeServices({entry[p].service : p \in {q}})
      <4>1. {entry[p].service : p \in {q}} = {e.service}
        BY <2>3
      <4> QED BY <2>5, <4>1 DEF BeginRecompose
    <3> HIDE DEF e
    <3>3. {q} \in SUBSET Kinds /\ flights[f].kind \notin {q}
      BY <1>2, <3>1
    <3> QED BY <1>2, <3>2, <3>3, OtherServicesDisposed
  <2> QED BY <2>1, <2>4, <2>5 DEF Finalize
<1>10. ASSUME NEW d \in Callers, NEW q \in Kinds,
              ServiceRunning(d, q) \/ ServiceJoins(d, q)
       PROVE  UNCHANGED flights
  BY <1>10 DEF ServiceRunning, ServiceJoins
<1>11. ASSUME NEW d \in Callers,
              \/ Resume(d) \/ OpenSession(d) \/ OpenRefused(d)
              \/ OpenSucceeds(d) \/ OpenFails(d)
       PROVE  UNCHANGED flights
  BY <1>11 DEF Resume, OpenSession, OpenRefused, OpenSucceeds, OpenFails
<1>12. ASSUME NEW r \in recomposing, RecomposeDone(r)
       PROVE  UNCHANGED flights
  BY <1>12 DEF RecomposeDone
<1>13. ~Dispose
  BY DEF Dispose
<1>14. CASE UNCHANGED vars
  BY <1>5, <1>14 DEF vars
<1> QED BY <1>5, <1>6, <1>7, <1>8, <1>9, <1>10, <1>11, <1>12, <1>13, <1>14 DEF Next

(* A change of settings never takes the backend from under an open         *)
(* session, for every number of kinds, consumers and sessions: it waits    *)
(* until the count, which is exact, is zero.                               *)
THEOREM SwapsWaitForSessions == Spec => SwapSparesSessions
<1>1. Ownership /\ Accounting /\ [Next]_vars
        => [\A c \in Callers :
              IsOpen(c) /\ IsOpen(c)' /\ PhaseOf(caller[c].flight) = "live" /\ ~disposed'
                => PhaseOf(caller[c].flight)' = "live"]_vars
  BY SwapStep DEF PhaseOf
<1> QED BY <1>1, OwnershipHolds, AccountingHolds, PTL DEF Spec, SwapSparesSessions
=============================================================================
