----------------------- MODULE DataPlaneRegistry_types -----------------------
(***************************************************************************)
(* Type correctness of the registry of backends, for every number of       *)
(* kinds, consumers, settings and starts.                                  *)
(***************************************************************************)
EXTENDS DataPlaneRegistry, TLAPS

(***************************************************************************)
(* Entries and flights.                                                    *)
(***************************************************************************)

LEMMA DisposedEntryType ==
  ASSUME NEW e \in Entries
  PROVE  /\ DisposedEntry(e) \in Entries
         /\ ~Started(DisposedEntry(e))
         /\ DisposedEntry(e).count = e.count
         /\ DisposedEntry(e).stale = e.stale
         /\ DisposedEntry(e).state \in {"failed", "disposed"}
<1> USE RegistryAssumption DEF RegistryAssumption
<1>1. [e EXCEPT !.service = None] \in Entries
  BY DEF Entries, None
<1> DEFINE e1 == [e EXCEPT !.service = None]
<1>2. [e1 EXCEPT !.startup = None] \in Entries
  BY <1>1 DEF Entries, None
<1> DEFINE e2 == [e1 EXCEPT !.startup = None]
<1>3. [e2 EXCEPT !.state = IF @ = "failed" THEN @ ELSE "disposed"] \in Entries
  BY <1>2 DEF Entries, EntryStates
<1>4. DisposedEntry(e) = [e2 EXCEPT !.state = IF @ = "failed" THEN @ ELSE "disposed"]
  BY DEF DisposedEntry, Entries
<1> QED BY <1>3, <1>4 DEF DisposedEntry, Started, Entries, None

LEMMA LastOutType ==
  ASSUME NEW e \in Entries
  PROVE  /\ LastOut(e) \in Entries
         /\ LastOut(e).count = IF e.count > 0 THEN e.count - 1 ELSE 0
         /\ LastOut(e).service = e.service /\ LastOut(e).startup = e.startup
         /\ LastOut(e).state = e.state
BY DEF LastOut, Entries

LEMMA RecomposedType ==
  ASSUME NEW e \in Entries, NEW k \in Kinds, config \in [Kinds -> Configs]
  PROVE  /\ Recomposed(e, k) \in Entries
         /\ Recomposed(e, k).count = e.count
         /\ Recomposed(e, k).service = e.service /\ Recomposed(e, k).startup = e.startup
         /\ Recomposed(e, k).state = "idle"
<1>1. [e EXCEPT !.state = "idle"] \in Entries
  BY DEF Entries, EntryStates
<1> DEFINE e1 == [e EXCEPT !.state = "idle"]
<1>2. [e1 EXCEPT !.fingerprint = config[k]] \in Entries
  BY <1>1 DEF Entries
<1> DEFINE e2 == [e1 EXCEPT !.fingerprint = config[k]]
<1>3. [e2 EXCEPT !.stale = FALSE] \in Entries
  BY <1>2 DEF Entries
<1>4. Recomposed(e, k) = [e2 EXCEPT !.stale = FALSE]
  BY DEF Recomposed, Entries
<1> QED BY <1>3, <1>4 DEF Recomposed, Entries

(* Disposing of services changes the phase of flights and nothing else.    *)
LEMMA DisposeServicesType ==
  ASSUME FlightTypeOK, NEW fs, DisposeServices(fs)
  PROVE  /\ flights' \in Seq(Flights) /\ Len(flights') = Len(flights)
         /\ \A f \in 1..Len(flights) :
              /\ flights'[f].kind = flights[f].kind
              /\ flights'[f].config = flights[f].config
              /\ flights'[f].phase = IF f \in fs THEN "disposing" ELSE flights[f].phase
<1>1. DOMAIN flights = 1..Len(flights) /\ Len(flights) \in Nat
  BY DEF FlightTypeOK
<1>2. \A f \in 1..Len(flights) : flights[f] \in Flights
  BY DEF FlightTypeOK
<1>3. \A f \in 1..Len(flights) : flights'[f] \in Flights
  BY <1>1, <1>2 DEF DisposeServices, Flights, Phases
<1>4. flights' \in [1..Len(flights) -> Flights]
  BY <1>1, <1>3 DEF DisposeServices
<1> QED BY <1>1, <1>2, <1>4 DEF DisposeServices, Flights

LEMMA SetPhaseType ==
  ASSUME FlightTypeOK, NEW f \in 1..Len(flights), NEW p \in Phases,
         flights' = SetPhase(f, p)
  PROVE  /\ flights' \in Seq(Flights) /\ Len(flights') = Len(flights)
         /\ \A g \in 1..Len(flights) :
              /\ flights'[g].kind = flights[g].kind
              /\ flights'[g].config = flights[g].config
              /\ flights'[g].phase = IF g = f THEN p ELSE flights[g].phase
<1>1. \A g \in 1..Len(flights) : flights[g] \in Flights
  BY DEF FlightTypeOK
<1>2. [flights[f] EXCEPT !.phase = p] \in Flights
  BY <1>1 DEF Flights
<1>3. flights' = [flights EXCEPT ![f] = [flights[f] EXCEPT !.phase = p]]
  BY DEF SetPhase
<1> HIDE DEF SetPhase
<1> QED BY <1>1, <1>2, <1>3 DEF FlightTypeOK, Flights

(***************************************************************************)
(* Types.  First what each part of a step does to the part of the state it *)
(* writes, then one step per action.                                       *)
(***************************************************************************)

LEMMA FlightType ==
  ASSUME FlightTypeOK, NEW f \in 1..Len(flights)
  PROVE  flights[f] \in Flights /\ flights[f].kind \in Kinds /\ flights[f].phase \in Phases
<1>1. flights[f] \in Flights
  BY DEF FlightTypeOK
<1> QED BY <1>1 DEF Flights

(* A consumer beyond "idle" names a flight, and so a kind of backend.      *)
LEMMA KindOfType ==
  ASSUME TypeOK, NEW c \in Callers, caller[c].pc # "idle"
  PROVE  /\ caller[c].flight \in 1..Len(flights)
         /\ KindOf(c) \in Kinds
<1>1. caller[c].flight \in 1..Len(flights)
  BY DEF TypeOK, CallerTypeOK, FlightTypeOK, None
<1>2. flights[caller[c].flight] \in Flights
  BY <1>1 DEF TypeOK, FlightTypeOK
<1> QED BY <1>1, <1>2 DEF KindOf, Flights

(* Flights only grow in number: the other parts keep their types.          *)
LEMMA CallerKept ==
  ASSUME TypeOK, UNCHANGED caller,
         Len(flights') \in Nat, Len(flights') >= Len(flights)
  PROVE  CallerTypeOK'
<1>1. Len(flights) \in Nat
  BY DEF TypeOK, FlightTypeOK
<1>2. 0..Len(flights) \subseteq 0..Len(flights')
  BY <1>1
<1>3. caller \in [Callers -> [pc : CallerStates, flight : 0..Len(flights'),
                              finalized : BOOLEAN]]
  BY <1>2 DEF TypeOK, CallerTypeOK
<1> QED BY <1>3 DEF TypeOK, CallerTypeOK

LEMMA RecomposingKept ==
  ASSUME TypeOK, flights' \in Seq(Flights), Len(flights') = Len(flights),
         recomposing' \subseteq recomposing
  PROVE  FlightTypeOK'
BY DEF TypeOK, FlightTypeOK

LEMMA GoesType ==
  ASSUME TypeOK, NEW c \in Callers, caller[c].pc # "idle",
         NEW pc \in CallerStates, Goes(c, pc), Len(flights') = Len(flights)
  PROVE  CallerTypeOK'
<1>1. caller[c] \in [pc : CallerStates, flight : 0..Len(flights), finalized : BOOLEAN]
  BY DEF TypeOK, CallerTypeOK
<1>2. [caller[c] EXCEPT !.pc = pc]
        \in [pc : CallerStates, flight : 0..Len(flights), finalized : BOOLEAN]
  BY <1>1
<1>3. caller' = [caller EXCEPT ![c] = [caller[c] EXCEPT !.pc = pc]]
  BY DEF Goes
<1>4. [caller[c] EXCEPT !.pc = pc].flight = caller[c].flight
  BY <1>1
<1> QED BY <1>2, <1>3, <1>4 DEF TypeOK, CallerTypeOK

LEMMA LeavesType ==
  ASSUME TypeOK, NEW c \in Callers, Leaves(c), Len(flights') = Len(flights)
  PROVE  CallerTypeOK'
<1>1. NoCall \in [pc : CallerStates, flight : 0..Len(flights), finalized : BOOLEAN]
      /\ NoCall.pc = "idle"
  BY DEF NoCall, None, CallerStates, TypeOK, FlightTypeOK
<1> HIDE DEF NoCall
<1> QED BY <1>1 DEF TypeOK, CallerTypeOK, Leaves

LEMMA GetsType ==
  ASSUME TypeOK, NEW c \in Callers, NEW pc \in CallerStates,
         Len(flights') \in Nat, Len(flights') >= Len(flights),
         NEW f \in 1..Len(flights'), Gets(c, pc, f)
  PROVE  CallerTypeOK'
<1>1. Len(flights) \in Nat
  BY DEF TypeOK, FlightTypeOK
<1> DEFINE C == [pc : CallerStates, flight : 0..Len(flights'), finalized : BOOLEAN]
           r == [pc |-> pc, flight |-> f, finalized |-> FALSE]
<1>2. caller \in [Callers -> C]
  BY <1>1 DEF TypeOK, CallerTypeOK
<1>3. r \in C /\ r.flight # None
  BY <1>1 DEF None
<1>4. caller' = [caller EXCEPT ![c] = r]
  BY DEF Gets
<1> HIDE DEF r
<1>5. caller' \in [Callers -> C]
  BY <1>2, <1>3, <1>4
<1>6. \A d \in Callers : caller'[d].pc # "idle" => caller'[d].flight # None
  BY <1>2, <1>3, <1>4 DEF TypeOK, CallerTypeOK
<1> QED BY <1>5, <1>6 DEF CallerTypeOK

(* An entry replaced by another.                                           *)
LEMMA EntryReplaced ==
  ASSUME EntryTypeOK, config' = config, NEW k \in Kinds, NEW e \in Entries,
         entry' = [entry EXCEPT ![k] = e]
  PROVE  EntryTypeOK' /\ entry'[k] = e /\ \A q \in Kinds \ {k} : entry'[q] = entry[q]
BY DEF EntryTypeOK

(* The flights an entry may name after a step that replaced it.            *)
LEMMA NamesReplaced ==
  ASSUME TypeOK, NEW k \in Kinds, NEW e \in Entries,
         entry' = [entry EXCEPT ![k] = e],
         Len(flights') \in Nat, Len(flights') >= Len(flights),
         e.startup \in 0..Len(flights'), e.service \in 0..Len(flights')
  PROVE  EntriesNameFlights'
<1>1. Len(flights) \in Nat /\ entry \in [Kinds -> Entries]
  BY DEF TypeOK, FlightTypeOK, EntryTypeOK
<1>2. \A q \in Kinds : entry'[q] = IF q = k THEN e ELSE entry[q]
  BY <1>1
<1>3. \A q \in Kinds : /\ entry'[q].startup \in 0..Len(flights')
                       /\ entry'[q].service \in 0..Len(flights')
  BY <1>1, <1>2 DEF TypeOK, EntriesNameFlights
<1> QED BY <1>3 DEF EntriesNameFlights

LEMMA NamesKept ==
  ASSUME TypeOK, UNCHANGED entry,
         Len(flights') \in Nat, Len(flights') >= Len(flights)
  PROVE  EntriesNameFlights'
BY DEF TypeOK, EntriesNameFlights, FlightTypeOK

LEMMA BeginRecomposeType ==
  ASSUME TypeOK, config' = config, NEW k \in Kinds, NEW e \in Entries,
         e.service = entry[k].service, BeginRecompose(k, e)
  PROVE  EntryTypeOK' /\ FlightTypeOK' /\ EntriesNameFlights' /\ Len(flights') = Len(flights)
<1>1. FlightTypeOK /\ EntryTypeOK /\ Len(flights) \in Nat
  BY DEF TypeOK, FlightTypeOK
<1>2. DisposedEntry(e) \in Entries
      /\ DisposedEntry(e).startup = None /\ DisposedEntry(e).service = None
  BY DisposedEntryType DEF Started
<1>3. EntryTypeOK'
  BY <1>1, <1>2, EntryReplaced DEF BeginRecompose
<1>4. flights' \in Seq(Flights) /\ Len(flights') = Len(flights)
  BY <1>1, DisposeServicesType DEF BeginRecompose
<1>5. recomposing' \subseteq Kinds \X (0..Len(flights))
  BY <1>1 DEF TypeOK, EntriesNameFlights, FlightTypeOK, BeginRecompose
<1>6. EntriesNameFlights'
  <2> DEFINE d == DisposedEntry(e)
  <2>1. entry' = [entry EXCEPT ![k] = d]
    BY DEF BeginRecompose
  <2>2. d \in Entries /\ d.startup = 0 /\ d.service = 0
    BY <1>2 DEF None
  <2> HIDE DEF d
  <2>3. Len(flights') \in Nat /\ Len(flights') >= Len(flights) /\ 0 \in 0..Len(flights')
    BY <1>1, <1>4
  <2> QED BY <2>1, <2>2, <2>3, NamesReplaced
<1> QED BY <1>1, <1>3, <1>4, <1>5, <1>6 DEF FlightTypeOK

(* A step that writes only to the consumer.                                *)
LEMMA OnlyCaller ==
  ASSUME TypeOK, UNCHANGED <<config, entry, flights, recomposing, disposed>>,
         CallerTypeOK'
  PROVE  TypeOK'
<1>1. EntryTypeOK' /\ FlightTypeOK' /\ EntriesNameFlights'
  BY DEF TypeOK, EntryTypeOK, FlightTypeOK, EntriesNameFlights
<1>2. (disposed \in BOOLEAN)'
  BY Zenon DEF TypeOK
<1> QED BY <1>1, <1>2, Zenon DEF TypeOK

LEMMA ServiceStartsType ==
  ASSUME TypeOK, NEW c \in Callers, NEW k \in Kinds, ServiceStarts(c, k)
  PROVE  TypeOK'
<1> DEFINE f == Len(flights) + 1
           n == [kind |-> k, config |-> config[k], phase |-> "creating"]
           e1 == [entry[k] EXCEPT !.state = "starting"]
           e2 == [e1 EXCEPT !.startup = f]
<1>1. /\ flights \in Seq(Flights) /\ Len(flights) \in Nat
      /\ config \in [Kinds -> Configs] /\ entry \in [Kinds -> Entries]
      /\ MaxFlights \in Nat
  BY RegistryAssumption DEF TypeOK, FlightTypeOK, EntryTypeOK, RegistryAssumption
<1>2. n \in Flights
  BY <1>1 DEF Flights, Phases
<1>3. flights' = Append(flights, n) /\ f <= MaxFlights
      /\ entry' = [[entry EXCEPT ![k] = e1] EXCEPT ![k] = e2] /\ Gets(c, "waiting", f)
      /\ UNCHANGED <<config, recomposing, disposed>>
  BY <1>1 DEF ServiceStarts
<1> HIDE DEF n
<1>4. flights' \in Seq(Flights) /\ Len(flights') = f
  BY <1>1, <1>2, <1>3
<1>5. e1 \in Entries /\ e1.service = entry[k].service
  BY <1>1 DEF Entries, EntryStates
<1> HIDE DEF e1
<1>6. e2 \in Entries /\ e2.startup = f /\ e2.service = e1.service
  <2>1. f \in 0..MaxFlights
    BY <1>1, <1>3
  <2> HIDE DEF f
  <2> QED BY <1>5, <2>1 DEF Entries
<1> HIDE DEF e2
<1>7. entry' = [entry EXCEPT ![k] = e2]
  BY <1>1, <1>3
<1>8. EntryTypeOK'
  BY <1>3, <1>6, <1>7, EntryReplaced DEF TypeOK
<1>9. FlightTypeOK'
  <2>1. recomposing \subseteq Kinds \X (0..Len(flights)) /\ 0..Len(flights) \subseteq 0..f
    BY <1>1 DEF TypeOK, FlightTypeOK
  <2> QED BY <1>3, <1>4, <2>1 DEF FlightTypeOK
<1>10. EntriesNameFlights'
  <2>1. entry[k].service \in 0..Len(flights)
    BY DEF TypeOK, EntriesNameFlights
  <2>2. /\ Len(flights') \in Nat /\ Len(flights') >= Len(flights)
        /\ e2.startup \in 0..Len(flights') /\ e2.service \in 0..Len(flights')
    BY <1>1, <1>4, <1>5, <1>6, <2>1
  <2> QED BY <1>6, <1>7, <2>2, NamesReplaced
<1>11. CallerTypeOK'
  <2>1. f \in 1..Len(flights') /\ Len(flights') \in Nat /\ Len(flights') >= Len(flights)
    BY <1>1, <1>4
  <2>2. "waiting" \in CallerStates
    BY DEF CallerStates
  <2> HIDE DEF f
  <2> QED BY <1>3, <2>1, <2>2, GetsType
<1>12. (disposed \in BOOLEAN)'
  BY <1>3, Zenon DEF TypeOK
<1> QED BY <1>8, <1>9, <1>10, <1>11, <1>12, Zenon DEF TypeOK

(* A step that sets the phase of a flight and replaces at most the entry   *)
(* of its kind.                                                            *)
LEMMA FlightMovesType ==
  ASSUME TypeOK, NEW f \in 1..Len(flights), NEW p \in Phases,
         flights' = SetPhase(f, p),
         UNCHANGED <<config, recomposing, caller, disposed>>,
         NEW e \in Entries, entry' = [entry EXCEPT ![flights[f].kind] = e],
         e.startup \in 0..Len(flights), e.service \in 0..Len(flights)
  PROVE  TypeOK'
<1>1. FlightTypeOK /\ EntryTypeOK /\ Len(flights) \in Nat
  BY DEF TypeOK, FlightTypeOK
<1>2. flights' \in Seq(Flights) /\ Len(flights') = Len(flights)
  BY <1>1, SetPhaseType
<1> DEFINE k == flights[f].kind
<1>3. k \in Kinds
  BY <1>1, FlightType
<1> HIDE DEF k
<1>4. entry' = [entry EXCEPT ![k] = e]
  BY DEF k
<1>5. EntryTypeOK'
  BY <1>1, <1>3, <1>4, EntryReplaced
<1>6. EntriesNameFlights'
  <2>1. /\ Len(flights') \in Nat /\ Len(flights') >= Len(flights)
        /\ e.startup \in 0..Len(flights') /\ e.service \in 0..Len(flights')
    BY <1>1, <1>2
  <2> QED BY <1>3, <1>4, <2>1, NamesReplaced
<1>7. FlightTypeOK'
  BY <1>2, RecomposingKept
<1>8. CallerTypeOK'
  BY <1>1, <1>2, CallerKept
<1>9. (disposed \in BOOLEAN)'
  BY Zenon DEF TypeOK
<1> QED BY <1>5, <1>6, <1>7, <1>8, <1>9, Zenon DEF TypeOK

LEMMA FlightMovesOnlyType ==
  ASSUME TypeOK, NEW f \in 1..Len(flights), NEW p \in Phases,
         flights' = SetPhase(f, p),
         UNCHANGED <<config, entry, recomposing, caller, disposed>>
  PROVE  TypeOK'
<1>1. flights[f].kind \in Kinds /\ entry \in [Kinds -> Entries]
  BY FlightType DEF TypeOK, EntryTypeOK
<1> DEFINE e == entry[flights[f].kind]
<1>2. e \in Entries /\ e.startup \in 0..Len(flights) /\ e.service \in 0..Len(flights)
  BY <1>1 DEF TypeOK, EntriesNameFlights
<1>3. entry' = [entry EXCEPT ![flights[f].kind] = e]
  BY <1>1
<1> HIDE DEF e
<1> QED BY <1>2, <1>3, FlightMovesType

LEMMA CreateSucceedsType ==
  ASSUME TypeOK, NEW f \in DOMAIN flights, CreateSucceeds(f)
  PROVE  TypeOK'
<1>1. f \in 1..Len(flights) /\ f \in 0..MaxFlights /\ f \in 0..Len(flights)
  BY RegistryAssumption DEF TypeOK, FlightTypeOK, RegistryAssumption
<1> DEFINE k == flights[f].kind
           e1 == [entry[k] EXCEPT !.service = f]
           e2 == [e1 EXCEPT !.state = "running"]
<1>2. k \in Kinds /\ entry \in [Kinds -> Entries] /\ entry[k].startup \in 0..Len(flights)
  BY <1>1, FlightType DEF TypeOK, EntryTypeOK, EntriesNameFlights
<1>3. CASE Retired(f)
  BY <1>1, <1>3, FlightMovesOnlyType DEF CreateSucceeds, Phases
<1>4. CASE ~Retired(f)
  <2>1. /\ flights' = SetPhase(f, "live")
        /\ entry' = [[entry EXCEPT ![k] = e1] EXCEPT ![k] = e2]
        /\ UNCHANGED <<config, recomposing, caller, disposed>>
    BY <1>2, <1>4 DEF CreateSucceeds
  <2>2. e1 \in Entries /\ e1.service = f /\ e1.startup = entry[k].startup
    BY <1>1, <1>2 DEF Entries
  <2> HIDE DEF e1
  <2>3. e2 \in Entries /\ e2.service = f /\ e2.startup = entry[k].startup
    BY <2>2 DEF Entries, EntryStates
  <2> HIDE DEF e2
  <2>4. entry' = [entry EXCEPT ![k] = e2]
    BY <1>2, <2>1
  <2>5. "live" \in Phases
    BY DEF Phases
  <2> QED BY <1>1, <1>2, <2>1, <2>3, <2>4, <2>5, FlightMovesType
<1> QED BY <1>3, <1>4

LEMMA CreateFailsType ==
  ASSUME TypeOK, NEW f \in DOMAIN flights, CreateFails(f)
  PROVE  TypeOK'
<1>1. f \in 1..Len(flights)
  BY DEF TypeOK, FlightTypeOK
<1> DEFINE k == flights[f].kind
           e1 == [entry[k] EXCEPT !.startup = None]
           e2 == [e1 EXCEPT !.state = "failed"]
<1>2. k \in Kinds /\ entry \in [Kinds -> Entries] /\ entry[k].service \in 0..Len(flights)
  BY <1>1, FlightType DEF TypeOK, EntryTypeOK, EntriesNameFlights
<1>3. CASE entry[k].startup # f
  BY <1>1, <1>3, FlightMovesOnlyType DEF CreateFails, Phases
<1>4. CASE entry[k].startup = f
  <2>1. /\ flights' = SetPhase(f, "rejected")
        /\ entry' = [[entry EXCEPT ![k] = e1] EXCEPT ![k] = e2]
        /\ UNCHANGED <<config, recomposing, caller, disposed>>
    BY <1>2, <1>4 DEF CreateFails
  <2>2. e1 \in Entries /\ e1.service = entry[k].service /\ e1.startup = 0
    <3>1. 0 \in 0..MaxFlights
      BY RegistryAssumption DEF RegistryAssumption
    <3>2. entry[k] \in Entries /\ e1 = [entry[k] EXCEPT !.startup = 0]
      BY <1>2 DEF None
    <3> HIDE DEF e1, k
    <3> QED BY <3>1, <3>2 DEF Entries
  <2> HIDE DEF e1
  <2>3. e2 \in Entries /\ e2.service = entry[k].service /\ e2.startup = 0
    BY <2>2 DEF Entries, EntryStates
  <2> HIDE DEF e2
  <2>4. entry' = [entry EXCEPT ![k] = e2]
    BY <1>2, <2>1
  <2>5. "rejected" \in Phases /\ 0 \in 0..Len(flights)
    BY DEF Phases, TypeOK, FlightTypeOK
  <2> QED BY <1>1, <1>2, <2>1, <2>3, <2>4, <2>5, FlightMovesType
<1> QED BY <1>3, <1>4

LEMMA DisposalEndsType ==
  ASSUME TypeOK, NEW f \in DOMAIN flights, DisposalEnds(f)
  PROVE  TypeOK'
<1>1. f \in 1..Len(flights)
  BY DEF TypeOK, FlightTypeOK
<1> DEFINE p == IF PhaseOf(f) = "disposing" THEN "disposed" ELSE "rejected"
<1>2. p \in Phases
  BY DEF Phases
<1>3. flights' = SetPhase(f, p) /\ UNCHANGED <<config, entry, recomposing, caller, disposed>>
  BY DEF DisposalEnds
<1> HIDE DEF p
<1> QED BY <1>1, <1>2, <1>3, FlightMovesOnlyType

LEMMA RecomposeDoneType ==
  ASSUME TypeOK, NEW r \in recomposing, RecomposeDone(r)
  PROVE  TypeOK'
<1> DEFINE k == r[1]
           e == Recomposed(entry[k], k)
<1>1. /\ k \in Kinds /\ EntryTypeOK /\ entry[k] \in Entries
      /\ entry[k].startup \in 0..Len(flights) /\ entry[k].service \in 0..Len(flights)
  BY DEF TypeOK, FlightTypeOK, EntryTypeOK, EntriesNameFlights
<1>2. /\ entry' = [entry EXCEPT ![k] = e]
      /\ recomposing' \subseteq recomposing /\ UNCHANGED <<config, flights, caller, disposed>>
  BY DEF RecomposeDone
<1>3. e \in Entries /\ e.service = entry[k].service /\ e.startup = entry[k].startup
  BY <1>1, RecomposedType DEF EntryTypeOK
<1> HIDE DEF e, k
<1>4. EntryTypeOK'
  BY <1>1, <1>2, <1>3, EntryReplaced
<1>5. flights' \in Seq(Flights) /\ Len(flights') = Len(flights) /\ Len(flights) \in Nat
  BY <1>2 DEF TypeOK, FlightTypeOK
<1>6. EntriesNameFlights'
  <2>1. /\ Len(flights') \in Nat /\ Len(flights') >= Len(flights)
        /\ e.startup \in 0..Len(flights') /\ e.service \in 0..Len(flights')
    BY <1>1, <1>3, <1>5
  <2> QED BY <1>1, <1>2, <1>3, <2>1, NamesReplaced
<1>7. FlightTypeOK' /\ CallerTypeOK'
  BY <1>2, <1>5, RecomposingKept, CallerKept
<1>8. (disposed \in BOOLEAN)'
  BY <1>2, Zenon DEF TypeOK
<1> QED BY <1>4, <1>6, <1>7, <1>8, Zenon DEF TypeOK

LEMMA ServiceAnswersType ==
  ASSUME TypeOK, NEW c \in Callers, NEW k \in Kinds,
         ServiceRunning(c, k) \/ ServiceJoins(c, k)
  PROVE  TypeOK'
<1>1. /\ Len(flights) \in Nat
      /\ entry[k].startup \in 0..Len(flights) /\ entry[k].service \in 0..Len(flights)
  BY DEF TypeOK, FlightTypeOK, EntriesNameFlights
<1>2. UNCHANGED <<config, entry, flights, recomposing, disposed>>
  BY DEF ServiceRunning, ServiceJoins
<1>3. PICK pc \in CallerStates, f \in 1..Len(flights) : Gets(c, pc, f)
  BY <1>1 DEF ServiceRunning, ServiceJoins, None, CallerStates
<1>4. CallerTypeOK'
  BY <1>1, <1>2, <1>3, GetsType
<1> QED BY <1>2, <1>4, OnlyCaller

LEMMA ConsumerMovesType ==
  ASSUME TypeOK, NEW c \in Callers,
         Resume(c) \/ OpenSession(c) \/ OpenRefused(c) \/ OpenFails(c)
  PROVE  TypeOK'
<1>1. UNCHANGED <<config, entry, flights, recomposing, disposed>>
  BY DEF Resume, OpenSession, OpenRefused, OpenFails
<1>2. Leaves(c) \/ (caller[c].pc # "idle" /\ \E pc \in CallerStates : Goes(c, pc))
  BY DEF Resume, OpenSession, OpenRefused, OpenFails, CallerStates
<1>3. CallerTypeOK'
  BY <1>1, <1>2, GoesType, LeavesType
<1> QED BY <1>1, <1>3, OnlyCaller

LEMMA OpenSucceedsType ==
  ASSUME TypeOK, NEW c \in Callers, OpenSucceeds(c)
  PROVE  TypeOK'
<1> DEFINE k == KindOf(c)
           e == [entry[k] EXCEPT !.count = @ + 1]
<1>1. caller[c].pc # "idle"
  BY DEF OpenSucceeds
<1>2. /\ k \in Kinds /\ EntryTypeOK /\ entry[k] \in Entries /\ Len(flights) \in Nat
      /\ entry[k].startup \in 0..Len(flights) /\ entry[k].service \in 0..Len(flights)
  BY <1>1, KindOfType DEF TypeOK, EntryTypeOK, EntriesNameFlights, FlightTypeOK
<1>3. /\ entry' = [entry EXCEPT ![k] = e] /\ Goes(c, "session")
      /\ UNCHANGED <<config, flights, recomposing, disposed>>
  BY DEF OpenSucceeds
<1> HIDE DEF k
<1>4. e \in Entries /\ e.service = entry[k].service /\ e.startup = entry[k].startup
  BY <1>2 DEF Entries
<1> HIDE DEF e
<1>5. EntryTypeOK'
  BY <1>2, <1>3, <1>4, EntryReplaced
<1>6. EntriesNameFlights'
  <2>1. /\ Len(flights') \in Nat /\ Len(flights') >= Len(flights)
        /\ e.startup \in 0..Len(flights') /\ e.service \in 0..Len(flights')
    BY <1>2, <1>3, <1>4
  <2> QED BY <1>2, <1>3, <1>4, <2>1, NamesReplaced
<1>7. FlightTypeOK'
  BY <1>3 DEF TypeOK, FlightTypeOK
<1>8. CallerTypeOK'
  BY <1>1, <1>3, GoesType DEF CallerStates
<1>9. (disposed \in BOOLEAN)'
  BY <1>3, Zenon DEF TypeOK
<1> QED BY <1>5, <1>6, <1>7, <1>8, <1>9, Zenon DEF TypeOK

(* The end of a session: nothing, one session less, or a swap as well.     *)
LEMMA FinalizeType ==
  ASSUME TypeOK, NEW c \in Callers, caller[c].pc # "idle", Finalize(c),
         config' = config
  PROVE  EntryTypeOK' /\ FlightTypeOK' /\ EntriesNameFlights' /\ Len(flights') = Len(flights)
<1> DEFINE k == KindOf(c)
           e == LastOut(entry[k])
<1>1. /\ k \in Kinds /\ EntryTypeOK /\ entry[k] \in Entries /\ Len(flights) \in Nat
      /\ entry[k].startup \in 0..Len(flights) /\ entry[k].service \in 0..Len(flights)
  BY KindOfType DEF TypeOK, EntryTypeOK, EntriesNameFlights, FlightTypeOK
<1>2. e \in Entries /\ e.service = entry[k].service /\ e.startup = entry[k].startup
  BY <1>1, LastOutType
<1>3. \/ UNCHANGED <<entry, flights, recomposing>>
      \/ BeginRecompose(k, e)
      \/ entry' = [entry EXCEPT ![k] = e] /\ UNCHANGED <<flights, recomposing>>
  BY DEF Finalize
<1> HIDE DEF k, e
<1>4. CASE UNCHANGED <<entry, flights, recomposing>>
  BY <1>1, <1>4 DEF TypeOK, EntryTypeOK, FlightTypeOK, EntriesNameFlights
<1>5. CASE BeginRecompose(k, e)
  BY <1>1, <1>2, <1>5, BeginRecomposeType
<1>6. CASE entry' = [entry EXCEPT ![k] = e] /\ UNCHANGED <<flights, recomposing>>
  <2>1. EntryTypeOK'
    BY <1>1, <1>2, <1>6, EntryReplaced
  <2>2. /\ Len(flights') \in Nat /\ Len(flights') >= Len(flights)
        /\ e.startup \in 0..Len(flights') /\ e.service \in 0..Len(flights')
    BY <1>1, <1>2, <1>6
  <2>3. EntriesNameFlights'
    BY <1>1, <1>2, <1>6, <2>2, NamesReplaced
  <2>4. FlightTypeOK' /\ Len(flights') = Len(flights)
    BY <1>6 DEF TypeOK, FlightTypeOK
  <2> QED BY <2>1, <2>3, <2>4
<1> QED BY <1>3, <1>4, <1>5, <1>6

LEMMA SessionEndsType ==
  ASSUME TypeOK, NEW c \in Callers, SessionEnds(c) \/ CloseReturns(c)
  PROVE  TypeOK'
<1>1. caller[c].pc # "idle" /\ Finalize(c) /\ UNCHANGED <<config, disposed>>
  BY DEF SessionEnds, CloseReturns, IsOpen
<1>2. EntryTypeOK' /\ FlightTypeOK' /\ EntriesNameFlights' /\ Len(flights') = Len(flights)
  BY <1>1, FinalizeType
<1>3. CallerTypeOK'
  <2>1. CASE Leaves(c)
    BY <1>2, <2>1, LeavesType
  <2>2. CASE caller' = [caller EXCEPT ![c].finalized = TRUE]
    <3> DEFINE C == [pc : CallerStates, flight : 0..Len(flights), finalized : BOOLEAN]
               r == [caller[c] EXCEPT !.finalized = TRUE]
    <3>1. caller \in [Callers -> C]
      BY DEF TypeOK, CallerTypeOK
    <3>2. r \in C /\ r.flight = caller[c].flight
      BY <3>1
    <3>3. caller' = [caller EXCEPT ![c] = r]
      BY <2>2
    <3> HIDE DEF r
    <3>4. caller' \in [Callers -> C]
      BY <3>1, <3>2, <3>3
    <3>5. \A d \in Callers : caller'[d].pc # "idle" => caller'[d].flight # None
      BY <1>1, <3>1, <3>2, <3>3 DEF TypeOK, CallerTypeOK
    <3> QED BY <1>2, <3>4, <3>5 DEF CallerTypeOK
  <2> QED BY <2>1, <2>2 DEF SessionEnds, CloseReturns
<1>4. (disposed \in BOOLEAN)'
  BY <1>1, Zenon DEF TypeOK
<1> QED BY <1>2, <1>3, <1>4, Zenon DEF TypeOK

(* A changed setting leaves an entry as it is, marks it, or retires it.    *)
LEMMA ReconfiguredType ==
  ASSUME EntryTypeOK, NEW k \in Kinds, NEW new \in [Kinds -> Configs]
  PROVE  LET e == Reconfigured(k, new) IN
           /\ e \in Entries /\ e.count = entry[k].count
           /\ Drains(k, new) => /\ ~Started(e) /\ e.state \in {"failed", "disposed"}
                                /\ entry[k].count = 0
           /\ ~Drains(k, new) => /\ e.startup = entry[k].startup
                                 /\ e.service = entry[k].service
                                 /\ e.state = entry[k].state
<1> DEFINE e == [entry[k] EXCEPT !.fingerprint = new[k]]
<1>1. entry[k] \in Entries
  BY DEF EntryTypeOK
<1>2. /\ e \in Entries /\ e.count = entry[k].count /\ e.startup = entry[k].startup
      /\ e.service = entry[k].service /\ e.state = entry[k].state
  BY <1>1 DEF Entries
<1>3. Started(e) = Started(entry[k])
  BY <1>2 DEF Started
<1>4. CASE Drains(k, new)
  <2>1. Started(entry[k]) /\ entry[k].count = 0
    BY <1>4 DEF Drains, Affected
  <2>2. Reconfigured(k, new) = DisposedEntry(e)
    BY <1>3, <1>4, <2>1 DEF Reconfigured
  <2> HIDE DEF e
  <2> QED BY <1>2, <1>4, <2>1, <2>2, DisposedEntryType
<1>5. CASE ~Drains(k, new)
  <2>1. Reconfigured(k, new) \in {e, [e EXCEPT !.stale = TRUE], entry[k]}
    BY <1>3, <1>5 DEF Reconfigured
  <2> HIDE DEF e
  <2>2. /\ [e EXCEPT !.stale = TRUE] \in Entries
        /\ [e EXCEPT !.stale = TRUE].count = e.count
        /\ [e EXCEPT !.stale = TRUE].startup = e.startup
        /\ [e EXCEPT !.stale = TRUE].service = e.service
        /\ [e EXCEPT !.stale = TRUE].state = e.state
    BY <1>2 DEF Entries
  <2> QED BY <1>1, <1>2, <1>5, <2>1, <2>2
<1> QED BY <1>4, <1>5

LEMMA ConfigChangeType ==
  ASSUME TypeOK, NEW new \in [Kinds -> Configs], ConfigChange(new)
  PROVE  TypeOK'
<1> DEFINE fs == {entry[k].service : k \in {q \in Kinds : Drains(q, new)}}
<1>1. /\ EntryTypeOK /\ FlightTypeOK /\ Len(flights) \in Nat
      /\ \A k \in Kinds : /\ entry[k].startup \in 0..Len(flights)
                          /\ entry[k].service \in 0..Len(flights)
  BY DEF TypeOK, FlightTypeOK, EntriesNameFlights
<1>2. /\ config' = new /\ entry' = [k \in Kinds |-> Reconfigured(k, new)]
      /\ DisposeServices(fs) /\ UNCHANGED <<caller, disposed>>
      /\ recomposing' = recomposing \cup
           {<<k, entry[k].service>> : k \in {q \in Kinds : Drains(q, new)}}
  BY DEF ConfigChange
<1>3. flights' \in Seq(Flights) /\ Len(flights') = Len(flights)
  BY <1>1, <1>2, DisposeServicesType
<1>4. \A k \in Kinds : /\ Reconfigured(k, new) \in Entries
                       /\ Reconfigured(k, new).startup \in 0..Len(flights)
                       /\ Reconfigured(k, new).service \in 0..Len(flights)
  BY <1>1, ReconfiguredType DEF Started, None
<1>5. EntryTypeOK' /\ EntriesNameFlights'
  BY <1>2, <1>3, <1>4 DEF EntryTypeOK, EntriesNameFlights
<1>6. recomposing' \subseteq Kinds \X (0..Len(flights))
  BY <1>1, <1>2 DEF FlightTypeOK
<1>7. FlightTypeOK'
  BY <1>1, <1>3, <1>6 DEF FlightTypeOK
<1>8. CallerTypeOK'
  BY <1>1, <1>2, <1>3, CallerKept
<1>9. (disposed \in BOOLEAN)'
  BY <1>2, Zenon DEF TypeOK
<1> QED BY <1>5, <1>7, <1>8, <1>9, Zenon DEF TypeOK

LEMMA DisposeType ==
  ASSUME TypeOK, Dispose
  PROVE  TypeOK'
<1> DEFINE fs == {entry[k].service : k \in Kinds}
<1>1. EntryTypeOK /\ FlightTypeOK /\ Len(flights) \in Nat
  BY DEF TypeOK, FlightTypeOK
<1>2. /\ entry' = [k \in Kinds |-> DisposedEntry(entry[k])] /\ disposed'
      /\ DisposeServices(fs) /\ UNCHANGED <<config, recomposing, caller>>
  BY DEF Dispose
<1>3. flights' \in Seq(Flights) /\ Len(flights') = Len(flights)
  BY <1>1, <1>2, DisposeServicesType
<1>4. \A k \in Kinds : /\ DisposedEntry(entry[k]) \in Entries
                       /\ DisposedEntry(entry[k]).startup = 0
                       /\ DisposedEntry(entry[k]).service = 0
  BY <1>1, DisposedEntryType DEF EntryTypeOK, Started, None
<1>5. EntryTypeOK' /\ EntriesNameFlights'
  BY <1>1, <1>2, <1>3, <1>4 DEF EntryTypeOK, EntriesNameFlights
<1>6. FlightTypeOK'
  BY <1>2, <1>3, RecomposingKept
<1>7. CallerTypeOK'
  BY <1>1, <1>2, <1>3, CallerKept
<1>8. (disposed \in BOOLEAN)'
  BY Zenon DEF Dispose
<1> QED BY <1>5, <1>6, <1>7, <1>8, Zenon DEF TypeOK

LEMMA TypeInit == Init => TypeOK
<1> SUFFICES ASSUME Init PROVE TypeOK
  OBVIOUS
<1>1. MaxFlights \in Nat
  BY RegistryAssumption DEF RegistryAssumption
<1>2. EntryTypeOK
  <2>1. \A k \in Kinds : [state |-> "idle", startup |-> None, service |-> None,
                fingerprint |-> config[k], stale |-> FALSE, count |-> 0] \in Entries
    BY <1>1 DEF Init, Entries, EntryStates, None
  <2> QED BY <2>1 DEF Init, EntryTypeOK
<1>3. Len(flights) = 0 /\ flights \in Seq(Flights)
  BY DEF Init
<1>4. FlightTypeOK
  BY <1>1, <1>3 DEF Init, FlightTypeOK
<1>5. EntriesNameFlights
  BY <1>3 DEF Init, EntriesNameFlights, None
<1>6. CallerTypeOK
  BY <1>3 DEF Init, CallerTypeOK, NoCall, CallerStates, None
<1>7. disposed \in BOOLEAN
  BY DEF Init
<1> QED BY <1>2, <1>4, <1>5, <1>6, <1>7, Zenon DEF TypeOK

LEMMA TypeStep == TypeOK /\ [Next]_vars => TypeOK'
<1> SUFFICES ASSUME TypeOK, [Next]_vars PROVE TypeOK'
  OBVIOUS
<1>1. ASSUME NEW c \in Callers, NEW k \in Kinds,
             ServiceRunning(c, k) \/ ServiceJoins(c, k)
      PROVE  TypeOK'
  BY <1>1, ServiceAnswersType
<1>2. ASSUME NEW c \in Callers, NEW k \in Kinds, ServiceStarts(c, k)
      PROVE  TypeOK'
  BY <1>2, ServiceStartsType
<1>3. ASSUME NEW c \in Callers,
             Resume(c) \/ OpenSession(c) \/ OpenRefused(c) \/ OpenFails(c)
      PROVE  TypeOK'
  BY <1>3, ConsumerMovesType
<1>4. ASSUME NEW c \in Callers, OpenSucceeds(c)
      PROVE  TypeOK'
  BY <1>4, OpenSucceedsType
<1>5. ASSUME NEW c \in Callers, SessionEnds(c) \/ CloseReturns(c)
      PROVE  TypeOK'
  BY <1>5, SessionEndsType
<1>6. ASSUME NEW f \in DOMAIN flights, CreateSucceeds(f)
      PROVE  TypeOK'
  BY <1>6, CreateSucceedsType
<1>7. ASSUME NEW f \in DOMAIN flights, CreateFails(f)
      PROVE  TypeOK'
  BY <1>7, CreateFailsType
<1>8. ASSUME NEW f \in DOMAIN flights, DisposeReturns(f) \/ DisposeTimeout(f)
      PROVE  TypeOK'
  BY <1>8, DisposalEndsType DEF DisposeReturns, DisposeTimeout
<1>9. ASSUME NEW r \in recomposing, RecomposeDone(r)
      PROVE  TypeOK'
  BY <1>9, RecomposeDoneType
<1>10. ASSUME NEW new \in [Kinds -> Configs], ConfigChange(new)
       PROVE  TypeOK'
  BY <1>10, ConfigChangeType
<1>11. CASE Dispose
  BY <1>11, DisposeType
<1>12. CASE UNCHANGED vars
  <2>1. EntryTypeOK' /\ FlightTypeOK' /\ EntriesNameFlights' /\ CallerTypeOK'
    BY <1>12 DEF vars, TypeOK, EntryTypeOK, FlightTypeOK, EntriesNameFlights, CallerTypeOK
  <2>2. (disposed \in BOOLEAN)'
    BY <1>12, Zenon DEF vars, TypeOK
  <2> QED BY <2>1, <2>2, Zenon DEF TypeOK
<1> QED BY <1>1, <1>2, <1>3, <1>4, <1>5, <1>6, <1>7, <1>8, <1>9, <1>10, <1>11, <1>12 DEF Next

(* Every variable of the registry has its type in every state: an entry, a *)
(* recompose and a consumer name flights that exist.                       *)
THEOREM RegistryTypes == Spec => []TypeOK
<1> QED BY TypeInit, TypeStep, PTL DEF Spec
=============================================================================
