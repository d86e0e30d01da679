--------------------------- MODULE MetadataEngine ---------------------------
(* The catalogue engine of one database: MetadataService in                  *)
(* src/extensions/mssql/src/services/metadata/metadataService.ts, with the   *)
(* session source it works through.                                          *)
(*                                                                           *)
(* The engine keeps a snapshot of the database's schema and replaces it by   *)
(* hydrating again.  Everything that talks to the server - hydrations,       *)
(* digests, lazy definition reads - takes turns on one lane, under a         *)
(* watchdog: work that hangs is abandoned, but it is not stopped, and may    *)
(* still finish after newer work has replaced it.  Around the lane run the   *)
(* poll timer, which is suspended while the window has been out of focus for *)
(* long, the retry timer, the validations of strict callers and the notices  *)
(* of DDL, all of which ask for the same few shared passes.                  *)
(*                                                                           *)
(* What the server holds is a version number that every DDL raises; a        *)
(* snapshot, a digest and a definition are the version they were read at.    *)
(* The entry has one lease, as the store that owns the engine takes one.     *)
EXTENDS Naturals, Sequences, FiniteSets, SequencesExt

CONSTANTS
    Objects,       \* the objects whose definitions callers read
    PollSeconds,   \* the poll interval of the settings; 0 turns the poll off
    MaxDdl,        \* bound: how often the schema changes
    MaxCalls,      \* bound: how many refreshes and DDL notices are asked for
    MaxTimeouts,   \* bound: how often the watchdog fires
    MaxFails,      \* bound: how many queries fail or sessions are lost of themselves
    MaxRenames,    \* bound: how often the database is renamed or renamed back
    MaxFlips,      \* bound: how often network access is switched
    MaxAways,      \* bound: how often the window is left for longer than the grace
    Ladder,        \* how many retries the backoff ladder has
    None           \* no snapshot, no digest, no work: nothing

ASSUME BoundsAreNumbers ==
    {MaxDdl, MaxCalls, MaxTimeouts, MaxFails, MaxRenames, MaxFlips, MaxAways,
     PollSeconds, Ladder} \subseteq Nat

ASSUME NoneIsNothing ==
    None \notin Nat \cup [gen : Nat, read : Nat] \cup Objects
                \cup {"hydrate", "digest", "slot", "lane", "joined",
                      "refetch", "refetchNext", "pass", "followUp", "live", "unavailable"}

ASSUME ObjectsAreThemselves == {"hydrate", "digest"} \cap Objects = {}

VARIABLES
    server,    \* the version of the schema the server holds
    named,     \* does the database still bear the name it is keyed by
    online,    \* is network access allowed
    source,    \* the session source: which session it is on, and is it open
    entry,     \* the catalogue entry
    job,       \* the work whose turn on the lane it is
    orphans,   \* the work the watchdog has abandoned and that still runs
    spent      \* how much of each bound has been used

vars == <<server, named, online, source, entry, job, orphans, spent>>

Version == 0..MaxDdl
Snapshots == [gen : Nat, read : Version]

(* What may wait for the lane: a hydration, a digest, and for each object    *)
(* the read of its definition.                                               *)
Kinds == {"hydrate", "digest"} \cup Objects

(* Work on the lane: the epoch and the generation it captured, the session   *)
(* it runs on, what it has read so far and whether the session sat in the    *)
(* database of that name.                                                    *)
Job == [kind : Kinds, epoch : Nat, gen : Nat, session : Nat,
        seen : Version \cup {None}, ours : BOOLEAN]
Idle == [kind |-> None]

(* How long a caller of hydrate still waits: until the pass in flight ends,  *)
(* or until the pass that follows it does.                                   *)
Waits == {"pass", "followUp"}

(* Where the validation in flight is: at the limiter, on the lane, or        *)
(* waiting for a hydration it joined, asked for, or whose follow-up it       *)
(* asked for.                                                                *)
Validations == {"slot", "lane", "joined", "refetch", "refetchNext"}

(* The catalogue entry.                                                      *)
Entry ==
    [life : {"new", "held", "gone"},
     snapshot : Snapshots \cup {None}, gen : Nat,
     status : {"absent", "loading", "ready", "stale", "failed"},
     hydrating : BOOLEAN, forced : BOOLEAN,
     lastDigest : Version \cup {None}, manifestDigest : Version \cup {None},
     definition : [Objects -> Version \cup {None}],
     lane : Seq(Kinds), epoch : Nat, wedged : BOOLEAN,
     attempts : 0..Ladder, retry : BOOLEAN, poll : BOOLEAN, drift : BOOLEAN,
     focus : {"unwatched", "watched", "suspended"},
     ticks : SUBSET {"pass", "validation"}, validation : Validations \cup {None},
     caller : [wait : Waits \cup {None, "live", "unavailable"}, since : Version]]

(* Neither the hydration, nor the digest, nor the read of one object waits   *)
(* on the lane twice, and the epoch counts what the watchdog gave up.        *)
TypeOK ==
    /\ server \in Version
    /\ named \in BOOLEAN
    /\ online \in BOOLEAN
    /\ source \in [session : Nat, open : BOOLEAN]
    /\ job \in Job \cup {Idle}
    /\ orphans \subseteq Job
    /\ spent \in [calls : 0..MaxCalls, timeouts : 0..MaxTimeouts,
                  fails : 0..MaxFails, renames : 0..MaxRenames, flips : 0..MaxFlips,
                  aways : 0..MaxAways]
    /\ entry \in Entry
    /\ IsInjective(entry.lane)
    /\ entry.epoch \in 0..(MaxTimeouts + 1)

(* A new entry; its snapshot may have come from the disk cache, in which     *)
(* case the entry goes on from the generation that was saved, and remembers  *)
(* the digest saved with it, if there was one.                               *)
NoDefinitions == [o \in Objects |-> None]

NewEntry ==
    [life |-> "new", snapshot |-> None, gen |-> 0, status |-> "absent",
     hydrating |-> FALSE, forced |-> FALSE, lastDigest |-> None,
     manifestDigest |-> None, definition |-> NoDefinitions, lane |-> <<>>, epoch |-> 0,
     wedged |-> FALSE, attempts |-> 0, retry |-> FALSE, poll |-> FALSE,
     drift |-> FALSE, focus |-> "unwatched", ticks |-> {}, validation |-> None,
     caller |-> [wait |-> None, since |-> 0]]

PublishExternalSnapshot(digest) ==
    [NewEntry EXCEPT !.snapshot = [gen |-> 1, read |-> 0], !.gen = 1,
                     !.status = "ready", !.manifestDigest = digest]

Init ==
    /\ server = 0
    /\ named = TRUE
    /\ online = TRUE
    /\ source = [session |-> 0, open |-> FALSE]
    /\ entry \in {NewEntry, PublishExternalSnapshot(None), PublishExternalSnapshot(0)}
    /\ job = Idle
    /\ orphans = {}
    /\ spent = [calls |-> 0, timeouts |-> 0, fails |-> 0, renames |-> 0, flips |-> 0,
              aways |-> 0]

-----------------------------------------------------------------------------
(* What the engine's own operations do to the entry.                         *)

ClearNetworkTimers(e) == [e EXCEPT !.poll = FALSE, !.retry = FALSE]

SchedulePollAnyway(e) ==
    [e EXCEPT !.poll = @ \/ (PollSeconds > 0 /\ online /\ ~e.drift /\ e.focus # "suspended")]

SchedulePollUnfocused(e) ==
    [e EXCEPT !.poll = @ \/ (PollSeconds > 0 /\ online /\ ~e.drift /\ e.life = "held")]

(* The timer is armed for a held entry that has not drifted, where polling   *)
(* is on, allowed and not suspended.                                         *)
PollsAgain(e) ==
    /\ PollSeconds > 0
    /\ online
    /\ ~e.drift
    /\ e.life = "held"
    /\ e.focus # "suspended"

SchedulePoll(e) == [e EXCEPT !.poll = @ \/ PollsAgain(e)]

(* The first lease also begins to watch whether the window is in focus.      *)
StartPolling(e) ==
    IF online /\ PollSeconds > 0 THEN [SchedulePoll(e) EXCEPT !.focus = "watched"] ELSE e

ResetPollBackoff(e) == SchedulePoll([e EXCEPT !.poll = FALSE])

ScheduleFailedRetryForever(e) ==
    IF online /\ e.life = "held" /\ e.snapshot # None /\ ~e.retry
    THEN [e EXCEPT !.retry = TRUE, !.attempts = @ + 1]
    ELSE e

ScheduleFailedRetry(e) ==
    IF /\ online
       /\ e.life = "held"
       /\ e.snapshot # None
       /\ ~e.retry
       /\ e.attempts < Ladder
    THEN [e EXCEPT !.retry = TRUE, !.attempts = @ + 1]
    ELSE e

Failed(e) == ScheduleFailedRetry([e EXCEPT !.status = "failed"])

(* A hydration runs only when none does; a forced one asked for meanwhile    *)
(* becomes the one follow-up.                                                *)
CanHydrate(e) == online /\ e.life # "gone"

Hydrate(e, force) ==
    IF ~CanHydrate(e) THEN ClearNetworkTimers(e)
    ELSE IF e.hydrating THEN [e EXCEPT !.forced = @ \/ force]
    ELSE [e EXCEPT !.hydrating = TRUE, !.lane = Append(@, "hydrate")]

WaitsForThisPass(e, force) == "pass"

(* What the caller of that hydrate waits for.                                *)
WaitsFor(e, force) == IF e.hydrating /\ force THEN "followUp" ELSE "pass"

(* The pass in flight is over, whatever came of it: the follow-up starts,    *)
(* and those who waited for this pass go on.                                 *)
Finish(e) ==
    LET done == [e EXCEPT !.validation = None, !.ticks = @ \ {"validation"}]
    IN  IF "validation" \in e.ticks THEN SchedulePoll(done) ELSE done

Answered(e) == IF e.status = "ready" THEN "live" ELSE "unavailable"

CallerGoesOnOrHangs(e, more) ==
    CASE e.caller.wait = "followUp" /\ more -> [e EXCEPT !.caller.wait = "pass"]
      [] e.caller.wait = "pass" -> [e EXCEPT !.caller = [wait |-> Answered(e), since |-> 0]]
      [] OTHER -> e

CallerGoesOn(e, more) ==
    CASE e.caller.wait = "followUp" /\ more -> [e EXCEPT !.caller.wait = "pass"]
      [] e.caller.wait = "pass" \/ (e.caller.wait = "followUp" /\ ~more) ->
             [e EXCEPT !.caller = [wait |-> Answered(e), since |-> 0]]
      [] OTHER -> e

ValidationGoesOnAnyway(e, more) ==
    CASE e.validation = "refetchNext" -> [e EXCEPT !.validation = "refetch"]
      [] e.validation \in {"joined", "refetch"} -> Finish(e)
      [] OTHER -> e

ValidationGoesOn(e, more) ==
    CASE e.validation = "refetchNext" /\ more -> [e EXCEPT !.validation = "refetch"]
      [] e.validation = "refetchNext" /\ ~more -> Finish(e)
      [] e.validation \in {"joined", "refetch"} -> Finish(e)
      [] OTHER -> e

TickEnds(e) == [e EXCEPT !.ticks = @ \ {"pass"}]

TickGoesOn(e) ==
    IF "pass" \in e.ticks THEN SchedulePoll([e EXCEPT !.ticks = @ \ {"pass"}]) ELSE e

PassOver(e) ==
    LET over == [e EXCEPT !.hydrating = FALSE, !.forced = FALSE]
        next == IF e.forced /\ e.life # "gone" THEN Hydrate(over, FALSE) ELSE over
    IN  TickGoesOn(ValidationGoesOn(CallerGoesOn(next, next.hydrating), next.hydrating))

(* The session turned out to sit in another database.                        *)
LatchInitialIdentityMismatch(e) ==
    ClearNetworkTimers([e EXCEPT !.drift = TRUE, !.wedged = TRUE])

LatchIdentityDrift(e) ==
    IF e.drift THEN e
    ELSE [e EXCEPT !.drift = TRUE, !.wedged = TRUE, !.poll = FALSE]

(* A validation joins the one in flight; a drifted entry answers from the    *)
(* latch; an entry with nothing to compare hydrates instead; any other waits *)
(* for a slot of the limiter and then for the lane.                          *)
ValidateEntry(e) ==
    IF ~online \/ e.validation # None \/ e.drift THEN e
    ELSE IF e.snapshot = None \/ e.status \in {"failed", "absent"}
         THEN [Hydrate(e, FALSE) EXCEPT !.validation = "joined"]
         ELSE [e EXCEPT !.validation = "slot"]

CanCheckDigest(e) == online /\ e.status = "ready" /\ ~e.hydrating /\ ~e.drift

CheckDigest(e) == IF CanCheckDigest(e) THEN ValidateEntry(e) ELSE e

-----------------------------------------------------------------------------
(* Calls of the engine's lease.                                              *)

(* The first lease.  A snapshot from the disk is refreshed at once, unless   *)
(* the network was off when the disk began to be read.                       *)
Acquire ==
    /\ entry.life = "new"
    /\ \E offline \in IF spent.flips = 0 THEN {~online} ELSE BOOLEAN :
          LET held == [entry EXCEPT !.life = "held"]
              begun == IF online /\ entry.status \in {"absent", "failed"}
                       THEN Hydrate(held, FALSE) ELSE held
              polled == StartPolling(begun)
          IN  entry' = IF entry.snapshot # None /\ ~offline
                       THEN Hydrate(polled, TRUE) ELSE polled
    /\ UNCHANGED <<server, named, online, source, job, orphans, spent>>

(* requireLive, and refresh: wait for a pass that begins after the call.     *)
RequireLive ==
    /\ entry.life = "held"
    /\ online
    /\ ~entry.drift
    /\ entry.caller.wait \notin Waits
    /\ spent.calls < MaxCalls
    /\ entry' = [Hydrate(entry, TRUE) EXCEPT
                    !.caller = [wait |-> WaitsFor(entry, TRUE), since |-> server]]
    /\ spent' = [spent EXCEPT !.calls = @ + 1]
    /\ UNCHANGED <<server, named, online, source, job, orphans>>

(* An explicit refresh asks on a drifted entry too, and nobody waits for it. *)
Refresh ==
    /\ entry.life = "held"
    /\ spent.calls < MaxCalls
    /\ entry' = Hydrate(entry, TRUE)
    /\ spent' = [spent EXCEPT !.calls = @ + 1]
    /\ UNCHANGED <<server, named, online, source, job, orphans>>

(* requireValidated, when no validation is recent enough.                    *)
RequireValidated ==
    /\ entry.life = "held"
    /\ online
    /\ entry' = ValidateEntry(entry)
    /\ entry' # entry
    /\ UNCHANGED <<server, named, online, source, job, orphans, spent>>

(* allowStale: a snapshot that is too old is refreshed behind the caller's   *)
(* back; without a snapshot the caller joins the hydration.                  *)
AllowStale ==
    /\ entry.life = "held"
    /\ online
    /\ spent.calls < MaxCalls
    /\ entry.snapshot # None => ~entry.hydrating /\ ~entry.drift
    /\ entry' = Hydrate(entry, entry.snapshot # None)
    /\ spent' = [spent EXCEPT !.calls = @ + 1]
    /\ UNCHANGED <<server, named, online, source, job, orphans>>

(* Without network access any of the modes only stops the timers.            *)
AskedOffline ==
    /\ entry.life = "held"
    /\ ~online
    /\ entry.poll \/ entry.retry
    /\ entry' = ClearNetworkTimers(entry)
    /\ UNCHANGED <<server, named, online, source, job, orphans, spent>>

(* The server catalogue saw the database's accessibility change.             *)
NoteAccessStateChanged ==
    /\ entry.life = "held"
    /\ ~entry.drift
    /\ entry' = ResetPollBackoff(entry)
    /\ UNCHANGED <<server, named, online, source, job, orphans, spent>>

(* A batch was executed: one that may be DDL.                                *)
NotifyExecutedBatch ==
    /\ entry.life = "held"
    /\ ~entry.drift
    /\ spent.calls < MaxCalls
    /\ LET reset == ResetPollBackoff(entry)
       IN  entry' \in {Hydrate(reset, TRUE), CheckDigest(reset)}
    /\ spent' = [spent EXCEPT !.calls = @ + 1]
    /\ UNCHANGED <<server, named, online, source, job, orphans>>

(* A definition that is neither cached nor being read.                       *)
GetModuleDefinition(o) ==
    /\ entry.life = "held"
    /\ online
    /\ entry.definition[o] = None
    /\ o \notin Range(entry.lane)
    /\ job.kind # o
    /\ entry' = [entry EXCEPT !.lane = Append(@, o)]
    /\ UNCHANGED <<server, named, online, source, job, orphans, spent>>

(* The store lets go of the entry: the engine and its source are disposed.   *)
Dispose ==
    /\ entry.life = "held"
    /\ entry' = ClearNetworkTimers(
                    [entry EXCEPT !.life = "gone", !.epoch = @ + 1, !.focus = "unwatched"])
    /\ source' = [source EXCEPT !.open = FALSE]
    /\ UNCHANGED <<server, named, online, job, orphans, spent>>

-----------------------------------------------------------------------------
(* Timers.                                                                   *)

RetryFires ==
    /\ entry.retry
    /\ LET fired == [entry EXCEPT !.retry = FALSE]
       IN  entry' = IF /\ online
                       /\ entry.status = "failed"
                       /\ ~entry.hydrating
                    THEN Hydrate(fired, FALSE) ELSE fired
    /\ UNCHANGED <<server, named, online, source, job, orphans, spent>>

(* A tick with no network, on a drifted entry, on one nobody holds or while  *)
(* the polls are suspended, ends the polling.                                *)
PollStops(e) == ~online \/ e.drift \/ e.life # "held" \/ e.focus = "suspended"

PollsReadyEntriesOnly(e) == FALSE

PollsFailedEntry(e) ==
    e.status = "failed" /\ e.snapshot # None /\ ~e.retry /\ ~e.hydrating

PollTick(e) ==
    IF PollStops(e) THEN e
    ELSE IF PollsFailedEntry(e)
         THEN [Hydrate(e, FALSE) EXCEPT !.ticks = @ \cup {"pass"}]
         ELSE IF CanCheckDigest(e)
              THEN [CheckDigest(e) EXCEPT !.ticks = @ \cup {"validation"}]
              ELSE SchedulePoll(e)

PollFires ==
    /\ entry.poll
    /\ entry' = PollTick([entry EXCEPT !.poll = FALSE])
    /\ UNCHANGED <<server, named, online, source, job, orphans, spent>>

(* focusTick: the window has been out of focus for longer than the grace.    *)
SuspendPolls ==
    /\ entry.focus = "watched"
    /\ spent.aways < MaxAways
    /\ entry' = [entry EXCEPT !.focus = "suspended", !.poll = FALSE]
    /\ spent' = [spent EXCEPT !.aways = @ + 1]
    /\ UNCHANGED <<server, named, online, source, job, orphans>>

WatchAgainOnly(e) == [e EXCEPT !.focus = "watched"]

WatchAgain(e) == PollTick([e EXCEPT !.focus = "watched"])

(* focusTick: back in focus, the entry is polled at once.                    *)
ResumePolls ==
    /\ entry.focus = "suspended"
    /\ entry' = WatchAgain(entry)
    /\ UNCHANGED <<server, named, online, source, job, orphans, spent>>

(* The limiter the store shares between its engines lets the digest through. *)
LimiterAdmits ==
    /\ entry.validation = "slot"
    /\ entry' = [entry EXCEPT !.validation = "lane", !.lane = Append(@, "digest")]
    /\ UNCHANGED <<server, named, online, source, job, orphans, spent>>

-----------------------------------------------------------------------------
(* The lane.                                                                 *)

Recycled(s) == [session |-> s.session + 1, open |-> FALSE]

Started(e, kind, s) ==
    [kind |-> kind, epoch |-> e.epoch, gen |-> e.gen, session |-> s.session,
     seen |-> None, ours |-> TRUE]

(* The next piece of work gets its turn, on a fresh session if the last one  *)
(* was left wedged; without network access it is over at once.  (hydrateCore *)
(* asks for the network a second time after it has set the status, with      *)
(* nothing but the notice to the listeners in between.)                      *)
LaneTurn ==
    /\ job = Idle
    /\ entry.lane # <<>>
    /\ LET kind == Head(entry.lane)
           turn == [entry EXCEPT !.lane = Tail(@), !.wedged = FALSE]
           fresh == IF entry.wedged THEN Recycled(source) ELSE source
           begins == IF kind = "hydrate" THEN CanHydrate(entry) ELSE online
       IN  /\ source' = fresh
           /\ job' = IF begins THEN Started(turn, kind, fresh) ELSE Idle
           /\ entry' = CASE kind = "hydrate" /\ begins ->
                              [turn EXCEPT !.status =
                                  IF turn.snapshot # None THEN "stale" ELSE "loading"]
                         [] kind = "hydrate" /\ ~begins -> PassOver(turn)
                         [] kind = "digest" /\ ~begins -> Finish(turn)
                         [] OTHER -> turn
    /\ UNCHANGED <<server, named, online, orphans, spent>>

(* The work opens its session, if it is not open, and reads.  A session      *)
(* opens by the name of the database; an open one stays in its database.     *)
CanRead(j) ==
    /\ j.seen = None
    /\ entry.life # "gone"
    /\ j.session = source.session
    /\ source.open \/ named

HasRead(j, ours) == [j EXCEPT !.seen = server, !.ours = ours]

(* Whether the work finds itself in its database.  A hydration whose first   *)
(* query fails, or has no answer to that, goes on as if it were.             *)
Identifies(j, ours) ==
    \/ ours = named /\ UNCHANGED spent
    \/ /\ j.kind = "hydrate"
       /\ ours = TRUE
       /\ spent.fails < MaxFails
       /\ spent' = [spent EXCEPT !.fails = @ + 1]

JobReads ==
    /\ job # Idle
    /\ CanRead(job)
    /\ \E ours \in BOOLEAN : Identifies(job, ours) /\ job' = HasRead(job, ours)
    /\ source' = [source EXCEPT !.open = TRUE]
    /\ UNCHANGED <<server, named, online, entry, orphans>>

OrphanReads ==
    \E j \in orphans :
        /\ CanRead(j)
        /\ \E ours \in BOOLEAN :
              /\ Identifies(j, ours)
              /\ orphans' = (orphans \ {j}) \cup {HasRead(j, ours)}
        /\ source' = [source EXCEPT !.open = TRUE]
        /\ UNCHANGED <<server, named, online, entry, job>>

(* A hydration that has read everything.  The identity of the database is    *)
(* looked at before the epoch is; only work of this epoch publishes.         *)
Publish(e, version) ==
    ResetPollBackoff(
        [e EXCEPT !.gen = @ + 1,
                  !.snapshot = [gen |-> e.gen + 1, read |-> version],
                  !.status = "ready",
                  !.lastDigest = None, !.manifestDigest = None,
                  !.attempts = 0, !.retry = FALSE,
                  !.definition = NoDefinitions, !.drift = FALSE])

HydrateEndsAnyway(e, j) ==
    LET latched == IF j.ours THEN e ELSE LatchInitialIdentityMismatch(e)
    IN  IF j.ours THEN Publish(e, j.seen) ELSE Failed(latched)

HydrateEnds(e, j) ==
    LET latched == IF j.ours THEN e ELSE LatchInitialIdentityMismatch(e)
    IN  IF j.epoch # e.epoch THEN latched
        ELSE IF j.ours THEN Publish(e, j.seen) ELSE Failed(latched)

(* A digest: an identity mismatch latches; a digest that differs from the    *)
(* last one, or from the one saved with a disk snapshot, forces a refresh.   *)
Baseline(e) == IF e.lastDigest # None THEN e.lastDigest ELSE e.manifestDigest

DigestEnds(e, j) ==
    LET noted == [e EXCEPT !.manifestDigest = None, !.lastDigest = j.seen]
    IN  IF ~j.ours THEN Finish(LatchIdentityDrift(e))
        ELSE IF Baseline(e) \in {None, j.seen} THEN Finish(noted)
        ELSE IF ~CanHydrate(noted) THEN Finish(Hydrate(noted, TRUE))
        ELSE [Hydrate(noted, TRUE) EXCEPT
                 !.validation = IF WaitsFor(noted, TRUE) = "pass"
                                THEN "refetch" ELSE "refetchNext"]

DefinitionEndsAnyway(e, j) == [e EXCEPT !.definition[j.kind] = j.seen]

(* A definition is cached if no hydration has published since it began.      *)
DefinitionEnds(e, j) ==
    IF e.gen = j.gen THEN [e EXCEPT !.definition[j.kind] = j.seen] ELSE e

JobEnds ==
    /\ job # Idle
    /\ job.seen # None
    /\ entry' = CASE job.kind = "hydrate" -> PassOver(HydrateEnds(entry, job))
                  [] job.kind = "digest" -> DigestEnds(entry, job)
                  [] job.kind \in Objects -> DefinitionEnds(entry, job)
    /\ job' = Idle
    /\ UNCHANGED <<server, named, online, source, orphans, spent>>

(* Abandoned work that finishes: nobody waits for it any more.               *)
OrphanEnds ==
    \E j \in orphans :
        /\ j.seen # None
        /\ entry' = CASE j.kind = "hydrate" -> HydrateEnds(entry, j)
                      [] j.kind = "digest" -> entry
                      [] j.kind \in Objects -> DefinitionEnds(entry, j)
        /\ orphans' = orphans \ {j}
        /\ UNCHANGED <<server, named, online, source, job, spent>>

(* A query fails: of itself, because no session opens under the name, or     *)
(* because its session was recycled or disposed under it.                    *)
CutOff(j) == j.session # source.session \/ entry.life = "gone"

CannotOpen(j) == j.seen = None /\ ~source.open /\ ~named

HydrateFailsQuietly(e, j) == IF j.epoch = e.epoch THEN ScheduleFailedRetry(e) ELSE e

HydrateFails(e, j) == IF j.epoch = e.epoch THEN Failed(e) ELSE e

JobFails ==
    /\ job # Idle
    /\ \/ (CutOff(job) \/ CannotOpen(job)) /\ UNCHANGED spent
       \/ /\ spent.fails < MaxFails
          /\ job.seen = None \/ (job.kind = "hydrate" /\ job.ours)
          /\ spent' = [spent EXCEPT !.fails = @ + 1]
    /\ entry' = CASE job.kind = "hydrate" -> PassOver(HydrateFails(entry, job))
                  [] job.kind = "digest" -> Finish(entry)
                  [] job.kind \in Objects -> entry
    /\ job' = Idle
    /\ UNCHANGED <<server, named, online, source, orphans>>

OrphanFails ==
    \E j \in orphans :
        /\ entry' = IF j.kind = "hydrate" THEN HydrateFails(entry, j) ELSE entry
        /\ orphans' = orphans \ {j}
        /\ UNCHANGED <<server, named, online, source, job, spent>>

AbandonedOnly(e) == [e EXCEPT !.epoch = @ + 1]

(* The watchdog gives the work up; it goes on by itself.                     *)
Abandoned(e) == [e EXCEPT !.epoch = @ + 1, !.wedged = TRUE]

WatchdogFires ==
    /\ job # Idle
    /\ spent.timeouts < MaxTimeouts
    /\ LET e == Abandoned(entry)
       IN  entry' = CASE job.kind = "hydrate" ->
                           PassOver(IF e.life = "gone" THEN e ELSE Failed(e))
                      [] job.kind = "digest" -> Finish(e)
                      [] job.kind \in Objects -> e
    /\ orphans' = orphans \cup {job}
    /\ job' = Idle
    /\ spent' = [spent EXCEPT !.timeouts = @ + 1]
    /\ UNCHANGED <<server, named, online, source>>

-----------------------------------------------------------------------------
(* The world around the engine.                                              *)

Ddl ==
    /\ server < MaxDdl
    /\ server' = server + 1
    /\ UNCHANGED <<named, online, source, entry, job, orphans, spent>>

Rename ==
    /\ spent.renames < MaxRenames
    /\ named' = ~named
    /\ spent' = [spent EXCEPT !.renames = @ + 1]
    /\ UNCHANGED <<server, online, source, entry, job, orphans>>

(* The open session of the source is lost; the next work to ask for one      *)
(* opens another, by the name of the database.                               *)
SessionLost ==
    /\ source.open
    /\ spent.fails < MaxFails
    /\ source' = [source EXCEPT !.open = FALSE]
    /\ spent' = [spent EXCEPT !.fails = @ + 1]
    /\ UNCHANGED <<server, named, online, entry, job, orphans>>

SwitchNetwork ==
    /\ spent.flips < MaxFlips
    /\ online' = ~online
    /\ spent' = [spent EXCEPT !.flips = @ + 1]
    /\ UNCHANGED <<server, named, source, entry, job, orphans>>

Next ==
    \/ Acquire \/ RequireLive \/ Refresh \/ RequireValidated \/ AllowStale
    \/ AskedOffline \/ NoteAccessStateChanged \/ NotifyExecutedBatch \/ Dispose
    \/ (\E o \in Objects : GetModuleDefinition(o))
    \/ RetryFires \/ PollFires \/ SuspendPolls \/ ResumePolls \/ LimiterAdmits
    \/ LaneTurn \/ JobReads \/ JobEnds \/ JobFails \/ WatchdogFires
    \/ OrphanReads \/ OrphanEnds \/ OrphanFails
    \/ Ddl \/ Rename \/ SessionLost \/ SwitchNetwork

Spec == Init /\ [][Next]_vars

(* Timers fire, the limiter lets go of its slots (each is held under a       *)
(* watchdog), promises are followed up, and the watchdog sees to it that     *)
(* the work on the lane ends one way or another.                             *)
Fairness ==
    /\ WF_vars(RetryFires)
    /\ WF_vars(PollFires)
    /\ WF_vars(LimiterAdmits)
    /\ WF_vars(LaneTurn)
    /\ WF_vars(JobReads \/ JobEnds \/ JobFails \/ WatchdogFires)

FairSpec == Spec /\ Fairness

-----------------------------------------------------------------------------
(* Properties.                                                               *)

(* Two pieces of work never query one session at a time: what the watchdog   *)
(* has abandoned keeps the session it had, and whoever comes next is on      *)
(* another (runExclusive and the wedged session it recycles).                *)
OneQueryPerSession ==
    \A j \in orphans : job # Idle => j.session # job.session

(* The snapshot never goes back: whatever hydrations were abandoned and      *)
(* still finish, a snapshot is only replaced by one of a later generation    *)
(* that was read no earlier.                                                 *)
MovesForward ==
    entry.snapshot # None =>
        /\ entry'.snapshot # None
        /\ entry'.snapshot # entry.snapshot =>
               /\ entry'.snapshot.gen > entry.snapshot.gen
               /\ entry'.snapshot.read >= entry.snapshot.read

SnapshotsMoveForward == [][MovesForward]_vars

(* A cached definition is never older than the snapshot it is shown with,    *)
(* although definitions are read beside hydrations and abandoned reads still *)
(* arrive.                                                                   *)
DefinitionsFitTheSnapshot ==
    \A o \in Objects :
        entry.definition[o] # None /\ entry.snapshot # None =>
            entry.definition[o] >= entry.snapshot.read

(* "loading" and "stale" mean that a refresh is in flight: no abandoned,     *)
(* failed or skipped pass leaves the entry in them.                          *)
StaleMeansRefreshing ==
    entry.status \in {"loading", "stale"} /\ entry.life = "held" => entry.hydrating

(* A caller that requires live metadata and is told "live" holds a snapshot  *)
(* that was read after it asked, whichever pass it joined - as long as       *)
(* neither the network nor the lease is taken away while it waits.           *)
AnswersLive ==
    /\ entry.caller.wait \in Waits
    /\ entry'.caller.wait = "live"
    /\ spent.flips = 0
    /\ entry.life = "held"
    => entry'.snapshot.read >= entry.caller.since

LiveAnswersAreFresh == [][AnswersLive]_vars

(* Polling goes on for as long as the lease is held: its timer is armed or a *)
(* tick is under way.  It stops only where the settings turn it off, when    *)
(* the entry has drifted to another database, when the network was switched  *)
(* off, and while the window is out of focus for longer than the grace,      *)
(* which suspends every poll; the return of the focus brings it back.        *)
PollKeepsGoing ==
    /\ entry.life = "held"
    /\ PollSeconds > 0
    /\ ~entry.drift
    /\ spent.flips = 0
    /\ entry.focus # "suspended"
    => entry.poll \/ entry.ticks # {}

(* No timer is armed once the lease is given back, although the ticks,       *)
(* passes and digests that were under way still end, and each end schedules  *)
(* a poll or a retry of its own.                                             *)
GoneIsQuiet == entry.life = "gone" => ~entry.poll /\ ~entry.retry

(* Nor is the poll armed while polls are suspended, by a tick that was under *)
(* way, by a DDL notice or by a hydration that publishes.                    *)
SuspendedIsQuiet == entry.focus = "suspended" => ~entry.poll

(* The chain of polls lives exactly as long as the lease is held and the     *)
(* window in use.                                                            *)
PollFollowsTheLease == PollKeepsGoing /\ GoneIsQuiet /\ SuspendedIsQuiet

(* Whoever waits has something to wait for: a refresh is in flight exactly   *)
(* while a hydration is queued or has its turn, and no pass that ends,       *)
(* fails, hangs or is skipped leaves a caller or a validation behind that    *)
(* waits for it, or for a follow-up that never starts.                       *)
NobodyWaitsForNothing ==
    /\ entry.hydrating <=> "hydrate" \in Range(entry.lane) \cup {job.kind}
    /\ entry.validation = "lane" => "digest" \in Range(entry.lane) \cup {job.kind}
    /\ entry.validation \in {"joined", "refetch", "refetchNext"} => entry.hydrating
    /\ entry.caller.wait \in Waits => entry.hydrating

(* A failed entry that still shows a snapshot is refreshed again, by the     *)
(* retry ladder and, behind it, by the poll: so while the poll goes on.      *)
CanHeal ==
    /\ entry.life = "held"
    /\ ~entry.drift
    /\ spent.flips = 0
    /\ PollSeconds > 0
    /\ entry.focus # "suspended"

FailedEntriesHeal ==
    (entry.status = "failed" /\ entry.snapshot # None /\ CanHeal)
        ~> (entry.status = "ready" \/ ~CanHeal \/ ~named)

(* Every strict caller is answered, whatever hangs and whatever is lost.     *)
CallersAreAnswered == (entry.caller.wait \in Waits) ~> (entry.caller.wait \notin Waits)

(* "validated" = TTL/digest-confirmed (cache/metadataFreshness.ts:114): a    *)
(* digest that answers "unchanged", and becomes the one the next is compared *)
(* to, has confirmed the snapshot the engine shows.  The first digest after  *)
(* a hydration has nothing to be compared to and answers "unchanged" all the *)
(* same.                                                                     *)
Confirms ==
    /\ job.kind = "digest"
    /\ job.seen # None
    /\ entry.validation = "lane"
    /\ entry'.validation = None
    /\ entry'.lastDigest = job.seen
    => entry'.snapshot.read >= job.seen

ValidatedIsConfirmed == [][Confirms]_vars
=============================================================================
