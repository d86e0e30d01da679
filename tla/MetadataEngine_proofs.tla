----------------------- MODULE MetadataEngine_proofs ------------------------
(* Proofs about the catalogue engine: its types, what abandoned work cannot  *)
(* do, and what callers, status and polls can rely on.                       *)
EXTENDS MetadataEngine, TLAPS

-----------------------------------------------------------------------------
(* What the operations of the engine do to an entry.                         *)

(* No timer is armed on an entry that is gone, nor the poll while polls are  *)
(* suspended, and only an entry that is held watches the focus.              *)
Quiet(e) ==
    /\ e.life = "gone" => ~e.poll /\ ~e.retry
    /\ e.focus = "suspended" => ~e.poll
    /\ e.focus # "unwatched" => e.life = "held"

(* The part of an entry that only work on the lane and disposal change is    *)
(* the same.                                                                 *)
SameCore(e, f) ==
    /\ f.life = e.life /\ f.snapshot = e.snapshot /\ f.gen = e.gen
    /\ f.status = e.status /\ f.definition = e.definition
    /\ f.epoch = e.epoch /\ f.wedged = e.wedged /\ f.drift = e.drift
    /\ f.focus = e.focus
    /\ Quiet(e) => Quiet(f)

(* What is queued or under way.                                              *)
SameWork(e, f) ==
    /\ f.lane = e.lane /\ f.hydrating = e.hydrating /\ f.forced = e.forced
    /\ f.validation = e.validation

SameCaller(e, f) == f.caller = e.caller

SamePoll(e, f) == f.poll = e.poll /\ f.ticks = e.ticks

LEMMA TimersStop ==
    ASSUME NEW e \in Entry
    PROVE  LET f == ClearNetworkTimers(e)
           IN  /\ f \in Entry /\ SameCore(e, f) /\ SameWork(e, f) /\ SameCaller(e, f)
               /\ f.ticks = e.ticks
BY ZenonT(60) DEF ClearNetworkTimers, Entry, Quiet, SameCore, SameWork, SameCaller

LEMMA PollScheduled ==
    ASSUME NEW e \in Entry
    PROVE  LET f == SchedulePoll(e)
           IN  /\ f \in Entry /\ SameCore(e, f) /\ SameWork(e, f) /\ SameCaller(e, f)
               /\ f.ticks = e.ticks
               /\ f.poll <=> e.poll \/ PollsAgain(e)
<1> DEFINE due == e.poll \/ PollsAgain(e)
           f == SchedulePoll(e)
<1>1. due \in BOOLEAN BY DEF Entry, PollsAgain
<1>2. f = [e EXCEPT !.poll = due] BY DEF SchedulePoll
<1>3. f.poll = due BY <1>2 DEF Entry
<1>4. Quiet(e) => Quiet(f)
  <2>1. f.life = e.life /\ f.retry = e.retry /\ f.focus = e.focus BY <1>2 DEF Entry
  <2> HIDE DEF f
  <2> QED BY <1>3, <2>1 DEF Quiet, PollsAgain
<1> HIDE DEF due
<1>5. /\ f \in Entry /\ SameCore(e, f) /\ SameWork(e, f) /\ SameCaller(e, f)
      /\ f.ticks = e.ticks
  BY <1>1, <1>2, <1>4 DEF Entry, SameCore, SameWork, SameCaller
<1> QED BY <1>3, <1>5 DEF due

LEMMA PollReset ==
    ASSUME NEW e \in Entry
    PROVE  LET f == ResetPollBackoff(e)
           IN  /\ f \in Entry /\ SameCore(e, f) /\ SameWork(e, f) /\ SameCaller(e, f)
               /\ f.ticks = e.ticks
               /\ f.poll <=> PollsAgain(e)
<1> DEFINE off == [e EXCEPT !.poll = FALSE]
<1>1. /\ off \in Entry /\ SameCore(e, off) /\ SameWork(e, off) /\ SameCaller(e, off)
      /\ off.ticks = e.ticks /\ ~off.poll
  BY ZenonT(60) DEF Entry, Quiet, SameCore, SameWork, SameCaller
<1>2. ResetPollBackoff(e) = SchedulePoll(off) BY DEF ResetPollBackoff
<1> HIDE DEF off
<1> QED BY <1>1, <1>2, PollScheduled DEF SameCore, SameWork, SameCaller, PollsAgain

(* A failed pass only marks the entry, and perhaps arms the retry timer.     *)
LEMMA RetryScheduled ==
    ASSUME NEW e \in Entry
    PROVE  LET f == ScheduleFailedRetry(e)
           IN  /\ f \in Entry /\ SameCore(e, f) /\ SameWork(e, f) /\ SameCaller(e, f)
               /\ SamePoll(e, f)
<1> DEFINE due == /\ online /\ e.life = "held" /\ e.snapshot # None /\ ~e.retry
                  /\ e.attempts < Ladder
<1>1. CASE ~due
  <2>1. ScheduleFailedRetry(e) = e BY <1>1 DEF ScheduleFailedRetry
  <2> QED BY <2>1 DEF SameCore, SameWork, SameCaller, SamePoll
<1>2. CASE due
  <2>1. ScheduleFailedRetry(e) = [e EXCEPT !.retry = TRUE, !.attempts = @ + 1]
    BY <1>2 DEF ScheduleFailedRetry
  <2>2. e.attempts + 1 \in 0..Ladder
    <3>1. e.attempts \in 0..Ladder BY DEF Entry
    <3>2. Ladder \in Nat BY BoundsAreNumbers
    <3> QED BY <1>2, <3>1, <3>2
  <2>3. Quiet(e) => Quiet(ScheduleFailedRetry(e))
    <3> DEFINE f == ScheduleFailedRetry(e)
    <3>1. f.life = e.life /\ f.poll = e.poll /\ f.focus = e.focus BY <2>1 DEF Entry
    <3>2. e.life = "held" BY <1>2
    <3> HIDE DEF f
    <3>3. Quiet(e) => Quiet(f) BY <3>1, <3>2 DEF Quiet
    <3> QED BY <3>3 DEF f
  <2> HIDE DEF due
  <2> QED BY <2>1, <2>2, <2>3, ZenonT(60) DEF Entry, SameCore, SameWork, SameCaller, SamePoll
<1> QED BY <1>1, <1>2

LEMMA FailedEffect ==
    ASSUME NEW e \in Entry
    PROVE  LET f == Failed(e)
           IN  /\ f \in Entry /\ SameWork(e, f) /\ SameCaller(e, f) /\ SamePoll(e, f)
               /\ f.status = "failed"
               /\ SameCore([e EXCEPT !.status = "failed"], f)
<1> DEFINE marked == [e EXCEPT !.status = "failed"]
<1>1. /\ marked \in Entry /\ SameWork(e, marked) /\ SameCaller(e, marked)
      /\ SamePoll(e, marked) /\ marked.status = "failed"
  BY DEF Entry, SameWork, SameCaller, SamePoll
<1>2. Failed(e) = ScheduleFailedRetry(marked) BY DEF Failed
<1> HIDE DEF marked
<1>3. /\ Failed(e) \in Entry /\ SameWork(e, Failed(e)) /\ SameCaller(e, Failed(e))
      /\ SamePoll(e, Failed(e)) /\ Failed(e).status = "failed"
      /\ SameCore(marked, Failed(e))
  BY <1>1, <1>2, RetryScheduled DEF SameCore, SameWork, SameCaller, SamePoll
<1> QED BY <1>3 DEF marked

(* A hydration is asked for.                                                 *)
LEMMA HydrateEffect ==
    ASSUME NEW e \in Entry, NEW force \in BOOLEAN
    PROVE  LET f == Hydrate(e, force)
           IN  /\ f \in Entry /\ SameCore(e, f) /\ SameCaller(e, f)
               /\ f.validation = e.validation /\ f.ticks = e.ticks
               /\ ~CanHydrate(e) => SameWork(e, f)
               /\ CanHydrate(e) =>
                     /\ f.hydrating /\ f.poll = e.poll
                     /\ e.hydrating => f.lane = e.lane /\ (f.forced <=> e.forced \/ force)
                     /\ ~e.hydrating => f.lane = Append(e.lane, "hydrate") /\ f.forced = e.forced
<1> DEFINE f == Hydrate(e, force)
<1>1. CASE ~CanHydrate(e) BY <1>1, TimersStop DEF Hydrate, SameWork
<1>2. CASE CanHydrate(e) /\ e.hydrating
  <2> DEFINE asked == e.forced \/ force
  <2>1. asked \in BOOLEAN OBVIOUS
  <2>2. f = [e EXCEPT !.forced = asked] BY <1>2 DEF Hydrate
  <2>3. f.forced = asked BY <2>2 DEF Entry
  <2> HIDE DEF asked
  <2>4. f \in Entry /\ SameCore(e, f) /\ SameCaller(e, f) /\ SamePoll(e, f)
        /\ f.validation = e.validation /\ f.hydrating = e.hydrating /\ f.lane = e.lane
    BY <2>1, <2>2 DEF Entry, Quiet, SameCore, SameCaller, SamePoll
  <2> QED BY <1>2, <2>3, <2>4 DEF asked, SamePoll
<1>3. CASE CanHydrate(e) /\ ~e.hydrating
  <2>1. f = [e EXCEPT !.hydrating = TRUE, !.lane = Append(@, "hydrate")]
    BY <1>3 DEF Hydrate
  <2>2. Append(e.lane, "hydrate") \in Seq(Kinds) BY DEF Entry, Kinds
  <2>3. Quiet(e) => Quiet(f)
    <3>1. f.life = e.life /\ f.poll = e.poll /\ f.retry = e.retry /\ f.focus = e.focus
      BY <2>1 DEF Entry
    <3> HIDE DEF f
    <3> QED BY <3>1 DEF Quiet
  <2>4. f \in Entry /\ SameCore(e, f) /\ SameCaller(e, f) /\ SamePoll(e, f)
        /\ f.validation = e.validation /\ f.hydrating /\ f.forced = e.forced
        /\ f.lane = Append(e.lane, "hydrate")
    BY <2>1, <2>2, <2>3, ZenonT(60) DEF Entry, SameCore, SameCaller, SamePoll
  <2> QED BY <1>3, <2>4 DEF SamePoll
<1> QED BY <1>1, <1>2, <1>3

(* The validation in flight is over.                                         *)
LEMMA FinishEffect ==
    ASSUME NEW e \in Entry
    PROVE  LET f == Finish(e)
           IN  /\ f \in Entry /\ SameCore(e, f) /\ SameCaller(e, f)
               /\ f.lane = e.lane /\ f.hydrating = e.hydrating /\ f.forced = e.forced
               /\ f.validation = None
               /\ \/ f.ticks = e.ticks /\ f.poll = e.poll
                  \/ f.poll <=> e.poll \/ PollsAgain(e)
<1> DEFINE done == [e EXCEPT !.validation = None, !.ticks = @ \ {"validation"}]
<1>1. /\ done \in Entry /\ SameCore(e, done) /\ SameCaller(e, done)
      /\ done.lane = e.lane /\ done.hydrating = e.hydrating /\ done.forced = e.forced
      /\ done.validation = None /\ done.poll = e.poll
      /\ done.ticks = e.ticks \ {"validation"}
  BY ZenonT(60) DEF Entry, Quiet, SameCore, SameCaller
<1>2. Finish(e) = IF "validation" \in e.ticks THEN SchedulePoll(done) ELSE done
  BY DEF Finish
<1> HIDE DEF done
<1>3. CASE "validation" \in e.ticks
  <2>1. Finish(e) = SchedulePoll(done) BY <1>2, <1>3
  <2> QED BY <1>1, <2>1, PollScheduled DEF SameCore, SameWork, SameCaller, PollsAgain
<1>4. CASE "validation" \notin e.ticks
  <2>1. Finish(e) = done BY <1>2, <1>4
  <2>2. done.ticks = e.ticks BY <1>1, <1>4 DEF Entry
  <2> QED BY <1>1, <2>1, <2>2
<1> QED BY <1>3, <1>4

(* A pass is over: what the strict caller that waits does.                   *)
LEMMA CallerEffect ==
    ASSUME NEW e \in Entry, NEW more \in BOOLEAN, TypeOK
    PROVE  LET f == CallerGoesOn(e, more)
           IN  /\ f \in Entry /\ SameCore(e, f) /\ SameWork(e, f) /\ SamePoll(e, f)
               /\ f.caller.wait \in Waits =>
                     e.caller.wait = "followUp" /\ more /\ f.caller = [wait |-> "pass", since |-> e.caller.since]
               /\ e.caller.wait \in Waits /\ f.caller.wait = "live" => e.status = "ready"
               /\ e.caller.wait = "followUp" /\ more => f.caller.wait = "pass"
<1> DEFINE f == CallerGoesOn(e, more)
<1>0. 0 \in Version BY BoundsAreNumbers DEF Version
<1>1. CASE e.caller.wait = "followUp" /\ more
  <2>1. f = [e EXCEPT !.caller.wait = "pass"] BY <1>1 DEF CallerGoesOn
  <2>2. f.caller = [wait |-> "pass", since |-> e.caller.since] BY <2>1 DEF Entry
  <2>3. f \in Entry /\ SameCore(e, f) /\ SameWork(e, f) /\ SamePoll(e, f)
    BY <2>1 DEF Entry, Quiet, SameCore, SameWork, SamePoll, Waits
  <2>4. f.caller.wait = "pass" BY <2>2
  <2> HIDE DEF f
  <2> QED BY <1>1, <2>2, <2>3, <2>4 DEF f
<1>2. CASE e.caller.wait = "pass" \/ (e.caller.wait = "followUp" /\ ~more)
  <2>1. f = [e EXCEPT !.caller = [wait |-> Answered(e), since |-> 0]] BY <1>2 DEF CallerGoesOn
  <2>2. Answered(e) \in {"live", "unavailable"} /\ (Answered(e) = "live" => e.status = "ready")
    BY DEF Answered
  <2>3. f.caller = [wait |-> Answered(e), since |-> 0] BY <2>1 DEF Entry
  <2>4. f \in Entry /\ SameCore(e, f) /\ SameWork(e, f) /\ SamePoll(e, f)
    BY <1>0, <2>1, <2>2 DEF Entry, Quiet, SameCore, SameWork, SamePoll
  <2>5. f.caller.wait \notin Waits BY <2>2, <2>3 DEF Waits
  <2>6. f.caller.wait = "live" => e.status = "ready" BY <2>2, <2>3
  <2>7. ~(e.caller.wait = "followUp" /\ more) BY <1>2
  <2> QED BY <2>4, <2>5, <2>6, <2>7
<1>3. CASE e.caller.wait \notin Waits
  <2>1. f = e BY <1>3 DEF CallerGoesOn, Waits
  <2> QED BY <1>3, <2>1 DEF SameCore, SameWork, SamePoll, Waits
<1> QED BY <1>1, <1>2, <1>3 DEF Waits

(* What the validation in flight does.                                       *)
LEMMA ValidationEffect ==
    ASSUME NEW e \in Entry, NEW more \in BOOLEAN
    PROVE  LET f == ValidationGoesOn(e, more)
           IN  /\ f \in Entry /\ SameCore(e, f) /\ SameCaller(e, f)
               /\ f.lane = e.lane /\ f.hydrating = e.hydrating /\ f.forced = e.forced
               /\ IF e.validation \in {"joined", "refetch", "refetchNext"}
                  THEN f.validation = None \/ (f.validation = "refetch" /\ more)
                  ELSE f.validation = e.validation
               /\ \/ f.ticks = e.ticks /\ f.poll = e.poll
                  \/ f.poll <=> e.poll \/ PollsAgain(e)
<1> DEFINE f == ValidationGoesOn(e, more)
<1>1. CASE e.validation = "refetchNext" /\ more
  <2>1. f = [e EXCEPT !.validation = "refetch"] BY <1>1 DEF ValidationGoesOn
  <2> QED BY <1>1, <2>1, ZenonT(60) DEF Entry, Quiet, Validations, SameCore, SameCaller
<1>2. CASE e.validation \in {"joined", "refetch"} \/ (e.validation = "refetchNext" /\ ~more)
  <2>1. f = Finish(e) BY <1>2 DEF ValidationGoesOn
  <2> QED BY <1>2, <2>1, FinishEffect
<1>3. CASE e.validation \notin {"joined", "refetch", "refetchNext"}
  <2>1. f = e BY <1>3 DEF ValidationGoesOn
  <2> QED BY <1>3, <2>1 DEF SameCore, SameCaller
<1> QED BY <1>1, <1>2, <1>3

(* What the poll tick that waits for the pass does.                          *)
LEMMA TickEffect ==
    ASSUME NEW e \in Entry
    PROVE  LET f == TickGoesOn(e)
           IN  /\ f \in Entry /\ SameCore(e, f) /\ SameWork(e, f) /\ SameCaller(e, f)
               /\ \/ f.ticks = e.ticks /\ f.poll = e.poll
                  \/ f.poll <=> e.poll \/ PollsAgain(e)
<1> DEFINE done == [e EXCEPT !.ticks = @ \ {"pass"}]
<1>1. /\ done \in Entry /\ SameCore(e, done) /\ SameWork(e, done) /\ SameCaller(e, done)
      /\ done.poll = e.poll
  BY DEF Entry, Quiet, SameCore, SameWork, SameCaller
<1>2. TickGoesOn(e) = IF "pass" \in e.ticks THEN SchedulePoll(done) ELSE e
  BY DEF TickGoesOn
<1> HIDE DEF done
<1>3. CASE "pass" \in e.ticks
  <2>1. TickGoesOn(e) = SchedulePoll(done) BY <1>2, <1>3
  <2> QED BY <1>1, <2>1, PollScheduled DEF SameCore, SameWork, SameCaller, PollsAgain
<1>4. CASE "pass" \notin e.ticks
  <2>1. TickGoesOn(e) = e BY <1>2, <1>4
  <2> QED BY <2>1 DEF SameCore, SameWork, SameCaller
<1> QED BY <1>3, <1>4

-----------------------------------------------------------------------------
(* The lane.                                                                 *)

LEMMA RangeOfAppend ==
    ASSUME NEW S, NEW s \in Seq(S), NEW x \in S
    PROVE  /\ Range(Append(s, x)) = Range(s) \cup {x}
           /\ IsInjective(s) /\ x \notin Range(s) => IsInjective(Append(s, x))
<1> DEFINE t == Append(s, x)
<1>1. /\ t \in Seq(S) /\ Len(t) = Len(s) + 1 /\ DOMAIN t = 1..(Len(s) + 1)
      /\ DOMAIN s = 1..Len(s) /\ Len(s) \in Nat
      /\ t[Len(s) + 1] = x /\ \A i \in 1..Len(s) : t[i] = s[i]
  OBVIOUS
<1> HIDE DEF t
<1>2. Range(t) = Range(s) \cup {x}
  <2>1. ASSUME NEW y \in Range(t) PROVE y \in Range(s) \cup {x}
    <3>1. PICK i \in 1..(Len(s) + 1) : t[i] = y BY <1>1, <2>1 DEF Range
    <3> QED BY <1>1, <3>1 DEF Range
  <2>2. ASSUME NEW y \in Range(s) \cup {x} PROVE y \in Range(t)
    <3>1. CASE y = x BY <1>1, <3>1 DEF Range
    <3>2. CASE y \in Range(s)
      <4>1. PICK i \in 1..Len(s) : s[i] = y BY <1>1, <3>2 DEF Range
      <4>2. i \in 1..(Len(s) + 1) /\ t[i] = y BY <1>1, <4>1
      <4> QED BY <1>1, <4>2 DEF Range
    <3> QED BY <2>2, <3>1, <3>2
  <2> QED BY <2>1, <2>2
<1>3. ASSUME IsInjective(s), x \notin Range(s) PROVE IsInjective(t)
  <2> SUFFICES ASSUME NEW i \in 1..(Len(s) + 1), NEW j \in 1..(Len(s) + 1), t[i] = t[j]
               PROVE  i = j
    BY <1>1 DEF IsInjective
  <2>1. \A n \in 1..Len(s) : s[n] # x BY <1>1, <1>3 DEF Range
  <2>2. CASE i \in 1..Len(s) /\ j \in 1..Len(s) BY <1>1, <1>3, <2>2 DEF IsInjective
  <2>3. CASE i = Len(s) + 1 BY <1>1, <2>1, <2>3
  <2>4. CASE j = Len(s) + 1 BY <1>1, <2>1, <2>4
  <2> QED BY <1>1, <2>2, <2>3, <2>4
<1> QED BY <1>2, <1>3 DEF t

LEMMA RangeOfTail ==
    ASSUME NEW S, NEW s \in Seq(S), s # <<>>, IsInjective(s)
    PROVE  /\ Head(s) \in Range(s) /\ Head(s) \in S /\ Tail(s) \in Seq(S)
           /\ Range(Tail(s)) = Range(s) \ {Head(s)}
           /\ IsInjective(Tail(s))
<1> DEFINE t == Tail(s)
<1>1. /\ t \in Seq(S) /\ Len(s) \in Nat /\ Len(s) > 0 /\ Len(t) = Len(s) - 1
      /\ DOMAIN s = 1..Len(s) /\ DOMAIN t = 1..(Len(s) - 1)
      /\ Head(s) = s[1] /\ Head(s) \in S
      /\ \A i \in 1..(Len(s) - 1) : t[i] = s[i + 1]
  OBVIOUS
<1> HIDE DEF t
<1>2. Head(s) \in Range(s) BY <1>1 DEF Range
<1>3. IsInjective(t)
  <2> SUFFICES ASSUME NEW i \in 1..(Len(s) - 1), NEW j \in 1..(Len(s) - 1), t[i] = t[j]
               PROVE  i = j
    BY <1>1 DEF IsInjective
  <2>1. i + 1 \in 1..Len(s) /\ j + 1 \in 1..Len(s) /\ s[i + 1] = s[j + 1] BY <1>1
  <2>2. i + 1 = j + 1 BY <1>1, <2>1 DEF IsInjective
  <2> QED BY <2>2
<1>4. ASSUME NEW y \in Range(t) PROVE y \in Range(s) /\ y # Head(s)
  <2>1. PICK i \in 1..(Len(s) - 1) : t[i] = y BY <1>1, <1>4 DEF Range
  <2>2. i + 1 \in 1..Len(s) /\ s[i + 1] = y /\ 1 \in 1..Len(s) /\ i + 1 # 1 BY <1>1, <2>1
  <2>3. y # s[1] BY <1>1, <2>2 DEF IsInjective
  <2> QED BY <1>1, <2>2, <2>3 DEF Range
<1>5. ASSUME NEW y \in Range(s), y # Head(s) PROVE y \in Range(t)
  <2>1. PICK i \in 1..Len(s) : s[i] = y BY <1>1, <1>5 DEF Range
  <2>2. i # 1 BY <1>1, <1>5, <2>1
  <2>3. i - 1 \in 1..(Len(s) - 1) /\ (i - 1) + 1 = i BY <1>1, <2>2
  <2>4. t[i - 1] = y BY <1>1, <2>1, <2>3
  <2> QED BY <1>1, <2>3, <2>4 DEF Range
<1> QED BY <1>1, <1>2, <1>3, <1>4, <1>5 DEF t

Queued(e) == Range(e.lane)

(* While work of kind k has the lane: no kind is there twice, a hydration is *)
(* in flight exactly while one is queued or running, and so is a digest.     *)
LaneBase(e, k) ==
    /\ IsInjective(e.lane)
    /\ k \in Kinds => k \notin Queued(e)
    /\ e.hydrating <=> "hydrate" \in Queued(e) \cup {k}
    /\ e.validation = "lane" <=> "digest" \in Queued(e) \cup {k}

(* Who waits for a hydration waits for one that is in flight.                *)
LaneOK(e, k) ==
    /\ LaneBase(e, k)
    /\ e.validation \in {"joined", "refetch"} => e.hydrating
    /\ e.validation = "refetchNext" => e.hydrating /\ e.forced

LEMMA SameWorkSameLane ==
    ASSUME NEW e, NEW f, NEW k, SameWork(e, f), LaneOK(e, k)
    PROVE  LaneOK(f, k)
BY DEF SameWork, LaneOK, LaneBase, Queued

LEMMA HydrateLaneBase ==
    ASSUME NEW e \in Entry, NEW force \in BOOLEAN, NEW k, LaneBase(e, k)
    PROVE  LaneBase(Hydrate(e, force), k)
<1> DEFINE f == Hydrate(e, force)
<1>1. e.lane \in Seq(Kinds) /\ "hydrate" \in Kinds BY DEF Entry, Kinds
<1>2. CASE ~CanHydrate(e) BY <1>2, HydrateEffect DEF SameWork, LaneBase, Queued
<1>3. CASE CanHydrate(e) /\ e.hydrating BY <1>3, HydrateEffect DEF LaneBase, Queued
<1>4. CASE CanHydrate(e) /\ ~e.hydrating
  <2>1. /\ f.hydrating /\ f.lane = Append(e.lane, "hydrate") /\ f.validation = e.validation
    BY <1>4, HydrateEffect
  <2>2. "hydrate" \notin Queued(e) /\ k # "hydrate" BY <1>4 DEF LaneBase
  <2>3. Queued(f) = Queued(e) \cup {"hydrate"} /\ IsInjective(f.lane)
    BY <1>1, <2>1, <2>2, RangeOfAppend DEF Queued, LaneBase
  <2>4. k \in Kinds => k \notin Queued(f) BY <2>2, <2>3 DEF LaneBase
  <2>5. f.validation = "lane" <=> "digest" \in Queued(f) \cup {k} BY <2>1, <2>3 DEF LaneBase
  <2> HIDE DEF f
  <2>6. LaneBase(f, k) BY <2>1, <2>3, <2>4, <2>5 DEF LaneBase
  <2> QED BY <2>6 DEF f
<1> QED BY <1>2, <1>3, <1>4

LEMMA HydrateLane ==
    ASSUME NEW e \in Entry, NEW force \in BOOLEAN, NEW k, LaneOK(e, k)
    PROVE  LaneOK(Hydrate(e, force), k)
<1> DEFINE f == Hydrate(e, force)
<1>1. LaneBase(f, k) BY HydrateLaneBase DEF LaneOK
<1>2. CASE ~CanHydrate(e) BY <1>2, HydrateEffect, SameWorkSameLane
<1>3. CASE CanHydrate(e) /\ e.hydrating BY <1>1, <1>3, HydrateEffect DEF LaneOK
<1>4. CASE CanHydrate(e) /\ ~e.hydrating BY <1>1, <1>4, HydrateEffect DEF LaneOK
<1> QED BY <1>2, <1>3, <1>4

(* The poll goes on by itself.                                               *)
PollOK(e) ==
    e.life = "held" /\ PollSeconds > 0 /\ ~e.drift /\ e.focus # "suspended"
        => e.poll \/ e.ticks # {}

(* Either the poll and its ticks are as before, or it has been scheduled.    *)
Polled(e, f) ==
    \/ f.ticks = e.ticks /\ f.poll = e.poll
    \/ f.poll <=> e.poll \/ PollsAgain(e)

LEMMA PolledIsOK ==
    ASSUME NEW e, NEW f, online, PollOK(e), SameCore(e, f), Polled(e, f)
    PROVE  PollOK(f)
BY DEF PollOK, SameCore, Polled, PollsAgain

LEMMA HydratePolls ==
    ASSUME NEW e \in Entry, NEW force \in BOOLEAN, online, PollOK(e)
    PROVE  PollOK(Hydrate(e, force))
<1>1. CASE CanHydrate(e) BY <1>1, HydrateEffect DEF PollOK, SameCore
<1>2. CASE ~CanHydrate(e)
  <2>1. e.life = "gone" BY <1>2 DEF CanHydrate
  <2> QED BY <2>1, HydrateEffect DEF PollOK, SameCore
<1> QED BY <1>1, <1>2

(* The end of a pass: the entry goes on with the follow-up or without.       *)
LEMMA PassOverEffect ==
    ASSUME TypeOK, NEW e \in Entry, LaneOK(e, "hydrate")
    PROVE  LET f == PassOver(e)
           IN  /\ f \in Entry /\ SameCore(e, f) /\ LaneOK(f, None)
               /\ f.caller.wait \in Waits =>
                     /\ e.caller.wait = "followUp" /\ f.hydrating
                     /\ f.caller = [wait |-> "pass", since |-> e.caller.since]
               /\ e.caller.wait \in Waits /\ f.caller.wait = "live" => e.status = "ready"
               /\ e.caller.wait = "followUp" /\ e.forced /\ CanHydrate(e) => f.caller.wait = "pass"
               /\ online /\ PollOK(e) => PollOK(f)
<1> DEFINE over == [e EXCEPT !.hydrating = FALSE, !.forced = FALSE]
           again == e.forced /\ e.life # "gone"
           next == IF again THEN Hydrate(over, FALSE) ELSE over
           told == CallerGoesOn(next, next.hydrating)
           checked == ValidationGoesOn(told, next.hydrating)
           f == TickGoesOn(checked)
<1>1. f = PassOver(e) BY DEF PassOver
<1>0. Quiet(e) => Quiet(over)
  <2>1. /\ over.life = e.life /\ over.poll = e.poll /\ over.retry = e.retry
        /\ over.focus = e.focus
    BY DEF Entry
  <2> HIDE DEF over
  <2> QED BY <2>1 DEF Quiet
<1>2. /\ over \in Entry /\ SameCore(e, over) /\ SameCaller(e, over) /\ SamePoll(e, over)
      /\ over.lane = e.lane /\ over.validation = e.validation /\ ~over.hydrating /\ ~over.forced
  BY <1>0, ZenonT(60) DEF Entry, SameCore, SameCaller, SamePoll
<1>3. LaneBase(over, None)
  <2>1. /\ None \notin Kinds /\ "hydrate" # "digest" /\ "hydrate" \in Kinds
        /\ "hydrate" # None /\ "digest" # None
    BY NoneIsNothing DEF Kinds
  <2>2. "hydrate" \notin Queued(e) BY <2>1 DEF LaneOK, LaneBase
  <2> HIDE DEF over
  <2> QED BY <1>2, <2>1, <2>2 DEF LaneOK, LaneBase, Queued
<1> HIDE DEF over
<1>4. /\ next \in Entry /\ SameCore(e, next) /\ SameCaller(e, next)
      /\ next.validation = e.validation
  BY <1>2, HydrateEffect, ZenonT(60) DEF SameCore, SameCaller
<1>5. LaneBase(next, None) BY <1>2, <1>3, HydrateLaneBase
<1>6. e.forced /\ CanHydrate(e) => next.hydrating
  BY <1>2, HydrateEffect DEF CanHydrate, SameCore
<1>7. online /\ PollOK(e) => PollOK(next)
  <2>1. PollOK(e) => PollOK(over) BY <1>2 DEF PollOK, SameCore, SamePoll
  <2> QED BY <1>2, <2>1, HydratePolls
<1>8. next.hydrating \in BOOLEAN BY <1>4 DEF Entry
<1> HIDE DEF next
<1>9. /\ told \in Entry /\ SameCore(next, told) /\ SameWork(next, told) /\ SamePoll(next, told)
      /\ told.caller.wait \in Waits =>
           /\ next.caller.wait = "followUp" /\ next.hydrating
           /\ told.caller = [wait |-> "pass", since |-> next.caller.since]
      /\ next.caller.wait \in Waits /\ told.caller.wait = "live" => next.status = "ready"
      /\ next.caller.wait = "followUp" /\ next.hydrating => told.caller.wait = "pass"
  BY <1>4, <1>8, CallerEffect
<1> HIDE DEF told
<1>10. /\ checked \in Entry /\ SameCore(told, checked) /\ SameCaller(told, checked)
       /\ checked.lane = told.lane /\ checked.hydrating = told.hydrating /\ checked.forced = told.forced
       /\ IF told.validation \in {"joined", "refetch", "refetchNext"}
          THEN checked.validation = None \/ (checked.validation = "refetch" /\ next.hydrating)
          ELSE checked.validation = told.validation
       /\ Polled(told, checked)
  BY <1>8, <1>9, ValidationEffect DEF Polled
<1> HIDE DEF checked
<1>11. LaneOK(checked, None)
  <2>1. None \notin {"lane", "joined", "refetch", "refetchNext"} BY NoneIsNothing
  <2>2. LaneBase(checked, None)
    BY <1>5, <1>9, <1>10, <2>1 DEF LaneBase, Queued, SameWork
  <2> QED BY <1>9, <1>10, <2>1, <2>2 DEF LaneOK, SameWork
<1>12. /\ f \in Entry /\ SameCore(checked, f) /\ SameWork(checked, f) /\ SameCaller(checked, f)
       /\ Polled(checked, f)
  BY <1>10, TickEffect DEF Polled
<1> HIDE DEF f
<1>13. f \in Entry /\ SameCore(e, f) BY <1>4, <1>9, <1>10, <1>12 DEF SameCore
<1>14. LaneOK(f, None) BY <1>11, <1>12, SameWorkSameLane
<1>15. /\ f.caller = told.caller /\ f.hydrating = next.hydrating /\ next.caller = e.caller
       /\ next.status = e.status
  BY <1>4, <1>9, <1>10, <1>12 DEF SameCaller, SameWork, SameCore
<1>16. online /\ PollOK(e) => PollOK(f)
  <2>1. SUFFICES ASSUME online, PollOK(e) PROVE PollOK(f) OBVIOUS
  <2>2. PollOK(told) BY <1>7, <1>9, <2>1 DEF PollOK, SameCore, SamePoll
  <2>3. PollOK(checked) BY <1>10, <2>1, <2>2, PolledIsOK
  <2> QED BY <1>12, <2>1, <2>3, PolledIsOK
<1>17. e.caller.wait = "followUp" /\ e.forced /\ CanHydrate(e) => f.caller.wait = "pass"
  BY <1>6, <1>9, <1>15
<1>18. e.caller.wait \in Waits /\ f.caller.wait = "live" => e.status = "ready"
  BY <1>9, <1>15
<1>19. f.caller.wait \in Waits =>
         /\ e.caller.wait = "followUp" /\ f.hydrating
         /\ f.caller = [wait |-> "pass", since |-> e.caller.since]
  BY <1>9, <1>15
<1> QED BY <1>1, <1>13, <1>14, <1>16, <1>17, <1>18, <1>19

-----------------------------------------------------------------------------
(* Requests: what callers and timers do to an entry while work of kind k has *)
(* the lane.  They ask for work and never take any back.                     *)

Kept(e, f, k) ==
    /\ f \in Entry /\ SameCore(e, f) /\ SameCaller(e, f)
    /\ LaneOK(e, k) => LaneOK(f, k)
    /\ online /\ PollOK(e) => PollOK(f)
    /\ e.hydrating => f.hydrating /\ (e.forced => f.forced)

LEMMA KeptTwice ==
    ASSUME NEW e, NEW f, NEW g, NEW k, Kept(e, f, k), Kept(f, g, k)
    PROVE  Kept(e, g, k)
BY DEF Kept, SameCore, SameCaller

LEMMA HydrateKeeps ==
    ASSUME NEW e \in Entry, NEW force \in BOOLEAN, NEW k
    PROVE  Kept(e, Hydrate(e, force), k)
<1> DEFINE f == Hydrate(e, force)
<1>1. f \in Entry /\ SameCore(e, f) /\ SameCaller(e, f) BY HydrateEffect
<1>2. LaneOK(e, k) => LaneOK(f, k) BY HydrateLane
<1>3. online /\ PollOK(e) => PollOK(f) BY HydratePolls
<1>4. e.hydrating => f.hydrating /\ (e.forced => f.forced)
  <2>1. CASE CanHydrate(e) BY <2>1, HydrateEffect
  <2>2. CASE ~CanHydrate(e) BY <2>2, HydrateEffect DEF SameWork
  <2> QED BY <2>1, <2>2
<1> QED BY <1>1, <1>2, <1>3, <1>4 DEF Kept

(* What leaves the work alone is a request if the poll is kept.              *)
LEMMA SameWorkKeeps ==
    ASSUME NEW e, NEW f \in Entry, NEW k, SameCore(e, f), SameWork(e, f), SameCaller(e, f),
           online /\ PollOK(e) => PollOK(f)
    PROVE  Kept(e, f, k)
<1>1. LaneOK(e, k) => LaneOK(f, k) BY SameWorkSameLane
<1> QED BY <1>1 DEF Kept, SameWork

LEMMA ScheduleKeeps ==
    ASSUME NEW e \in Entry, NEW k
    PROVE  Kept(e, SchedulePoll(e), k) /\ (online => PollOK(SchedulePoll(e)))
<1> DEFINE f == SchedulePoll(e)
<1>1. /\ f \in Entry /\ SameCore(e, f) /\ SameWork(e, f) /\ SameCaller(e, f)
      /\ f.poll <=> e.poll \/ PollsAgain(e)
  BY PollScheduled
<1> HIDE DEF f
<1>2. online => PollOK(f) BY <1>1 DEF PollOK, SameCore, PollsAgain
<1>3. Kept(e, f, k) BY <1>1, <1>2, SameWorkKeeps
<1> QED BY <1>2, <1>3 DEF f

LEMMA ResetKeeps ==
    ASSUME NEW e \in Entry, NEW k
    PROVE  Kept(e, ResetPollBackoff(e), k) /\ (online => PollOK(ResetPollBackoff(e)))
<1> DEFINE f == ResetPollBackoff(e)
<1>1. /\ f \in Entry /\ SameCore(e, f) /\ SameWork(e, f) /\ SameCaller(e, f)
      /\ f.poll <=> PollsAgain(e)
  BY PollReset
<1> HIDE DEF f
<1>2. online => PollOK(f) BY <1>1 DEF PollOK, SameCore, PollsAgain
<1>3. Kept(e, f, k) BY <1>1, <1>2, SameWorkKeeps
<1> QED BY <1>2, <1>3 DEF f

LEMMA ValidateKeeps ==
    ASSUME NEW e \in Entry, NEW k, e.life # "gone"
    PROVE  Kept(e, ValidateEntry(e), k) /\ SamePoll(e, ValidateEntry(e))
<1> DEFINE f == ValidateEntry(e)
           joins == e.snapshot = None \/ e.status \in {"failed", "absent"}
<1>0. None \notin {"slot", "lane", "joined", "refetch", "refetchNext"} BY NoneIsNothing
<1>1. CASE ~online \/ e.validation # None \/ e.drift
  <2>1. f = e BY <1>1 DEF ValidateEntry
  <2> QED BY <2>1 DEF Kept, SameCore, SameCaller, SamePoll
<1>2. CASE online /\ e.validation = None /\ ~e.drift /\ joins
  <2> DEFINE h == Hydrate(e, FALSE)
  <2>1. f = [h EXCEPT !.validation = "joined"] BY <1>2 DEF ValidateEntry
  <2>2. CanHydrate(e) BY <1>2 DEF CanHydrate
  <2>3. h.hydrating /\ h.validation = None /\ SamePoll(e, h) BY <1>2, <2>2, HydrateEffect DEF SamePoll
  <2>4. Kept(e, h, k) BY HydrateKeeps
  <2> HIDE DEF h
  <2>5. h \in Entry BY <2>4 DEF Kept
  <2>6. /\ f \in Entry /\ SameCore(h, f) /\ SameCaller(h, f) /\ SamePoll(h, f)
        /\ f.lane = h.lane /\ f.hydrating = h.hydrating /\ f.forced = h.forced
        /\ f.validation = "joined"
    BY <2>1, <2>5, ZenonT(60) DEF Entry, Quiet, Validations, SameCore, SameCaller, SamePoll
  <2> HIDE DEF f
  <2>7. LaneOK(h, k) => LaneOK(f, k)
    BY <1>0, <2>3, <2>6 DEF LaneOK, LaneBase, Queued
  <2>8. Kept(h, f, k) BY <2>6, <2>7 DEF Kept, PollOK, SameCore, SamePoll
  <2>9. SamePoll(e, f) BY <2>3, <2>6 DEF SamePoll
  <2> QED BY <2>4, <2>8, <2>9, KeptTwice DEF f
<1>3. CASE online /\ e.validation = None /\ ~e.drift /\ ~joins
  <2>1. f = [e EXCEPT !.validation = "slot"] BY <1>3 DEF ValidateEntry
  <2>2. /\ f \in Entry /\ SameCore(e, f) /\ SameCaller(e, f) /\ SamePoll(e, f)
        /\ f.lane = e.lane /\ f.hydrating = e.hydrating /\ f.forced = e.forced
        /\ f.validation = "slot"
    BY <2>1 DEF Entry, Quiet, Validations, SameCore, SameCaller, SamePoll
  <2> HIDE DEF f
  <2>3. LaneOK(e, k) => LaneOK(f, k)
    BY <1>0, <1>3, <2>2 DEF LaneOK, LaneBase, Queued
  <2>4. Kept(e, f, k) BY <2>2, <2>3 DEF Kept, PollOK, SameCore, SamePoll
  <2> QED BY <2>2, <2>4 DEF f
<1> QED BY <1>1, <1>2, <1>3

LEMMA CheckKeeps ==
    ASSUME NEW e \in Entry, NEW k, e.life # "gone"
    PROVE  Kept(e, CheckDigest(e), k) /\ SamePoll(e, CheckDigest(e))
<1>1. CASE CanCheckDigest(e) BY <1>1, ValidateKeeps DEF CheckDigest
<1>2. CASE ~CanCheckDigest(e)
  <2>1. CheckDigest(e) = e BY <1>2 DEF CheckDigest
  <2> QED BY <2>1 DEF Kept, SameCore, SameCaller, SamePoll
<1> QED BY <1>1, <1>2

(* A tick leaves a timer, or something it waits for, behind.                 *)
LEMMA TickKeeps ==
    ASSUME NEW e \in Entry, NEW k
    PROVE  Kept(e, PollTick(e), k) /\ (online => PollOK(PollTick(e)))
<1> DEFINE f == PollTick(e)
<1>1. CASE PollStops(e)
  <2>1. f = e BY <1>1 DEF PollTick
  <2> QED BY <1>1, <2>1 DEF PollStops, PollOK, Kept, SameCore, SameCaller
<1>2. CASE ~PollStops(e) /\ PollsFailedEntry(e)
  <2> DEFINE h == Hydrate(e, FALSE)
  <2>1. f = [h EXCEPT !.ticks = @ \cup {"pass"}] BY <1>2 DEF PollTick
  <2>2. Kept(e, h, k) BY HydrateKeeps
  <2> HIDE DEF h
  <2>3. h \in Entry BY <2>2 DEF Kept
  <2>4. /\ f \in Entry /\ SameCore(h, f) /\ SameCaller(h, f) /\ SameWork(h, f)
        /\ f.ticks = h.ticks \cup {"pass"}
    <3> DEFINE more == h.ticks \cup {"pass"}
    <3>1. more \in SUBSET {"pass", "validation"} BY <2>3 DEF Entry
    <3>2. f = [h EXCEPT !.ticks = more] BY <2>1
    <3> HIDE DEF more, f
    <3>3. f \in Entry /\ SameCore(h, f) /\ SameCaller(h, f) /\ SameWork(h, f) /\ f.ticks = more
      BY <2>3, <3>1, <3>2 DEF Entry, Quiet, SameCore, SameCaller, SameWork
    <3> QED BY <3>3 DEF more
  <2> HIDE DEF f
  <2>5. PollOK(f)
    <3>1. f.ticks # {} BY <2>4
    <3> QED BY <3>1 DEF PollOK
  <2>6. Kept(h, f, k) BY <2>4, <2>5, SameWorkKeeps
  <2> QED BY <2>2, <2>5, <2>6, KeptTwice DEF f
<1>3. CASE ~PollStops(e) /\ ~PollsFailedEntry(e) /\ CanCheckDigest(e)
  <2> DEFINE h == CheckDigest(e)
  <2>1. f = [h EXCEPT !.ticks = @ \cup {"validation"}] BY <1>3 DEF PollTick
  <2>2. Kept(e, h, k) BY <1>3, CheckKeeps DEF PollStops
  <2> HIDE DEF h
  <2>3. h \in Entry BY <2>2 DEF Kept
  <2>4. /\ f \in Entry /\ SameCore(h, f) /\ SameCaller(h, f) /\ SameWork(h, f)
        /\ f.ticks = h.ticks \cup {"validation"}
    <3> DEFINE more == h.ticks \cup {"validation"}
    <3>1. more \in SUBSET {"pass", "validation"} BY <2>3 DEF Entry
    <3>2. f = [h EXCEPT !.ticks = more] BY <2>1
    <3> HIDE DEF more, f
    <3>3. f \in Entry /\ SameCore(h, f) /\ SameCaller(h, f) /\ SameWork(h, f) /\ f.ticks = more
      BY <2>3, <3>1, <3>2 DEF Entry, Quiet, SameCore, SameCaller, SameWork
    <3> QED BY <3>3 DEF more
  <2> HIDE DEF f
  <2>5. PollOK(f)
    <3>1. f.ticks # {} BY <2>4
    <3> QED BY <3>1 DEF PollOK
  <2>6. Kept(h, f, k) BY <2>4, <2>5, SameWorkKeeps
  <2> QED BY <2>2, <2>5, <2>6, KeptTwice DEF f
<1>4. CASE ~PollStops(e) /\ ~PollsFailedEntry(e) /\ ~CanCheckDigest(e)
  BY <1>4, ScheduleKeeps DEF PollTick
<1> QED BY <1>1, <1>2, <1>3, <1>4

-----------------------------------------------------------------------------
(* What the end of work does to an entry.                                    *)

(* Nothing but an identity latch has touched the entry's own state.          *)
SameData(e, f) ==
    /\ f.life = e.life /\ f.snapshot = e.snapshot /\ f.gen = e.gen
    /\ f.status = e.status /\ f.definition = e.definition /\ f.epoch = e.epoch
    /\ f.focus = e.focus
    /\ e.wedged => f.wedged
    /\ Quiet(e) => Quiet(f)

LEMMA LatchEffect ==
    ASSUME NEW e \in Entry, NEW f, f \in {LatchInitialIdentityMismatch(e), LatchIdentityDrift(e)}
    PROVE  f \in Entry /\ SameData(e, f) /\ SameWork(e, f) /\ SameCaller(e, f) /\ f.drift
<1>1. CASE f = LatchInitialIdentityMismatch(e)
  BY <1>1 DEF LatchInitialIdentityMismatch, ClearNetworkTimers, Entry, Quiet, SameData, SameWork, SameCaller
<1>2. CASE f = LatchIdentityDrift(e)
  BY <1>2, ZenonT(60) DEF LatchIdentityDrift, Entry, Quiet, SameData, SameWork, SameCaller
<1> QED BY <1>1, <1>2

Published(e, f, version) ==
    /\ f.gen = e.gen + 1 /\ f.snapshot = [gen |-> e.gen + 1, read |-> version]
    /\ f.status = "ready" /\ f.definition = NoDefinitions

LEMMA PublishEffect ==
    ASSUME NEW e \in Entry, NEW version \in Version
    PROVE  LET f == Publish(e, version)
           IN  /\ f \in Entry /\ Published(e, f, version)
               /\ f.life = e.life /\ f.epoch = e.epoch /\ f.wedged = e.wedged
               /\ SameWork(e, f) /\ SameCaller(e, f) /\ (Quiet(e) => Quiet(f))
               /\ online => PollOK(f)
<1> DEFINE new == [e EXCEPT !.gen = @ + 1,
                            !.snapshot = [gen |-> e.gen + 1, read |-> version],
                            !.status = "ready",
                            !.lastDigest = None, !.manifestDigest = None,
                            !.attempts = 0, !.retry = FALSE,
                            !.definition = NoDefinitions, !.drift = FALSE]
           f == Publish(e, version)
<1>1. /\ e.gen + 1 \in Nat /\ [gen |-> e.gen + 1, read |-> version] \in Snapshots
      /\ 0 \in 0..Ladder
      /\ NoDefinitions \in [Objects -> Version \cup {None}]
  BY BoundsAreNumbers DEF Entry, Snapshots, NoDefinitions
<1>2. /\ new \in Entry /\ Published(e, new, version) /\ new.life = e.life
      /\ new.epoch = e.epoch /\ new.wedged = e.wedged /\ SameWork(e, new) /\ SameCaller(e, new)
      /\ (Quiet(e) => Quiet(new))
  BY <1>1, ZenonT(60) DEF Entry, Quiet, Published, SameWork, SameCaller
<1>3. f = ResetPollBackoff(new) BY DEF Publish
<1> HIDE DEF new, f
<1>4. f \in Entry /\ SameCore(new, f) /\ SameWork(new, f) /\ SameCaller(new, f)
  BY <1>2, <1>3, PollReset
<1>5. online => PollOK(f) BY <1>2, <1>3, ResetKeeps
<1> QED BY <1>2, <1>4, <1>5 DEF f, SameCore, SameWork, SameCaller, Published

(* Only work of this epoch changes what the entry shows.                     *)
LEMMA HydrateEndsEffect ==
    ASSUME NEW e \in Entry, NEW j \in Job, j.seen \in Version
    PROVE  LET f == HydrateEnds(e, j)
           IN  /\ f \in Entry /\ SameWork(e, f) /\ SameCaller(e, f)
               /\ f.life = e.life /\ f.epoch = e.epoch /\ (e.wedged => f.wedged)
               /\ Quiet(e) => Quiet(f)
               /\ online /\ PollOK(e) => PollOK(f)
               /\ \/ j.epoch = e.epoch /\ Published(e, f, j.seen)
                  \/ /\ j.epoch = e.epoch /\ f.status = "failed" /\ f.snapshot = e.snapshot
                     /\ f.gen = e.gen /\ f.definition = e.definition
                  \/ j.epoch # e.epoch /\ SameData(e, f)
<1> DEFINE latched == IF j.ours THEN e ELSE LatchInitialIdentityMismatch(e)
           f == HydrateEnds(e, j)
<1>1. /\ latched \in Entry /\ SameData(e, latched) /\ SameWork(e, latched)
      /\ SameCaller(e, latched) /\ (j.ours \/ latched.drift) /\ (j.ours => latched = e)
  BY LatchEffect DEF SameData, SameWork, SameCaller
<1>2. f = IF j.epoch # e.epoch THEN latched
          ELSE IF j.ours THEN Publish(e, j.seen) ELSE Failed(latched)
  BY DEF HydrateEnds
<1> HIDE DEF latched
<1>3. PollOK(e) => PollOK(latched) BY <1>1 DEF PollOK, SameData
<1>4. CASE j.epoch # e.epoch BY <1>1, <1>2, <1>3, <1>4 DEF SameData
<1>5. CASE j.epoch = e.epoch /\ j.ours BY <1>2, <1>5, PublishEffect
<1>6. CASE j.epoch = e.epoch /\ ~j.ours
  <2>1. f = Failed(latched) BY <1>2, <1>6
  <2> DEFINE marked == [latched EXCEPT !.status = "failed"]
  <2>2. /\ marked.life = latched.life /\ marked.snapshot = latched.snapshot
        /\ marked.gen = latched.gen /\ marked.definition = latched.definition
        /\ marked.epoch = latched.epoch /\ marked.wedged = latched.wedged
        /\ marked.drift = latched.drift /\ marked.focus = latched.focus
        /\ (Quiet(latched) => Quiet(marked))
    BY <1>1 DEF Entry, Quiet
  <2> HIDE DEF f, marked
  <2>3. /\ f \in Entry /\ SameWork(latched, f) /\ SameCaller(latched, f)
        /\ f.status = "failed" /\ SameCore(marked, f)
    BY <1>1, <2>1, FailedEffect DEF marked
  <2>4. PollOK(f) BY <1>1, <1>6, <2>2, <2>3 DEF PollOK, SameCore
  <2> QED BY <1>1, <1>6, <2>2, <2>3, <2>4 DEF f, SameWork, SameCaller, SameCore, SameData
<1> QED BY <1>4, <1>5, <1>6

LEMMA HydrateFailsEffect ==
    ASSUME NEW e \in Entry, NEW j \in Job
    PROVE  LET f == HydrateFails(e, j)
           IN  /\ f \in Entry /\ SameWork(e, f) /\ SameCaller(e, f) /\ SamePoll(e, f)
               /\ f.life = e.life /\ f.epoch = e.epoch /\ f.wedged = e.wedged
               /\ f.drift = e.drift /\ f.focus = e.focus /\ (Quiet(e) => Quiet(f))
               /\ f.snapshot = e.snapshot /\ f.gen = e.gen /\ f.definition = e.definition
               /\ j.epoch = e.epoch => f.status = "failed"
               /\ j.epoch # e.epoch => f.status = e.status
<1> DEFINE f == HydrateFails(e, j)
           marked == [e EXCEPT !.status = "failed"]
<1>1. CASE j.epoch # e.epoch
  <2>1. f = e BY <1>1 DEF HydrateFails
  <2> QED BY <1>1, <2>1 DEF SameWork, SameCaller, SamePoll
<1>2. CASE j.epoch = e.epoch
  <2>1. f = Failed(e) BY <1>2 DEF HydrateFails
  <2>2. /\ marked.life = e.life /\ marked.snapshot = e.snapshot /\ marked.gen = e.gen
        /\ marked.definition = e.definition /\ marked.epoch = e.epoch
        /\ marked.wedged = e.wedged /\ marked.drift = e.drift /\ marked.focus = e.focus
        /\ (Quiet(e) => Quiet(marked))
    BY DEF Entry, Quiet
  <2>3. SameCore(marked, f) BY <2>1, FailedEffect
  <2> HIDE DEF marked
  <2> QED BY <1>2, <2>1, <2>2, <2>3, FailedEffect DEF SameCore
<1> QED BY <1>1, <1>2

(* The digest has had the lane and leaves it; perhaps a refresh is asked for.*)
LEMMA DigestFinish ==
    ASSUME NEW e \in Entry
    PROVE  LET f == Finish(e)
           IN  /\ f \in Entry /\ SameCore(e, f) /\ SameCaller(e, f)
               /\ LaneOK(e, "digest") => LaneOK(f, None)
               /\ online /\ PollOK(e) => PollOK(f)
               /\ f.hydrating = e.hydrating /\ f.forced = e.forced
<1> DEFINE f == Finish(e)
<1>1. /\ f \in Entry /\ SameCore(e, f) /\ SameCaller(e, f)
      /\ f.lane = e.lane /\ f.hydrating = e.hydrating /\ f.forced = e.forced
      /\ f.validation = None /\ Polled(e, f)
  BY FinishEffect DEF Polled
<1> HIDE DEF f
<1>2. None \notin Kinds \cup {"lane", "joined", "refetch", "refetchNext"} /\ "digest" \in Kinds
  BY NoneIsNothing DEF Kinds
<1>3. LaneOK(e, "digest") => LaneOK(f, None)
  BY <1>1, <1>2 DEF LaneOK, LaneBase, Queued, Kinds
<1>4. online /\ PollOK(e) => PollOK(f) BY <1>1, PolledIsOK
<1> QED BY <1>1, <1>3, <1>4 DEF f

LEMMA DigestEndsEffect ==
    ASSUME NEW e \in Entry, NEW j \in Job, j.seen \in Version
    PROVE  LET f == DigestEnds(e, j)
           IN  /\ f \in Entry /\ SameData(e, f) /\ SameCaller(e, f)
               /\ LaneOK(e, "digest") => LaneOK(f, None)
               /\ online /\ PollOK(e) => PollOK(f)
               /\ e.hydrating => f.hydrating /\ (e.forced => f.forced)
<1> DEFINE f == DigestEnds(e, j)
           noted == [e EXCEPT !.manifestDigest = None, !.lastDigest = j.seen]
<1>0. None \notin Kinds \cup {"lane", "joined", "refetch", "refetchNext"} /\ "digest" \in Kinds
  BY NoneIsNothing DEF Kinds
<1>1. noted \in Entry /\ SameCore(e, noted) /\ SameWork(e, noted) /\ SameCaller(e, noted)
      /\ SamePoll(e, noted)
  BY ZenonT(60) DEF Entry, Quiet, SameCore, SameWork, SameCaller, SamePoll
<1>2. f = IF ~j.ours THEN Finish(LatchIdentityDrift(e))
          ELSE IF Baseline(e) \in {None, j.seen} THEN Finish(noted)
          ELSE IF ~CanHydrate(noted) THEN Finish(Hydrate(noted, TRUE))
          ELSE [Hydrate(noted, TRUE) EXCEPT
                  !.validation = IF WaitsFor(noted, TRUE) = "pass"
                                 THEN "refetch" ELSE "refetchNext"]
  BY DEF DigestEnds
<1> HIDE DEF noted, f
<1>3. /\ LaneOK(e, "digest") => LaneOK(noted, "digest")
      /\ PollOK(e) => PollOK(noted)
  BY <1>1, SameWorkSameLane DEF PollOK, SameCore, SamePoll
<1>4. CASE ~j.ours
  <2> DEFINE latched == LatchIdentityDrift(e)
  <2>1. /\ latched \in Entry /\ SameData(e, latched) /\ SameWork(e, latched)
        /\ SameCaller(e, latched) /\ latched.drift
    BY LatchEffect
  <2>2. f = Finish(latched) BY <1>2, <1>4
  <2> HIDE DEF latched
  <2>3. LaneOK(e, "digest") => LaneOK(latched, "digest") BY <2>1, SameWorkSameLane
  <2>4. PollOK(latched) BY <2>1 DEF PollOK
  <2> QED BY <2>1, <2>2, <2>3, <2>4, DigestFinish DEF f, SameData, SameCore, SameCaller, SameWork
<1>5. CASE j.ours /\ Baseline(e) \in {None, j.seen}
  <2>1. f = Finish(noted) BY <1>2, <1>5
  <2> QED BY <1>1, <1>3, <2>1, DigestFinish DEF f, SameData, SameCore, SameCaller, SameWork
<1> DEFINE h == Hydrate(noted, TRUE)
<1>6. Kept(noted, h, "digest") BY <1>1, HydrateKeeps
<1>7. CASE j.ours /\ Baseline(e) \notin {None, j.seen} /\ ~CanHydrate(noted)
  <2>1. f = Finish(h) BY <1>2, <1>7
  <2> HIDE DEF h
  <2> QED BY <1>1, <1>3, <1>6, <2>1, DigestFinish
          DEF f, Kept, SameData, SameCore, SameCaller, SameWork
<1>8. CASE j.ours /\ Baseline(e) \notin {None, j.seen} /\ CanHydrate(noted)
  <2> DEFINE place == IF WaitsFor(noted, TRUE) = "pass" THEN "refetch" ELSE "refetchNext"
  <2>1. f = [h EXCEPT !.validation = place] BY <1>2, <1>8
  <2>2. /\ h.hydrating
        /\ place = "refetchNext" => h.forced
        /\ place \in {"refetch", "refetchNext"}
    BY <1>1, <1>8, HydrateEffect DEF WaitsFor
  <2> HIDE DEF h, place
  <2>3. h \in Entry BY <1>6 DEF Kept
  <2>4. /\ f \in Entry /\ SameCore(h, f) /\ SameCaller(h, f) /\ SamePoll(h, f)
        /\ f.lane = h.lane /\ f.hydrating = h.hydrating /\ f.forced = h.forced
        /\ f.validation = place
    BY <2>1, <2>2, <2>3, ZenonT(60) DEF Entry, Quiet, Validations, SameCore, SameCaller, SamePoll
  <2>5. LaneOK(h, "digest") => LaneOK(f, None)
    BY <1>0, <2>2, <2>4 DEF LaneOK, LaneBase, Queued, Kinds
  <2>6. online /\ PollOK(e) => PollOK(f)
    BY <1>3, <1>6, <2>4 DEF Kept, PollOK, SameCore, SamePoll
  <2>7. SameData(e, f) /\ SameCaller(e, f)
    BY <1>1, <1>6, <2>4 DEF Kept, SameData, SameCore, SameCaller
  <2>8. e.hydrating => f.hydrating /\ (e.forced => f.forced)
    BY <1>1, <1>6, <2>4 DEF Kept, SameWork
  <2>9. LaneOK(e, "digest") => LaneOK(f, None) BY <1>3, <1>6, <2>5 DEF Kept
  <2> QED BY <2>4, <2>6, <2>7, <2>8, <2>9 DEF f
<1> QED BY <1>4, <1>5, <1>7, <1>8

-----------------------------------------------------------------------------
(* The state of the lane: queued and running work, and what was abandoned.   *)

EpochOK ==
    /\ entry.epoch = spent.timeouts + (IF entry.life = "gone" THEN 1 ELSE 0)
    /\ \A j \in orphans : j.epoch < entry.epoch
    /\ job # Idle => job.epoch <= entry.epoch
    /\ job # Idle /\ entry.life # "gone" => job.epoch = entry.epoch

LaneInv == TypeOK /\ LaneOK(entry, job.kind) /\ Quiet(entry) /\ EpochOK

(* The frame of a request.                                                   *)
Beside == UNCHANGED <<server, named, online, source, job, orphans>>

Calls ==
    /\ spent' \in [calls : 0..MaxCalls, timeouts : 0..MaxTimeouts,
                   fails : 0..MaxFails, renames : 0..MaxRenames, flips : 0..MaxFlips,
                   aways : 0..MaxAways]
    /\ spent'.timeouts = spent.timeouts /\ spent'.flips = spent.flips

Request == Kept(entry, entry', job.kind) /\ Beside /\ Calls

LEMMA CallIsCounted ==
    ASSUME TypeOK, spent.calls < MaxCalls, spent' = [spent EXCEPT !.calls = @ + 1]
    PROVE  Calls
<1>1. MaxCalls \in Nat BY BoundsAreNumbers
<1>2. spent.calls + 1 \in 0..MaxCalls BY <1>1 DEF TypeOK
<1> QED BY <1>2 DEF TypeOK, Calls

LEMMA NoCallIsCounted == ASSUME TypeOK, UNCHANGED spent PROVE Calls
BY DEF TypeOK, Calls

LEMMA FailIsCounted ==
    ASSUME TypeOK, spent.fails < MaxFails, spent' = [spent EXCEPT !.fails = @ + 1]
    PROVE  Calls
<1>1. MaxFails \in Nat BY BoundsAreNumbers
<1>2. spent.fails + 1 \in 0..MaxFails BY <1>1 DEF TypeOK
<1> QED BY <1>2 DEF TypeOK, Calls

LEMMA AwayIsCounted ==
    ASSUME TypeOK, spent.aways < MaxAways, spent' = [spent EXCEPT !.aways = @ + 1]
    PROVE  Calls
<1>1. MaxAways \in Nat BY BoundsAreNumbers
<1>2. spent.aways + 1 \in 0..MaxAways BY <1>1 DEF TypeOK
<1> QED BY <1>2 DEF TypeOK, Calls

LEMMA LaneAppends ==
    ASSUME NEW e \in Entry, NEW k, NEW w \in {"digest"} \cup Objects, w \notin Queued(e), k # w,
           NEW place, NEW f, f = [e EXCEPT !.validation = place, !.lane = Append(@, w)],
           w = "digest" => place = "lane" /\ e.validation = "slot",
           w \in Objects => place = e.validation,
           k \in Kinds \cup {None}
    PROVE  Kept(e, f, k)
<1>0. None # w /\ w # "hydrate" BY NoneIsNothing, ObjectsAreThemselves
<1>1. place \in Validations \cup {None} BY DEF Entry, Validations
<1>2. w \in Kinds /\ e.lane \in Seq(Kinds) BY DEF Entry, Kinds
<1> DEFINE longer == Append(e.lane, w)
<1>3. longer \in Seq(Kinds) BY <1>2
<1>4. f = [e EXCEPT !.validation = place, !.lane = longer] BY DEF Entry
<1>5. longer = Append(e.lane, w) OBVIOUS
<1> HIDE DEF longer
<1>6. /\ f \in Entry /\ SameCaller(e, f) /\ SamePoll(e, f)
      /\ f.life = e.life /\ f.retry = e.retry /\ f.drift = e.drift
      /\ f.snapshot = e.snapshot /\ f.gen = e.gen /\ f.status = e.status
      /\ f.definition = e.definition /\ f.epoch = e.epoch /\ f.wedged = e.wedged
      /\ f.focus = e.focus
      /\ f.hydrating = e.hydrating /\ f.forced = e.forced
      /\ f.validation = place /\ f.lane = longer
  BY <1>1, <1>3, <1>4, ZenonT(60) DEF Entry, SameCaller, SamePoll
<1>7. SameCore(e, f) BY <1>6 DEF SameCore, SamePoll, Quiet
<1>8. Queued(f) = Queued(e) \cup {w} /\ (IsInjective(e.lane) => IsInjective(f.lane))
  BY <1>2, <1>6, <1>5, RangeOfAppend DEF Queued
<1>9. LaneOK(e, k) => LaneOK(f, k)
  <2>1. SUFFICES ASSUME LaneOK(e, k) PROVE LaneOK(f, k) OBVIOUS
  <2>2. "hydrate" \in Queued(f) \cup {k} <=> "hydrate" \in Queued(e) \cup {k} BY <1>0, <1>8
  <2>3. k \in Kinds => k \notin Queued(f) BY <1>8, <2>1 DEF LaneOK, LaneBase
  <2>4. f.validation = "lane" <=> "digest" \in Queued(f) \cup {k}
    <3>1. CASE w = "digest" BY <1>6, <1>8, <3>1
    <3>2. CASE w \in Objects
      <4>1. w # "digest" BY <3>2, ObjectsAreThemselves
      <4> QED BY <1>6, <1>8, <2>1, <3>2, <4>1 DEF LaneOK, LaneBase
    <3> QED BY <3>1, <3>2
  <2>5. LaneBase(f, k)
    BY <1>6, <1>8, <2>1, <2>2, <2>3, <2>4 DEF LaneOK, LaneBase
  <2>6. f.validation \in {"joined", "refetch", "refetchNext"} => f.validation = e.validation
    BY <1>6
  <2> QED BY <1>6, <2>1, <2>5, <2>6 DEF LaneOK
<1>10. PollOK(e) => PollOK(f) BY <1>6 DEF PollOK, SamePoll
<1> QED BY <1>6, <1>7, <1>9, <1>10 DEF Kept

(* Every call that only asks, and every timer, is a request.                 *)
LEMMA Requests ==
    ASSUME LaneInv,
           \/ Refresh \/ RequireValidated \/ AllowStale \/ AskedOffline
           \/ NoteAccessStateChanged \/ NotifyExecutedBatch
           \/ (\E o \in Objects : GetModuleDefinition(o))
           \/ RetryFires \/ PollFires \/ LimiterAdmits
    PROVE  Request
<1> DEFINE k == job.kind
<1>0. TypeOK /\ entry \in Entry /\ k \in Kinds \cup {None}
  BY DEF LaneInv, TypeOK, Job, Idle
<1>1. CASE Refresh
  <2>1. entry' = Hydrate(entry, TRUE) /\ Beside /\ Calls
    BY <1>0, <1>1, CallIsCounted DEF Refresh, Beside
  <2> QED BY <1>0, <2>1, HydrateKeeps DEF Request
<1>2. CASE RequireValidated
  <2>1. entry' = ValidateEntry(entry) /\ entry.life # "gone" /\ Beside /\ Calls
    BY <1>0, <1>2, NoCallIsCounted DEF RequireValidated, Beside
  <2> QED BY <1>0, <2>1, ValidateKeeps DEF Request
<1>3. CASE AllowStale
  <2>1. entry' = Hydrate(entry, entry.snapshot # None) /\ Beside /\ Calls
    BY <1>0, <1>3, CallIsCounted DEF AllowStale, Beside
  <2>2. (entry.snapshot # None) \in BOOLEAN OBVIOUS
  <2> QED BY <1>0, <2>1, <2>2, HydrateKeeps DEF Request
<1>4. CASE AskedOffline
  <2>1. entry' = ClearNetworkTimers(entry) /\ ~online /\ Beside /\ Calls
    BY <1>0, <1>4, NoCallIsCounted DEF AskedOffline, Beside
  <2>2. /\ entry' \in Entry /\ SameCore(entry, entry') /\ SameWork(entry, entry')
        /\ SameCaller(entry, entry')
    BY <1>0, <2>1, TimersStop
  <2>3. Kept(entry, entry', k) BY <2>1, <2>2, SameWorkKeeps
  <2> QED BY <2>1, <2>3 DEF Request
<1>5. CASE NoteAccessStateChanged
  <2>1. entry' = ResetPollBackoff(entry) /\ Beside /\ Calls
    BY <1>0, <1>5, NoCallIsCounted DEF NoteAccessStateChanged, Beside
  <2> QED BY <1>0, <2>1, ResetKeeps DEF Request
<1>6. CASE NotifyExecutedBatch
  <2> DEFINE reset == ResetPollBackoff(entry)
  <2>1. /\ entry' \in {Hydrate(reset, TRUE), CheckDigest(reset)} /\ entry.life = "held"
        /\ Beside /\ Calls
    BY <1>0, <1>6, CallIsCounted DEF NotifyExecutedBatch, Beside
  <2>2. Kept(entry, reset, k) BY <1>0, ResetKeeps
  <2> HIDE DEF reset
  <2>3. reset \in Entry /\ reset.life = "held" BY <2>1, <2>2 DEF Kept, SameCore
  <2>4. Kept(reset, entry', k) BY <2>1, <2>3, HydrateKeeps, CheckKeeps
  <2>5. Kept(entry, entry', k) BY <2>2, <2>4, KeptTwice
  <2> QED BY <2>1, <2>5 DEF Request
<1>7. ASSUME NEW o \in Objects, GetModuleDefinition(o) PROVE Request
  <2>1. /\ entry' = [entry EXCEPT !.lane = Append(@, o)]
        /\ o \notin Queued(entry) /\ k # o /\ Beside /\ Calls
    BY <1>0, <1>7, NoCallIsCounted DEF GetModuleDefinition, Beside, Queued
  <2>2. entry' = [entry EXCEPT !.validation = entry.validation, !.lane = Append(@, o)]
    BY <1>0, <2>1 DEF Entry
  <2>4. o # "digest" BY ObjectsAreThemselves
  <2>3. Kept(entry, entry', k) BY <1>0, <2>1, <2>2, <2>4, LaneAppends
  <2> QED BY <2>1, <2>3 DEF Request
<1>8. CASE RetryFires
  <2> DEFINE fired == [entry EXCEPT !.retry = FALSE]
  <2>1. /\ entry' \in {Hydrate(fired, FALSE), fired} /\ Beside /\ Calls
    BY <1>0, <1>8, NoCallIsCounted DEF RetryFires, Beside
  <2>2. /\ fired \in Entry /\ SameCore(entry, fired) /\ SameWork(entry, fired)
        /\ SameCaller(entry, fired) /\ SamePoll(entry, fired)
    <3>1. /\ fired.life = entry.life /\ fired.poll = entry.poll /\ ~fired.retry
          /\ fired.focus = entry.focus
      BY <1>0 DEF Entry
    <3>2. Quiet(entry) => Quiet(fired) BY <3>1 DEF Quiet
    <3> QED BY <1>0, <3>2, ZenonT(60) DEF Entry, SameCore, SameWork, SameCaller, SamePoll
  <2> HIDE DEF fired
  <2>3. Kept(entry, fired, k)
    <3>1. PollOK(entry) => PollOK(fired) BY <2>2 DEF PollOK, SameCore, SamePoll
    <3> QED BY <2>2, <3>1, SameWorkKeeps
  <2>4. CASE entry' = fired BY <2>1, <2>3, <2>4 DEF Request
  <2>5. CASE entry' = Hydrate(fired, FALSE)
    <3>1. Kept(fired, entry', k) BY <2>2, <2>5, HydrateKeeps
    <3> QED BY <2>1, <2>3, <3>1, KeptTwice DEF Request
  <2> QED BY <2>1, <2>4, <2>5
<1>9. CASE PollFires
  <2> DEFINE fired == [entry EXCEPT !.poll = FALSE]
  <2>1. /\ entry' = PollTick(fired) /\ entry.poll /\ Beside /\ Calls
    BY <1>0, <1>9, NoCallIsCounted DEF PollFires, Beside
  <2>2. /\ fired \in Entry /\ SameCore(entry, fired) /\ SameWork(entry, fired)
        /\ SameCaller(entry, fired)
    <3>1. /\ fired.life = entry.life /\ fired.retry = entry.retry /\ ~fired.poll
          /\ fired.focus = entry.focus
      BY <1>0 DEF Entry
    <3>2. Quiet(entry) => Quiet(fired) BY <3>1 DEF Quiet
    <3> QED BY <1>0, <3>2, ZenonT(60) DEF Entry, SameCore, SameWork, SameCaller
  <2> HIDE DEF fired
  <2>4. Kept(fired, entry', k) /\ (online => PollOK(entry')) BY <2>1, <2>2, TickKeeps
  <2>5. LaneOK(entry, k) => LaneOK(fired, k) BY <2>2, SameWorkSameLane
  <2>6. Kept(entry, entry', k)
    BY <2>2, <2>4, <2>5 DEF Kept, SameCore, SameCaller, SameWork
  <2> QED BY <2>1, <2>6 DEF Request
<1>10. CASE LimiterAdmits
  <2>1. /\ entry' = [entry EXCEPT !.validation = "lane", !.lane = Append(@, "digest")]
        /\ entry.validation = "slot" /\ Beside /\ Calls
    BY <1>0, <1>10, NoCallIsCounted DEF LimiterAdmits, Beside
  <2>3. "digest" \notin Queued(entry) /\ k # "digest" BY <2>1 DEF LaneInv, LaneOK, LaneBase
  <2>4. Kept(entry, entry', k) BY <1>0, <2>1, <2>3, ObjectsAreThemselves, LaneAppends
  <2> QED BY <2>1, <2>4 DEF Request
<1> QED BY <1>1, <1>2, <1>3, <1>4, <1>5, <1>6, <1>7, <1>8, <1>9, <1>10

-----------------------------------------------------------------------------
(* What the other steps do.                                                  *)

(* What is kept of an entry while its lease is taken.                        *)
Acquired ==
    /\ entry.life = "new" /\ entry'.life = "held"
    /\ entry' \in Entry /\ SameCaller(entry, entry')
    /\ entry'.snapshot = entry.snapshot /\ entry'.gen = entry.gen
    /\ entry'.status = entry.status /\ entry'.definition = entry.definition
    /\ entry'.epoch = entry.epoch /\ entry'.wedged = entry.wedged
    /\ Quiet(entry')
    /\ LaneOK(entry, job.kind) => LaneOK(entry', job.kind)
    /\ online => PollOK(entry')
    /\ entry.hydrating => entry'.hydrating /\ (entry.forced => entry'.forced)
    /\ Beside /\ UNCHANGED spent

(* The poll begins, and with it the watch over the focus.                    *)
LEMMA PollStarts ==
    ASSUME NEW e \in Entry, e.focus # "suspended", NEW k
    PROVE  LET f == StartPolling(e)
           IN  /\ f \in Entry /\ SameCaller(e, f) /\ SameWork(e, f)
               /\ f.life = e.life /\ f.snapshot = e.snapshot /\ f.gen = e.gen
               /\ f.status = e.status /\ f.definition = e.definition
               /\ f.epoch = e.epoch /\ f.wedged = e.wedged
               /\ f.focus # "suspended"
               /\ LaneOK(e, k) => LaneOK(f, k)
               /\ online => PollOK(f)
<1> DEFINE f == StartPolling(e)
           p == SchedulePoll(e)
<1>1. CASE online /\ PollSeconds > 0
  <2>1. f = [p EXCEPT !.focus = "watched"] BY <1>1 DEF StartPolling
  <2>2. /\ p \in Entry /\ SameCore(e, p) /\ SameWork(e, p) /\ SameCaller(e, p)
        /\ p.poll <=> e.poll \/ PollsAgain(e)
    BY PollScheduled
  <2> HIDE DEF p
  <2>3. /\ f \in Entry /\ SameCaller(p, f) /\ SameWork(p, f) /\ SamePoll(p, f)
        /\ f.life = p.life /\ f.snapshot = p.snapshot /\ f.gen = p.gen
        /\ f.status = p.status /\ f.definition = p.definition
        /\ f.epoch = p.epoch /\ f.wedged = p.wedged /\ f.drift = p.drift
        /\ f.focus = "watched"
    <3>1. f \in Entry BY <2>1, <2>2 DEF Entry
    <3>2. /\ f.life = p.life /\ f.snapshot = p.snapshot /\ f.gen = p.gen
          /\ f.status = p.status /\ f.definition = p.definition
          /\ f.epoch = p.epoch /\ f.wedged = p.wedged /\ f.drift = p.drift
          /\ f.focus = "watched"
      BY <2>1, <2>2 DEF Entry
    <3>3. SameCaller(p, f) BY <2>1, <2>2 DEF Entry, SameCaller
    <3>4. SameWork(p, f) BY <2>1, <2>2 DEF Entry, SameWork
    <3>5. SamePoll(p, f) BY <2>1, <2>2 DEF Entry, SamePoll
    <3> QED BY <3>1, <3>2, <3>3, <3>4, <3>5
  <2> HIDE DEF f
  <2>4. PollOK(f) BY <1>1, <2>2, <2>3 DEF PollOK, PollsAgain, SameCore, SamePoll
  <2>5. SameWork(e, f) /\ SameCaller(e, f) BY <2>2, <2>3 DEF SameWork, SameCaller
  <2>6. LaneOK(e, k) => LaneOK(f, k) BY <2>5, SameWorkSameLane
  <2> QED BY <2>2, <2>3, <2>4, <2>5, <2>6 DEF f, SameCore
<1>2. CASE ~(online /\ PollSeconds > 0)
  <2>1. f = e BY <1>2 DEF StartPolling
  <2> QED BY <1>2, <2>1 DEF PollOK, SameWork, SameCaller
<1> QED BY <1>1, <1>2

LEMMA AcquireEffect ==
    ASSUME LaneInv, Acquire
    PROVE  Acquired
<1> DEFINE held == [entry EXCEPT !.life = "held"]
           begun == IF online /\ entry.status \in {"absent", "failed"}
                    THEN Hydrate(held, FALSE) ELSE held
           polled == StartPolling(begun)
           k == job.kind
<1>1. /\ entry \in Entry /\ entry.life = "new" /\ Beside /\ UNCHANGED spent
      /\ entry' \in {Hydrate(polled, TRUE), polled}
      /\ entry.focus # "suspended"
  BY DEF LaneInv, TypeOK, Acquire, Beside, Quiet
<1>2. /\ held \in Entry /\ held.life = "held" /\ SameWork(entry, held) /\ SameCaller(entry, held)
      /\ held.snapshot = entry.snapshot /\ held.gen = entry.gen /\ held.status = entry.status
      /\ held.definition = entry.definition /\ held.epoch = entry.epoch
      /\ held.wedged = entry.wedged /\ held.focus = entry.focus
  BY <1>1 DEF Entry, SameWork, SameCaller
<1>3. LaneOK(entry, k) => LaneOK(held, k) BY <1>2, SameWorkSameLane
<1> HIDE DEF held
<1>4. Kept(held, begun, k)
  <2>1. CASE online /\ entry.status \in {"absent", "failed"} BY <1>2, <2>1, HydrateKeeps
  <2>2. CASE ~(online /\ entry.status \in {"absent", "failed"})
    BY <1>2, <2>2 DEF Kept, SameCore, SameCaller
  <2> QED BY <2>1, <2>2
<1> HIDE DEF begun
<1>5. begun \in Entry /\ begun.focus # "suspended"
  BY <1>1, <1>2, <1>4 DEF Kept, SameCore
<1>6. /\ polled \in Entry /\ SameCaller(begun, polled) /\ SameWork(begun, polled)
      /\ polled.life = begun.life /\ polled.snapshot = begun.snapshot
      /\ polled.gen = begun.gen /\ polled.status = begun.status
      /\ polled.definition = begun.definition
      /\ polled.epoch = begun.epoch /\ polled.wedged = begun.wedged
      /\ polled.focus # "suspended"
      /\ LaneOK(begun, k) => LaneOK(polled, k)
      /\ online => PollOK(polled)
  BY <1>5, PollStarts
<1> HIDE DEF polled
<1>7. Kept(polled, entry', k)
  <2>1. CASE entry' = polled BY <1>6, <2>1 DEF Kept, SameCore, SameCaller
  <2>2. CASE entry' = Hydrate(polled, TRUE) BY <1>6, <2>2, HydrateKeeps
  <2> QED BY <1>1, <2>1, <2>2
<1>8. online => PollOK(entry') BY <1>6, <1>7 DEF Kept
<1>9. entry'.life = "held" /\ entry'.focus # "suspended"
  BY <1>2, <1>4, <1>6, <1>7 DEF Kept, SameCore
<1>10. Quiet(entry') BY <1>9 DEF Quiet
<1> QED BY <1>1, <1>2, <1>3, <1>4, <1>6, <1>7, <1>8, <1>10
        DEF Acquired, Kept, SameCore, SameWork, SameCaller

(* A strict caller begins to wait.                                           *)
Waited ==
    /\ online /\ entry.life = "held"
    /\ entry' \in Entry /\ SameCore(entry, entry')
    /\ LaneOK(entry, job.kind) => LaneOK(entry', job.kind)
    /\ PollOK(entry) => PollOK(entry')
    /\ entry'.hydrating
    /\ \/ entry'.caller = [wait |-> "pass", since |-> server] /\ ~entry.hydrating
       \/ entry'.caller = [wait |-> "followUp", since |-> server] /\ entry'.forced
    /\ Beside /\ Calls

LEMMA RequireLiveEffect ==
    ASSUME LaneInv, RequireLive
    PROVE  Waited
<1> DEFINE h == Hydrate(entry, TRUE)
           asks == [wait |-> WaitsFor(entry, TRUE), since |-> server]
           k == job.kind
<1>1. /\ TypeOK /\ entry \in Entry /\ server \in Version /\ online /\ entry.life = "held"
      /\ entry' = [h EXCEPT !.caller = asks]
      /\ Beside /\ spent.calls < MaxCalls /\ spent' = [spent EXCEPT !.calls = @ + 1]
  BY DEF LaneInv, TypeOK, RequireLive, Beside
<1>2. CanHydrate(entry) BY <1>1 DEF CanHydrate
<1>3. h.hydrating /\ (entry.hydrating => h.forced) BY <1>1, <1>2, HydrateEffect
<1>4. Kept(entry, h, k) BY <1>1, HydrateKeeps
<1>5. WaitsFor(entry, TRUE) = IF entry.hydrating THEN "followUp" ELSE "pass"
  BY DEF WaitsFor
<1>6. asks \in [wait : Waits \cup {None, "live", "unavailable"}, since : Version]
  BY <1>1, <1>5 DEF Waits
<1> HIDE DEF h, asks
<1>7. h \in Entry BY <1>4 DEF Kept
<1>8. entry' \in Entry /\ SameCore(h, entry') /\ SameWork(h, entry') /\ SamePoll(h, entry')
      /\ entry'.caller = asks
  <2>1. /\ entry'.life = h.life /\ entry'.poll = h.poll /\ entry'.retry = h.retry
        /\ entry'.focus = h.focus
    BY <1>1, <1>7 DEF Entry
  <2>2. Quiet(h) => Quiet(entry') BY <2>1 DEF Quiet
  <2> QED BY <1>1, <1>6, <1>7, <2>2 DEF Entry, SameCore, SameWork, SamePoll
<1>9. LaneOK(h, k) => LaneOK(entry', k) BY <1>8, SameWorkSameLane
<1>10. PollOK(h) => PollOK(entry') BY <1>8 DEF PollOK, SameCore, SamePoll
<1>11. Calls BY <1>1, CallIsCounted
<1>12. entry'.hydrating
       /\ \/ entry'.caller = [wait |-> "pass", since |-> server] /\ ~entry.hydrating
          \/ entry'.caller = [wait |-> "followUp", since |-> server] /\ entry'.forced
  BY <1>3, <1>5, <1>8 DEF SameWork, asks
<1> QED BY <1>1, <1>4, <1>8, <1>9, <1>10, <1>11, <1>12 DEF Waited, Kept, SameCore

(* The lease is given back.                                                  *)
Disposed ==
    /\ entry' \in Entry /\ entry.life = "held" /\ entry'.life = "gone"
    /\ entry'.epoch = entry.epoch + 1 /\ Quiet(entry')
    /\ SameWork(entry, entry') /\ SameCaller(entry, entry')
    /\ entry'.snapshot = entry.snapshot /\ entry'.gen = entry.gen
    /\ entry'.definition = entry.definition /\ entry'.wedged = entry.wedged
    /\ source' = [source EXCEPT !.open = FALSE]
    /\ UNCHANGED <<server, named, online, job, orphans, spent>>

LEMMA DisposeEffect ==
    ASSUME LaneInv, Dispose
    PROVE  Disposed
<1>1. /\ entry \in Entry /\ entry.life = "held"
      /\ entry' = ClearNetworkTimers(
                      [entry EXCEPT !.life = "gone", !.epoch = @ + 1, !.focus = "unwatched"])
      /\ source' = [source EXCEPT !.open = FALSE]
      /\ UNCHANGED <<server, named, online, job, orphans, spent>>
  BY DEF LaneInv, TypeOK, Dispose
<1>2. entry.epoch + 1 \in Nat BY <1>1 DEF Entry
<1>3. /\ entry' \in Entry /\ entry'.life = "gone" /\ entry'.epoch = entry.epoch + 1
      /\ ~entry'.poll /\ ~entry'.retry /\ entry'.focus = "unwatched"
      /\ SameWork(entry, entry') /\ SameCaller(entry, entry')
      /\ entry'.snapshot = entry.snapshot /\ entry'.gen = entry.gen
      /\ entry'.definition = entry.definition /\ entry'.wedged = entry.wedged
  BY <1>1, <1>2 DEF ClearNetworkTimers, Entry, SameWork, SameCaller
<1> QED BY <1>1, <1>3 DEF Disposed, Quiet

(* The window is left for long, or is back in focus: the polls are suspended *)
(* or begin again, and all else is as before or has been asked for.          *)
Focused ==
    /\ entry' \in Entry /\ SameCaller(entry, entry')
    /\ entry'.life = entry.life /\ entry'.snapshot = entry.snapshot
    /\ entry'.gen = entry.gen /\ entry'.status = entry.status
    /\ entry'.definition = entry.definition
    /\ entry'.epoch = entry.epoch /\ entry'.wedged = entry.wedged
    /\ Quiet(entry')
    /\ LaneOK(entry, job.kind) => LaneOK(entry', job.kind)
    /\ online => PollOK(entry')
    /\ entry.hydrating => entry'.hydrating /\ (entry.forced => entry'.forced)
    /\ Beside /\ Calls

LEMMA SuspendEffect ==
    ASSUME LaneInv, SuspendPolls
    PROVE  Focused
<1>1. /\ TypeOK /\ entry \in Entry /\ Beside /\ entry.life = "held"
      /\ entry' = [entry EXCEPT !.focus = "suspended", !.poll = FALSE]
      /\ spent.aways < MaxAways /\ spent' = [spent EXCEPT !.aways = @ + 1]
  BY DEF LaneInv, TypeOK, Quiet, SuspendPolls, Beside
<1>2. Calls BY <1>1, AwayIsCounted
<1>3. /\ entry' \in Entry /\ SameCaller(entry, entry') /\ SameWork(entry, entry')
      /\ entry'.life = entry.life /\ entry'.snapshot = entry.snapshot
      /\ entry'.gen = entry.gen /\ entry'.status = entry.status
      /\ entry'.definition = entry.definition
      /\ entry'.epoch = entry.epoch /\ entry'.wedged = entry.wedged
      /\ entry'.focus = "suspended" /\ ~entry'.poll
  BY <1>1 DEF Entry, SameCaller, SameWork
<1>4. Quiet(entry') /\ PollOK(entry') BY <1>1, <1>3 DEF Quiet, PollOK
<1>5. LaneOK(entry, job.kind) => LaneOK(entry', job.kind) BY <1>3, SameWorkSameLane
<1> QED BY <1>1, <1>2, <1>3, <1>4, <1>5 DEF Focused, SameWork

LEMMA ResumeEffect ==
    ASSUME LaneInv, ResumePolls
    PROVE  Focused
<1> DEFINE back == [entry EXCEPT !.focus = "watched"]
           k == job.kind
<1>1. /\ TypeOK /\ entry \in Entry /\ Beside /\ entry' = PollTick(back) /\ Calls
      /\ entry.focus = "suspended" /\ entry.life = "held"
  BY NoCallIsCounted DEF LaneInv, TypeOK, Quiet, ResumePolls, WatchAgain, Beside
<1>2. /\ back \in Entry /\ SameCaller(entry, back) /\ SameWork(entry, back)
      /\ back.life = entry.life /\ back.snapshot = entry.snapshot
      /\ back.gen = entry.gen /\ back.status = entry.status
      /\ back.definition = entry.definition
      /\ back.epoch = entry.epoch /\ back.wedged = entry.wedged
      /\ back.focus = "watched"
  BY <1>1 DEF Entry, SameCaller, SameWork
<1> HIDE DEF back
<1>3. Kept(back, entry', k) /\ (online => PollOK(entry')) BY <1>1, <1>2, TickKeeps
<1>4. LaneOK(entry, k) => LaneOK(back, k) BY <1>2, SameWorkSameLane
<1>5. Quiet(back) BY <1>1, <1>2 DEF Quiet
<1> QED BY <1>1, <1>2, <1>3, <1>4, <1>5 DEF Focused, Kept, SameCore, SameCaller, SameWork

(* A pass is over: who waits for it goes on, and is told by the status.      *)
CallersGoOn(e, f) ==
    /\ f.caller.wait \in Waits =>
          /\ e.caller.wait = "followUp" /\ f.hydrating
          /\ f.caller = [wait |-> "pass", since |-> e.caller.since]
    /\ e.caller.wait \in Waits /\ f.caller.wait = "live" => f.status = "ready"
    /\ e.caller.wait = "followUp" /\ e.forced /\ CanHydrate(e) => f.caller.wait = "pass"

LEMMA HydrationOver ==
    ASSUME TypeOK, NEW e \in Entry, NEW g \in Entry, LaneOK(e, "hydrate"),
           SameWork(e, g), SameCaller(e, g), g.life = e.life, Quiet(e) => Quiet(g),
           online /\ PollOK(e) => PollOK(g)
    PROVE  LET f == PassOver(g)
           IN  /\ f \in Entry /\ SameCore(g, f) /\ LaneOK(f, None) /\ CallersGoOn(e, f)
               /\ f.life = e.life /\ (Quiet(e) => Quiet(f))
               /\ online /\ PollOK(e) => PollOK(f)
<1> DEFINE f == PassOver(g)
<1>1. LaneOK(g, "hydrate") BY SameWorkSameLane
<1>2. /\ f \in Entry /\ SameCore(g, f) /\ LaneOK(f, None)
      /\ f.caller.wait \in Waits =>
            /\ g.caller.wait = "followUp" /\ f.hydrating
            /\ f.caller = [wait |-> "pass", since |-> g.caller.since]
      /\ g.caller.wait \in Waits /\ f.caller.wait = "live" => g.status = "ready"
      /\ g.caller.wait = "followUp" /\ g.forced /\ CanHydrate(g) => f.caller.wait = "pass"
      /\ online /\ PollOK(g) => PollOK(f)
  BY <1>1, PassOverEffect
<1> HIDE DEF f
<1>3. CallersGoOn(e, f) BY <1>2 DEF CallersGoOn, SameWork, SameCaller, SameCore, CanHydrate
<1> QED BY <1>2, <1>3 DEF f, SameCore

(* Work gets its turn, or is over at once.                                   *)
Turned ==
    /\ job = Idle /\ entry' \in Entry
    /\ source' = (IF entry.wedged THEN Recycled(source) ELSE source)
    /\ entry'.life = entry.life /\ entry'.snapshot = entry.snapshot
    /\ entry'.gen = entry.gen /\ entry'.definition = entry.definition
    /\ entry'.epoch = entry.epoch
    /\ LaneOK(entry', job'.kind) /\ (Quiet(entry) => Quiet(entry'))
    /\ online /\ PollOK(entry) => PollOK(entry')
    /\ \/ /\ job' \in Job /\ job'.seen = None /\ job'.epoch = entry.epoch
          /\ job'.gen = entry.gen /\ job'.session = source'.session
          /\ SameCaller(entry, entry')
          /\ entry.hydrating => entry'.hydrating /\ (entry.forced => entry'.forced)
          /\ entry'.status = entry.status \/ job'.kind = "hydrate"
       \/ /\ job' = Idle /\ entry'.status = entry.status /\ (~online \/ entry.life = "gone")
          /\ \/ CallersGoOn(entry, entry')
             \/ /\ SameCaller(entry, entry')
                /\ entry.hydrating => entry'.hydrating /\ (entry.forced => entry'.forced)
    /\ UNCHANGED <<server, named, online, orphans, spent>>

LEMMA LaneTurnEffect ==
    ASSUME LaneInv, LaneTurn
    PROVE  Turned
<1> DEFINE kind == Head(entry.lane)
           turn == [entry EXCEPT !.lane = Tail(@), !.wedged = FALSE]
           fresh == IF entry.wedged THEN Recycled(source) ELSE source
           begins == IF kind = "hydrate" THEN CanHydrate(entry) ELSE online
           shown == [turn EXCEPT !.status = IF turn.snapshot # None THEN "stale" ELSE "loading"]
<1>1. /\ TypeOK /\ entry \in Entry /\ LaneOK(entry, None) /\ job = Idle
      /\ UNCHANGED <<server, named, online, orphans, spent>>
      /\ entry.lane # <<>> /\ entry.lane \in Seq(Kinds) /\ IsInjective(entry.lane)
  BY DEF LaneInv, TypeOK, LaneTurn, Idle, Entry
<1>2. /\ source' = fresh
      /\ job' = IF begins THEN Started(turn, kind, fresh) ELSE Idle
      /\ entry' = CASE kind = "hydrate" /\ begins -> shown
                    [] kind = "hydrate" /\ ~begins -> PassOver(turn)
                    [] kind = "digest" /\ ~begins -> Finish(turn)
                    [] OTHER -> turn
  BY DEF LaneTurn
<1>3. /\ kind \in Kinds /\ kind \in Queued(entry) /\ Tail(entry.lane) \in Seq(Kinds)
      /\ Range(Tail(entry.lane)) = Queued(entry) \ {kind} /\ IsInjective(Tail(entry.lane))
  BY <1>1, RangeOfTail DEF Queued
<1>4. /\ turn \in Entry /\ turn.lane = Tail(entry.lane) /\ SameCaller(entry, turn)
      /\ SamePoll(entry, turn) /\ turn.retry = entry.retry
      /\ turn.life = entry.life /\ turn.snapshot = entry.snapshot /\ turn.gen = entry.gen
      /\ turn.status = entry.status /\ turn.definition = entry.definition
      /\ turn.epoch = entry.epoch /\ turn.drift = entry.drift /\ turn.focus = entry.focus
      /\ turn.hydrating = entry.hydrating /\ turn.forced = entry.forced
      /\ turn.validation = entry.validation
  <2> DEFINE rest == Tail(entry.lane)
  <2>1. turn = [entry EXCEPT !.lane = rest, !.wedged = FALSE] BY <1>1 DEF Entry
  <2>2. rest \in Seq(Kinds) BY <1>3
  <2> HIDE DEF turn, rest
  <2>3. /\ turn \in Entry /\ turn.lane = rest /\ SameCaller(entry, turn)
        /\ SamePoll(entry, turn) /\ turn.retry = entry.retry
        /\ turn.life = entry.life /\ turn.snapshot = entry.snapshot /\ turn.gen = entry.gen
        /\ turn.status = entry.status /\ turn.definition = entry.definition
        /\ turn.epoch = entry.epoch /\ turn.drift = entry.drift /\ turn.focus = entry.focus
        /\ turn.hydrating = entry.hydrating /\ turn.forced = entry.forced
        /\ turn.validation = entry.validation
    BY <1>1, <2>1, <2>2 DEF Entry, SameCaller, SamePoll
  <2> QED BY <2>3 DEF rest
<1>5. shown \in Entry /\ SameWork(turn, shown) /\ SameCaller(turn, shown) /\ SamePoll(turn, shown)
      /\ shown.retry = turn.retry
      /\ shown.life = turn.life /\ shown.snapshot = turn.snapshot /\ shown.gen = turn.gen
      /\ shown.definition = turn.definition /\ shown.epoch = turn.epoch
      /\ shown.drift = turn.drift /\ shown.focus = turn.focus
  <2> HIDE DEF turn
  <2> QED BY <1>4 DEF Entry, SameWork, SameCaller, SamePoll
<1>6. /\ Started(turn, kind, fresh) \in Job
      /\ Started(turn, kind, fresh).kind = kind
      /\ Started(turn, kind, fresh).seen = None
      /\ Started(turn, kind, fresh).epoch = entry.epoch
      /\ Started(turn, kind, fresh).gen = entry.gen
      /\ Started(turn, kind, fresh).session = fresh.session
  <2>1. fresh.session \in Nat BY <1>1 DEF TypeOK, Recycled
  <2>2. turn.epoch \in Nat /\ turn.gen \in Nat BY <1>4 DEF Entry
  <2> HIDE DEF turn, fresh, kind
  <2> QED BY <1>3, <1>4, <2>1, <2>2 DEF Started, Job
<1>7. LaneOK(turn, kind)
  <2>1. Queued(turn) = Queued(entry) \ {kind} BY <1>3, <1>4 DEF Queued
  <2>2. None \notin Kinds /\ "hydrate" # None /\ "digest" # None
    BY NoneIsNothing DEF Kinds
  <2> HIDE DEF turn, kind
  <2> QED BY <1>1, <1>3, <1>4, <2>1, <2>2 DEF LaneOK, LaneBase
<1> HIDE DEF turn, shown, fresh, kind
<1>8. Quiet(entry) => Quiet(turn) BY <1>4 DEF Quiet, SamePoll
<1>9. PollOK(entry) => PollOK(turn) BY <1>4 DEF PollOK, SamePoll
<1>10. CASE kind = "hydrate" /\ begins
  <2>1. entry' = shown /\ job' = Started(turn, kind, fresh) BY <1>2, <1>10
  <2>2. LaneOK(shown, kind) BY <1>5, <1>7, SameWorkSameLane
  <2>3. (Quiet(entry) => Quiet(shown)) /\ (PollOK(entry) => PollOK(shown))
    BY <1>5, <1>8, <1>9 DEF Quiet, PollOK, SamePoll
  <2> QED BY <1>1, <1>2, <1>4, <1>5, <1>6, <1>10, <2>1, <2>2, <2>3
          DEF Turned, SameCaller, SameWork, fresh
<1>11. CASE kind = "hydrate" /\ ~begins
  <2>1. entry' = PassOver(turn) /\ job' = Idle BY <1>2, <1>11
  <2>2. ~online \/ entry.life = "gone" BY <1>11 DEF CanHydrate
  <2>3. LaneOK(turn, "hydrate") BY <1>7, <1>11
  <2>4. /\ entry' \in Entry /\ SameCore(turn, entry') /\ LaneOK(entry', None)
        /\ CallersGoOn(turn, entry') /\ (online /\ PollOK(turn) => PollOK(entry'))
    BY <1>1, <1>4, <2>1, <2>3, HydrationOver DEF SameWork, SameCaller
  <2>5. job'.kind = None BY <2>1 DEF Idle
  <2>6. CallersGoOn(entry, entry') BY <1>4, <2>4 DEF CallersGoOn, SameCaller, CanHydrate
  <2> QED BY <2>6, <1>1, <1>2, <1>4, <1>8, <1>9, <2>1, <2>2, <2>4, <2>5 DEF Turned, SameCore, fresh
<1>12. CASE kind = "digest" /\ ~begins
  <2>1. entry' = Finish(turn) /\ job' = Idle BY <1>2, <1>12
  <2>2. ~online BY <1>12
  <2>3. LaneOK(turn, "digest") BY <1>7, <1>12
  <2>4. /\ entry' \in Entry /\ SameCore(turn, entry') /\ LaneOK(entry', None)
        /\ (online /\ PollOK(turn) => PollOK(entry'))
        /\ SameCaller(turn, entry') /\ entry'.hydrating = turn.hydrating
        /\ entry'.forced = turn.forced
    BY <1>4, <2>1, <2>3, DigestFinish
  <2>5. job'.kind = None BY <2>1 DEF Idle
  <2> QED BY <1>1, <1>2, <1>4, <1>8, <1>9, <2>1, <2>2, <2>4, <2>5
          DEF Turned, SameCore, SameCaller, fresh
<1>13. CASE kind \in Objects /\ ~begins
  <2>0. kind # "hydrate" /\ kind # "digest" BY <1>13, ObjectsAreThemselves
  <2>1. entry' = turn /\ job' = Idle BY <1>2, <1>13, <2>0
  <2>2. ~online BY <1>13, <2>0
  <2>3. None \notin Kinds /\ "hydrate" # None /\ "digest" # None
    BY NoneIsNothing DEF Kinds
  <2>4. LaneOK(turn, None)
    BY <1>7, <2>0, <2>3 DEF LaneOK, LaneBase
  <2>5. job'.kind = None BY <2>1 DEF Idle
  <2> QED BY <1>1, <1>2, <1>4, <1>8, <1>9, <2>1, <2>2, <2>4, <2>5
          DEF Turned, SameCaller, fresh
<1>14. CASE kind # "hydrate" /\ begins
  <2>1. entry' = turn /\ job' = Started(turn, kind, fresh) BY <1>2, <1>14
  <2> QED BY <1>1, <1>2, <1>4, <1>6, <1>7, <1>8, <1>9, <2>1 DEF Turned, fresh
<1> QED BY <1>3, <1>10, <1>11, <1>12, <1>13, <1>14 DEF Kinds

(* The work on the lane is over: it has published, left a definition or      *)
(* nothing behind, or it was abandoned and goes on.                          *)
WorkEnded ==
    /\ job \in Job /\ job' = Idle
    /\ entry' \in Entry /\ entry'.life = entry.life
    /\ LaneOK(entry', None)
    /\ Quiet(entry) => Quiet(entry')
    /\ online /\ PollOK(entry) => PollOK(entry')
    /\ entry.wedged => entry'.wedged
    /\ IF job.kind = "hydrate"
       THEN CallersGoOn(entry, entry')
       ELSE /\ SameCaller(entry, entry') /\ entry'.status = entry.status
            /\ entry.hydrating => entry'.hydrating /\ (entry.forced => entry'.forced)
    /\ UNCHANGED <<server, named, online, source>>

LeftAlone ==
    entry'.snapshot = entry.snapshot /\ entry'.gen = entry.gen

PassPublished ==
    /\ job.kind = "hydrate" /\ job.epoch = entry.epoch /\ job.seen \in Version
    /\ Published(entry, entry', job.seen)

PassFailed ==
    /\ job.kind = "hydrate" /\ LeftAlone /\ entry'.definition = entry.definition
    /\ entry.life # "gone" => entry'.status = "failed"

DefinitionLeft(j) ==
    /\ LeftAlone
    /\ \/ entry'.definition = entry.definition
       \/ /\ j.gen = entry.gen /\ j.seen \in Version /\ j.kind \in Objects
          /\ entry'.definition = [entry.definition EXCEPT ![j.kind] = j.seen]

WorkOver ==
    /\ WorkEnded
    /\ orphans' = orphans /\ entry'.epoch = entry.epoch /\ Calls
    /\ PassPublished \/ PassFailed \/ (job.kind # "hydrate" /\ DefinitionLeft(job))

LEMMA DefinitionEffect ==
    ASSUME NEW e \in Entry, e = entry, NEW j \in Job, j.seen \in Version, j.kind \in Objects,
           entry' = DefinitionEnds(e, j)
    PROVE  /\ entry' \in Entry /\ SameWork(e, entry') /\ SameCaller(e, entry')
           /\ SamePoll(e, entry') /\ entry'.retry = e.retry /\ entry'.drift = e.drift
           /\ entry'.life = e.life /\ entry'.epoch = e.epoch /\ entry'.wedged = e.wedged
           /\ entry'.status = e.status /\ entry'.focus = e.focus /\ DefinitionLeft(j)
<1> DEFINE read == [e.definition EXCEPT ![j.kind] = j.seen]
<1>1. read \in [Objects -> Version \cup {None}] BY DEF Entry
<1>2. CASE e.gen = j.gen
  <2>1. entry' = [e EXCEPT !.definition = read] BY <1>2 DEF DefinitionEnds, Entry
  <2>2. read = [e.definition EXCEPT ![j.kind] = j.seen] OBVIOUS
  <2> HIDE DEF read
  <2>3. entry'.definition = read /\ LeftAlone BY <2>1 DEF Entry, LeftAlone
  <2>4. DefinitionLeft(j) BY <1>2, <2>2, <2>3 DEF DefinitionLeft
  <2> QED BY <1>1, <2>1, <2>4 DEF Entry, SameWork, SameCaller, SamePoll
<1>3. CASE e.gen # j.gen
  <2>1. entry' = e BY <1>3 DEF DefinitionEnds
  <2> QED BY <2>1 DEF DefinitionLeft, LeftAlone, SameWork, SameCaller, SamePoll
<1> QED BY <1>2, <1>3

LEMMA JobEndsEffect ==
    ASSUME LaneInv, JobEnds
    PROVE  WorkOver
<1>1. /\ TypeOK /\ entry \in Entry /\ job \in Job /\ job.seen \in Version /\ job.kind \in Kinds
      /\ LaneOK(entry, job.kind) /\ job' = Idle /\ orphans' = orphans /\ Calls
      /\ UNCHANGED <<server, named, online, source>>
      /\ entry.life # "gone" => job.epoch = entry.epoch
  BY NoCallIsCounted DEF LaneInv, TypeOK, EpochOK, JobEnds, Job
<1>2. entry' = CASE job.kind = "hydrate" -> PassOver(HydrateEnds(entry, job))
                 [] job.kind = "digest" -> DigestEnds(entry, job)
                 [] job.kind \in Objects -> DefinitionEnds(entry, job)
  BY DEF JobEnds
<1>3. CASE job.kind = "hydrate"
  <2> DEFINE g == HydrateEnds(entry, job)
  <2>1. /\ g \in Entry /\ SameWork(entry, g) /\ SameCaller(entry, g)
        /\ g.life = entry.life /\ g.epoch = entry.epoch /\ (entry.wedged => g.wedged)
        /\ Quiet(entry) => Quiet(g)
        /\ online /\ PollOK(entry) => PollOK(g)
        /\ \/ job.epoch = entry.epoch /\ Published(entry, g, job.seen)
           \/ /\ job.epoch = entry.epoch /\ g.status = "failed" /\ g.snapshot = entry.snapshot
              /\ g.gen = entry.gen /\ g.definition = entry.definition
           \/ job.epoch # entry.epoch /\ SameData(entry, g)
    BY <1>1, HydrateEndsEffect
  <2>2. entry' = PassOver(g) BY <1>2, <1>3, ObjectsAreThemselves
  <2> HIDE DEF g
  <2>3. /\ entry' \in Entry /\ SameCore(g, entry') /\ LaneOK(entry', None)
        /\ CallersGoOn(entry, entry') /\ entry'.life = entry.life
        /\ Quiet(entry) => Quiet(entry')
        /\ online /\ PollOK(entry) => PollOK(entry')
    BY <1>1, <1>3, <2>1, <2>2, HydrationOver
  <2>4. WorkEnded BY <1>1, <1>3, <2>1, <2>3 DEF WorkEnded, SameCore
  <2>5. PassPublished \/ PassFailed
    BY <1>1, <1>3, <2>1, <2>3 DEF PassPublished, PassFailed, LeftAlone, Published, SameCore, SameData
  <2> QED BY <1>1, <2>1, <2>3, <2>4, <2>5 DEF WorkOver, SameCore
<1>4. CASE job.kind = "digest"
  <2>1. entry' = DigestEnds(entry, job) BY <1>2, <1>4, ObjectsAreThemselves
  <2>2. /\ entry' \in Entry /\ SameData(entry, entry') /\ SameCaller(entry, entry')
        /\ LaneOK(entry', None)
        /\ online /\ PollOK(entry) => PollOK(entry')
        /\ entry.hydrating => entry'.hydrating /\ (entry.forced => entry'.forced)
    BY <1>1, <1>4, <2>1, DigestEndsEffect
  <2>3. WorkEnded BY <1>1, <1>4, <2>2 DEF WorkEnded, SameData
  <2> QED BY <1>1, <1>4, <2>2, <2>3 DEF WorkOver, DefinitionLeft, LeftAlone, SameData
<1>5. CASE job.kind \in Objects
  <2>0. job.kind # "hydrate" /\ job.kind # "digest" BY <1>5, ObjectsAreThemselves
  <2>1. entry' = DefinitionEnds(entry, job) BY <1>2, <1>5, <2>0
  <2>2. /\ entry' \in Entry /\ SameWork(entry, entry') /\ SameCaller(entry, entry')
        /\ SamePoll(entry, entry') /\ entry'.retry = entry.retry /\ entry'.drift = entry.drift
        /\ entry'.life = entry.life /\ entry'.epoch = entry.epoch /\ entry'.wedged = entry.wedged
        /\ entry'.status = entry.status /\ entry'.focus = entry.focus /\ DefinitionLeft(job)
    BY <1>1, <1>5, <2>1, DefinitionEffect
  <2>3. None \notin Kinds BY NoneIsNothing DEF Kinds
  <2>4. LaneOK(entry', None)
    <3>1. LaneOK(entry', job.kind) BY <1>1, <2>2, SameWorkSameLane
    <3> QED BY <2>0, <2>3, <3>1 DEF LaneOK, LaneBase, Kinds
  <2>5. /\ Quiet(entry) => Quiet(entry')
        /\ PollOK(entry) => PollOK(entry')
    BY <2>2 DEF Quiet, PollOK, SamePoll
  <2>6. WorkEnded BY <1>1, <2>0, <2>2, <2>4, <2>5 DEF WorkEnded, SameWork
  <2> QED BY <1>1, <2>0, <2>2, <2>6 DEF WorkOver
<1> QED BY <1>1, <1>3, <1>4, <1>5 DEF Kinds

LEMMA JobFailsEffect ==
    ASSUME LaneInv, JobFails
    PROVE  WorkOver
<1>1. /\ TypeOK /\ entry \in Entry /\ job \in Job /\ job.kind \in Kinds
      /\ LaneOK(entry, job.kind) /\ job' = Idle /\ orphans' = orphans
      /\ UNCHANGED <<server, named, online, source>>
      /\ entry.life # "gone" => job.epoch = entry.epoch
  BY DEF LaneInv, TypeOK, EpochOK, JobFails, Job
<1>2. Calls
  <2>1. CASE UNCHANGED spent BY <1>1, <2>1, NoCallIsCounted
  <2>2. CASE spent.fails < MaxFails /\ spent' = [spent EXCEPT !.fails = @ + 1]
    BY <1>1, <2>2, FailIsCounted
  <2> QED BY <2>1, <2>2 DEF JobFails
<1>3. entry' = CASE job.kind = "hydrate" -> PassOver(HydrateFails(entry, job))
                 [] job.kind = "digest" -> Finish(entry)
                 [] job.kind \in Objects -> entry
  BY DEF JobFails
<1>4. CASE job.kind = "hydrate"
  <2> DEFINE g == HydrateFails(entry, job)
  <2>1. /\ g \in Entry /\ SameWork(entry, g) /\ SameCaller(entry, g) /\ SamePoll(entry, g)
        /\ g.life = entry.life /\ g.epoch = entry.epoch /\ g.wedged = entry.wedged
        /\ g.drift = entry.drift /\ g.focus = entry.focus /\ (Quiet(entry) => Quiet(g))
        /\ g.snapshot = entry.snapshot /\ g.gen = entry.gen /\ g.definition = entry.definition
        /\ job.epoch = entry.epoch => g.status = "failed"
    BY <1>1, HydrateFailsEffect
  <2>2. entry' = PassOver(g) BY <1>3, <1>4, ObjectsAreThemselves
  <2>3. PollOK(entry) => PollOK(g) BY <2>1 DEF PollOK, SamePoll
  <2> HIDE DEF g
  <2>4. /\ entry' \in Entry /\ SameCore(g, entry') /\ LaneOK(entry', None)
        /\ CallersGoOn(entry, entry') /\ entry'.life = entry.life
        /\ Quiet(entry) => Quiet(entry')
        /\ online /\ PollOK(entry) => PollOK(entry')
    BY <1>1, <1>4, <2>1, <2>2, <2>3, HydrationOver
  <2>5. WorkEnded BY <1>1, <1>4, <2>1, <2>4 DEF WorkEnded, SameCore
  <2>6. PassFailed BY <1>1, <1>4, <2>1, <2>4 DEF PassFailed, LeftAlone, SameCore
  <2> QED BY <1>1, <1>2, <2>1, <2>4, <2>5, <2>6 DEF WorkOver, SameCore
<1>5. CASE job.kind = "digest"
  <2>1. entry' = Finish(entry) BY <1>3, <1>5, ObjectsAreThemselves
  <2>2. /\ entry' \in Entry /\ SameCore(entry, entry') /\ SameCaller(entry, entry')
        /\ LaneOK(entry', None)
        /\ online /\ PollOK(entry) => PollOK(entry')
        /\ entry'.hydrating = entry.hydrating /\ entry'.forced = entry.forced
    BY <1>1, <1>5, <2>1, DigestFinish
  <2>3. WorkEnded BY <1>1, <1>5, <2>2 DEF WorkEnded, SameCore
  <2> QED BY <1>1, <1>2, <1>5, <2>2, <2>3 DEF WorkOver, DefinitionLeft, LeftAlone, SameCore
<1>6. CASE job.kind \in Objects
  <2>0. job.kind # "hydrate" /\ job.kind # "digest" BY <1>6, ObjectsAreThemselves
  <2>1. entry' = entry BY <1>3, <1>6, <2>0
  <2>2. None \notin Kinds BY NoneIsNothing DEF Kinds
  <2>3. LaneOK(entry', None) BY <1>1, <2>0, <2>1, <2>2 DEF LaneOK, LaneBase, Kinds
  <2>4. WorkEnded BY <1>1, <2>0, <2>1, <2>3 DEF WorkEnded, SameCaller
  <2> QED BY <1>1, <1>2, <2>0, <2>1, <2>4 DEF WorkOver, DefinitionLeft, LeftAlone
<1> QED BY <1>1, <1>4, <1>5, <1>6 DEF Kinds

(* The watchdog leaves the work to itself, in an epoch that is past.         *)
WorkAbandoned ==
    /\ WorkEnded
    /\ orphans' = orphans \cup {job}
    /\ entry'.epoch = entry.epoch + 1 /\ entry'.wedged
    /\ LeftAlone /\ entry'.definition = entry.definition
    /\ job.kind = "hydrate" /\ entry.life # "gone" => entry'.status = "failed"
    /\ spent.timeouts < MaxTimeouts
    /\ spent' = [spent EXCEPT !.timeouts = @ + 1]

LEMMA WatchdogEffect ==
    ASSUME LaneInv, WatchdogFires
    PROVE  WorkAbandoned
<1> DEFINE a == Abandoned(entry)
<1>1. /\ TypeOK /\ entry \in Entry /\ job \in Job /\ job.kind \in Kinds
      /\ LaneOK(entry, job.kind) /\ job' = Idle /\ orphans' = orphans \cup {job}
      /\ UNCHANGED <<server, named, online, source>>
      /\ spent.timeouts < MaxTimeouts /\ spent' = [spent EXCEPT !.timeouts = @ + 1]
  BY DEF LaneInv, TypeOK, WatchdogFires, Job
<1>2. entry' = CASE job.kind = "hydrate" -> PassOver(IF a.life = "gone" THEN a ELSE Failed(a))
                 [] job.kind = "digest" -> Finish(a)
                 [] job.kind \in Objects -> a
  BY DEF WatchdogFires
<1>3. /\ a \in Entry /\ SameWork(entry, a) /\ SameCaller(entry, a) /\ SamePoll(entry, a)
      /\ a.life = entry.life /\ a.retry = entry.retry /\ a.drift = entry.drift
      /\ a.snapshot = entry.snapshot /\ a.gen = entry.gen /\ a.status = entry.status
      /\ a.definition = entry.definition /\ a.epoch = entry.epoch + 1 /\ a.wedged
      /\ a.focus = entry.focus
  <2>1. entry.epoch + 1 \in Nat BY <1>1 DEF Entry
  <2> QED BY <1>1, <2>1 DEF Abandoned, Entry, SameWork, SameCaller, SamePoll
<1> HIDE DEF a
<1>4. /\ Quiet(entry) => Quiet(a)
      /\ PollOK(entry) => PollOK(a)
  BY <1>3 DEF Quiet, PollOK, SamePoll
<1>5. LaneOK(a, job.kind) BY <1>1, <1>3, SameWorkSameLane
<1>6. CASE job.kind = "hydrate"
  <2> DEFINE g == IF a.life = "gone" THEN a ELSE Failed(a)
             marked == [a EXCEPT !.status = "failed"]
  <2>1. /\ g \in Entry /\ SameWork(a, g) /\ SameCaller(a, g) /\ SamePoll(a, g)
        /\ g.life = a.life /\ g.drift = a.drift /\ (Quiet(a) => Quiet(g))
        /\ g.snapshot = a.snapshot /\ g.gen = a.gen /\ g.definition = a.definition
        /\ g.epoch = a.epoch /\ g.wedged /\ g.focus = a.focus
        /\ a.life # "gone" => g.status = "failed"
    <3>1. CASE a.life = "gone" BY <1>3, <3>1 DEF SameWork, SameCaller, SamePoll
    <3>2. CASE a.life # "gone"
      <4>1. /\ marked.life = a.life /\ marked.snapshot = a.snapshot /\ marked.gen = a.gen
            /\ marked.definition = a.definition /\ marked.epoch = a.epoch
            /\ marked.wedged = a.wedged /\ marked.drift = a.drift /\ marked.focus = a.focus
            /\ (Quiet(a) => Quiet(marked))
        BY <1>3 DEF Entry, Quiet
      <4>2. g = Failed(a) BY <3>2
      <4>3. SameCore(marked, g) BY <1>3, <4>2, FailedEffect
      <4> HIDE DEF marked
      <4> QED BY <1>3, <4>1, <4>2, <4>3, FailedEffect DEF SameCore
    <3> QED BY <3>1, <3>2
  <2>2. entry' = PassOver(g) BY <1>2, <1>6, ObjectsAreThemselves
  <2> HIDE DEF g, marked
  <2>3. /\ SameWork(entry, g) /\ SameCaller(entry, g) /\ g.life = entry.life
        /\ (Quiet(entry) => Quiet(g)) /\ (PollOK(entry) => PollOK(g))
    BY <1>3, <1>4, <2>1 DEF SameWork, SameCaller, SamePoll, PollOK
  <2>4. /\ entry' \in Entry /\ SameCore(g, entry') /\ LaneOK(entry', None)
        /\ CallersGoOn(entry, entry') /\ entry'.life = entry.life
        /\ Quiet(entry) => Quiet(entry')
        /\ online /\ PollOK(entry) => PollOK(entry')
    BY <1>1, <1>6, <2>1, <2>2, <2>3, HydrationOver
  <2>5. WorkEnded BY <1>1, <1>6, <2>1, <2>4 DEF WorkEnded, SameCore
  <2> QED BY <1>1, <1>3, <2>1, <2>4, <2>5 DEF WorkAbandoned, LeftAlone, SameCore
<1>7. CASE job.kind = "digest"
  <2>1. entry' = Finish(a) BY <1>2, <1>7, ObjectsAreThemselves
  <2>2. /\ entry' \in Entry /\ SameCore(a, entry') /\ SameCaller(a, entry')
        /\ LaneOK(entry', None)
        /\ online /\ PollOK(a) => PollOK(entry')
        /\ entry'.hydrating = a.hydrating /\ entry'.forced = a.forced
    BY <1>3, <1>5, <1>7, <2>1, DigestFinish
  <2>3. WorkEnded
    BY <1>1, <1>3, <1>4, <1>7, <2>2 DEF WorkEnded, SameCore, SameWork, SameCaller
  <2> QED BY <1>1, <1>3, <1>7, <2>2, <2>3 DEF WorkAbandoned, LeftAlone, SameCore
<1>8. CASE job.kind \in Objects
  <2>0. job.kind # "hydrate" /\ job.kind # "digest" BY <1>8, ObjectsAreThemselves
  <2>1. entry' = a BY <1>2, <1>8, <2>0
  <2>2. None \notin Kinds BY NoneIsNothing DEF Kinds
  <2>3. LaneOK(entry', None) BY <1>5, <2>0, <2>1, <2>2 DEF LaneOK, LaneBase, Kinds
  <2>4. WorkEnded BY <1>1, <1>3, <1>4, <2>0, <2>1, <2>3 DEF WorkEnded, SameWork
  <2> QED BY <1>1, <1>3, <2>0, <2>1, <2>4 DEF WorkAbandoned, LeftAlone
<1> QED BY <1>1, <1>6, <1>7, <1>8 DEF Kinds

(* Abandoned work that ends or fails finds an epoch that is not its own: it  *)
(* leaves a definition behind, or nothing.                                   *)
OrphanOver ==
    /\ \E j \in orphans : orphans' = orphans \ {j} /\ DefinitionLeft(j)
    /\ entry' \in Entry /\ SameWork(entry, entry') /\ SameCaller(entry, entry')
    /\ entry'.life = entry.life /\ entry'.status = entry.status /\ entry'.epoch = entry.epoch
    /\ entry.wedged => entry'.wedged
    /\ Quiet(entry) => Quiet(entry')
    /\ online /\ PollOK(entry) => PollOK(entry')
    /\ UNCHANGED <<server, named, online, source, job, spent>>

LEMMA OrphanEndsEffect ==
    ASSUME LaneInv, OrphanEnds
    PROVE  OrphanOver
<1>1. PICK j \in orphans :
        /\ j.seen # None
        /\ entry' = CASE j.kind = "hydrate" -> HydrateEnds(entry, j)
                      [] j.kind = "digest" -> entry
                      [] j.kind \in Objects -> DefinitionEnds(entry, j)
        /\ orphans' = orphans \ {j}
        /\ UNCHANGED <<server, named, online, source, job, spent>>
  BY DEF OrphanEnds
<1>2. /\ entry \in Entry /\ j \in Job /\ j.seen \in Version /\ j.kind \in Kinds
      /\ j.epoch # entry.epoch
  BY <1>1 DEF LaneInv, TypeOK, EpochOK, Job, Entry
<1>3. CASE j.kind = "hydrate"
  <2>1. entry' = HydrateEnds(entry, j) BY <1>1, <1>3, ObjectsAreThemselves
  <2>2. /\ entry' \in Entry /\ SameWork(entry, entry') /\ SameCaller(entry, entry')
        /\ SameData(entry, entry')
        /\ online /\ PollOK(entry) => PollOK(entry')
    BY <1>2, <2>1, HydrateEndsEffect
  <2> QED BY <1>1, <2>2 DEF OrphanOver, DefinitionLeft, LeftAlone, SameData
<1>4. CASE j.kind = "digest"
  <2>1. entry' = entry BY <1>1, <1>4, ObjectsAreThemselves
  <2> QED BY <1>1, <1>2, <2>1 DEF OrphanOver, DefinitionLeft, LeftAlone, SameWork, SameCaller
<1>5. CASE j.kind \in Objects
  <2>0. j.kind # "hydrate" /\ j.kind # "digest" BY <1>5, ObjectsAreThemselves
  <2>1. entry' = DefinitionEnds(entry, j) BY <1>1, <1>5, <2>0
  <2>2. /\ entry' \in Entry /\ SameWork(entry, entry') /\ SameCaller(entry, entry')
        /\ SamePoll(entry, entry') /\ entry'.retry = entry.retry /\ entry'.drift = entry.drift
        /\ entry'.life = entry.life /\ entry'.epoch = entry.epoch /\ entry'.wedged = entry.wedged
        /\ entry'.status = entry.status /\ entry'.focus = entry.focus /\ DefinitionLeft(j)
    BY <1>2, <1>5, <2>1, DefinitionEffect
  <2>3. /\ Quiet(entry) => Quiet(entry')
        /\ PollOK(entry) => PollOK(entry')
    BY <2>2 DEF Quiet, PollOK, SamePoll
  <2> QED BY <1>1, <2>2, <2>3 DEF OrphanOver
<1> QED BY <1>2, <1>3, <1>4, <1>5 DEF Kinds

LEMMA OrphanFailsEffect ==
    ASSUME LaneInv, OrphanFails
    PROVE  OrphanOver
<1>1. PICK j \in orphans :
        /\ entry' = IF j.kind = "hydrate" THEN HydrateFails(entry, j) ELSE entry
        /\ orphans' = orphans \ {j}
        /\ UNCHANGED <<server, named, online, source, job, spent>>
  BY DEF OrphanFails
<1>2. entry \in Entry /\ j \in Job /\ j.epoch # entry.epoch
  BY <1>1 DEF LaneInv, TypeOK, EpochOK, Job, Entry
<1>3. HydrateFails(entry, j) = entry BY <1>2 DEF HydrateFails
<1>4. entry' = entry BY <1>1, <1>3
<1> QED BY <1>1, <1>2, <1>4 DEF OrphanOver, DefinitionLeft, LeftAlone, SameWork, SameCaller

-----------------------------------------------------------------------------
(* Work reads: it has seen the server as it is, and is as before otherwise.  *)
ReadBy(j, r) ==
    /\ r \in Job /\ r.kind = j.kind /\ r.epoch = j.epoch /\ r.gen = j.gen
    /\ r.session = j.session /\ r.seen = server

JobRead ==
    /\ job \in Job /\ ReadBy(job, job')
    /\ source' = [source EXCEPT !.open = TRUE] /\ Calls
    /\ UNCHANGED <<server, named, online, entry, orphans>>

OrphanRead ==
    /\ \E j \in orphans : \E r \in Job :
           ReadBy(j, r) /\ orphans' = (orphans \ {j}) \cup {r}
    /\ source' = [source EXCEPT !.open = TRUE] /\ Calls
    /\ UNCHANGED <<server, named, online, entry, job>>

LEMMA WorkHasRead ==
    ASSUME TypeOK, NEW j \in Job, NEW ours \in BOOLEAN
    PROVE  ReadBy(j, HasRead(j, ours))
BY DEF HasRead, ReadBy, Job, TypeOK

LEMMA IdentityCounted ==
    ASSUME TypeOK, NEW j, NEW ours, Identifies(j, ours)
    PROVE  Calls
<1>1. CASE UNCHANGED spent BY <1>1, NoCallIsCounted
<1>2. CASE ~UNCHANGED spent BY <1>2, FailIsCounted DEF Identifies
<1> QED BY <1>1, <1>2

LEMMA JobReadsEffect == ASSUME LaneInv, JobReads PROVE JobRead
<1>1. TypeOK /\ job \in Job BY DEF LaneInv, TypeOK, JobReads
<1>2. PICK ours \in BOOLEAN : Identifies(job, ours) /\ job' = HasRead(job, ours)
  BY DEF JobReads
<1> QED BY <1>1, <1>2, WorkHasRead, IdentityCounted DEF JobReads, JobRead

LEMMA OrphanReadsEffect == ASSUME LaneInv, OrphanReads PROVE OrphanRead
<1>1. PICK j \in orphans :
        /\ \E ours \in BOOLEAN :
              /\ Identifies(j, ours)
              /\ orphans' = (orphans \ {j}) \cup {HasRead(j, ours)}
        /\ source' = [source EXCEPT !.open = TRUE]
        /\ UNCHANGED <<server, named, online, entry, job>>
  BY DEF OrphanReads
<1>2. PICK ours \in BOOLEAN :
        /\ Identifies(j, ours)
        /\ orphans' = (orphans \ {j}) \cup {HasRead(j, ours)}
  BY <1>1
<1>3. TypeOK /\ j \in Job BY DEF LaneInv, TypeOK
<1>4. ReadBy(j, HasRead(j, ours)) BY <1>3, WorkHasRead
<1>5. HasRead(j, ours) \in Job BY <1>4 DEF ReadBy
<1>6. Calls BY <1>2, <1>3, IdentityCounted
<1> QED BY <1>1, <1>2, <1>4, <1>5, <1>6 DEF OrphanRead

(* A session is lost.                                                        *)
Lost ==
    /\ source' = [source EXCEPT !.open = FALSE] /\ Calls
    /\ UNCHANGED <<server, named, online, entry, job, orphans>>

LEMMA SessionLostEffect == ASSUME LaneInv, SessionLost PROVE Lost
BY FailIsCounted DEF LaneInv, SessionLost, Lost

(* Every step of the engine is one of these.                                 *)
Steps ==
    \/ Request \/ Acquired \/ Waited \/ Disposed \/ Focused \/ Turned
    \/ JobRead \/ WorkOver \/ WorkAbandoned \/ OrphanRead \/ OrphanOver
    \/ Ddl \/ Rename \/ Lost \/ SwitchNetwork

LEMMA NextIsSteps == ASSUME LaneInv, Next PROVE Steps
<1>1. CASE \/ Refresh \/ RequireValidated \/ AllowStale \/ AskedOffline
           \/ NoteAccessStateChanged \/ NotifyExecutedBatch
           \/ (\E o \in Objects : GetModuleDefinition(o))
           \/ RetryFires \/ PollFires \/ LimiterAdmits
  BY <1>1, Requests DEF Steps
<1>2. CASE Acquire BY <1>2, AcquireEffect DEF Steps
<1>3. CASE RequireLive BY <1>3, RequireLiveEffect DEF Steps
<1>4. CASE Dispose BY <1>4, DisposeEffect DEF Steps
<1>5. CASE LaneTurn BY <1>5, LaneTurnEffect DEF Steps
<1>6. CASE JobEnds BY <1>6, JobEndsEffect DEF Steps
<1>7. CASE JobFails BY <1>7, JobFailsEffect DEF Steps
<1>8. CASE WatchdogFires BY <1>8, WatchdogEffect DEF Steps
<1>9. CASE OrphanEnds BY <1>9, OrphanEndsEffect DEF Steps
<1>10. CASE OrphanFails BY <1>10, OrphanFailsEffect DEF Steps
<1>11. CASE JobReads BY <1>11, JobReadsEffect DEF Steps
<1>12. CASE OrphanReads BY <1>12, OrphanReadsEffect DEF Steps
<1>13. CASE SessionLost BY <1>13, SessionLostEffect DEF Steps
<1>14. CASE SuspendPolls BY <1>14, SuspendEffect DEF Steps
<1>15. CASE ResumePolls BY <1>15, ResumeEffect DEF Steps
<1>16. CASE Ddl \/ Rename \/ SwitchNetwork BY <1>16 DEF Steps
<1> QED
  BY <1>1, <1>2, <1>3, <1>4, <1>5, <1>6, <1>7, <1>8, <1>9, <1>10, <1>11, <1>12, <1>13,
     <1>14, <1>15, <1>16
     DEF Next

(* The parts of the type invariant that are not the entry's.                 *)
RestOK ==
    /\ server \in Version
    /\ named \in BOOLEAN
    /\ online \in BOOLEAN
    /\ source \in [session : Nat, open : BOOLEAN]
    /\ job \in Job \cup {Idle}
    /\ orphans \subseteq Job
    /\ spent \in [calls : 0..MaxCalls, timeouts : 0..MaxTimeouts,
                  fails : 0..MaxFails, renames : 0..MaxRenames, flips : 0..MaxFlips,
                  aways : 0..MaxAways]

LEMMA LaneInvFromParts ==
    ASSUME RestOK, entry \in Entry, LaneOK(entry, job.kind), Quiet(entry), EpochOK
    PROVE  LaneInv
<1>1. entry.epoch \in 0..(MaxTimeouts + 1)
  <2>1. MaxTimeouts \in Nat BY BoundsAreNumbers
  <2>2. spent.timeouts \in 0..MaxTimeouts BY DEF RestOK
  <2> QED BY <2>1, <2>2 DEF EpochOK
<1>2. IsInjective(entry.lane) BY DEF LaneOK, LaneBase
<1> QED BY <1>1, <1>2 DEF LaneInv, TypeOK, RestOK

(* The entry at the start, with a snapshot from the disk or without.         *)
LEMMA InitialEntry ==
    ASSUME Init
    PROVE  /\ entry \in Entry /\ entry.lane = <<>> /\ ~entry.hydrating
           /\ entry.validation = None /\ entry.life = "new" /\ entry.epoch = 0
           /\ entry.definition = NoDefinitions /\ entry.status \in {"absent", "ready"}
           /\ entry.focus = "unwatched"
           /\ entry.caller.wait = None
           /\ entry.snapshot # None =>
                  entry.snapshot = [gen |-> 1, read |-> 0] /\ entry.gen = 1
<1>1. /\ 0 \in Version /\ 0 \in 0..Ladder /\ <<>> \in Seq(Kinds) /\ 0 \in Nat
      /\ NoDefinitions \in [Objects -> Version \cup {None}]
  BY BoundsAreNumbers DEF Version, NoDefinitions
<1>2. /\ NewEntry \in Entry /\ NewEntry.lane = <<>> /\ ~NewEntry.hydrating
      /\ NewEntry.validation = None /\ NewEntry.life = "new" /\ NewEntry.epoch = 0
      /\ NewEntry.definition = NoDefinitions /\ NewEntry.status = "absent"
      /\ NewEntry.focus = "unwatched"
      /\ NewEntry.caller.wait = None /\ NewEntry.snapshot = None
  BY <1>1 DEF NewEntry, Entry
<1>3. ASSUME NEW d \in {None, 0}
      PROVE  LET f == PublishExternalSnapshot(d)
             IN  /\ f \in Entry /\ f.lane = NewEntry.lane /\ f.hydrating = NewEntry.hydrating
                 /\ f.validation = NewEntry.validation /\ f.life = NewEntry.life
                 /\ f.epoch = NewEntry.epoch /\ f.definition = NewEntry.definition
                 /\ f.caller = NewEntry.caller /\ f.status = "ready"
                 /\ f.focus = NewEntry.focus
                 /\ f.snapshot = [gen |-> 1, read |-> 0] /\ f.gen = 1
  <2>1. [gen |-> 1, read |-> 0] \in Snapshots /\ d \in Version \cup {None}
    BY <1>1, <1>3 DEF Snapshots
  <2> QED BY <1>2, <2>1, ZenonT(60) DEF PublishExternalSnapshot, Entry
<1>4. entry \in {NewEntry, PublishExternalSnapshot(None), PublishExternalSnapshot(0)}
  BY DEF Init
<1>5. CASE entry = NewEntry BY <1>2, <1>5
<1>6. ASSUME NEW d \in {None, 0}, entry = PublishExternalSnapshot(d)
      PROVE  /\ entry \in Entry /\ entry.lane = <<>> /\ ~entry.hydrating
             /\ entry.validation = None /\ entry.life = "new" /\ entry.epoch = 0
             /\ entry.definition = NoDefinitions /\ entry.status = "ready"
             /\ entry.focus = "unwatched"
             /\ entry.caller.wait = None
             /\ entry.snapshot = [gen |-> 1, read |-> 0] /\ entry.gen = 1
  BY <1>2, <1>3, <1>6
<1> QED BY <1>4, <1>5, <1>6

(* The types, the lane and the epochs hold at the start and are kept.        *)
LEMMA LaneInvInit == Init => LaneInv
<1> SUFFICES ASSUME Init PROVE LaneInv OBVIOUS
<1>0. /\ MaxCalls \in Nat /\ MaxTimeouts \in Nat /\ MaxFails \in Nat /\ MaxRenames \in Nat
      /\ MaxFlips \in Nat /\ MaxAways \in Nat /\ MaxDdl \in Nat /\ Ladder \in Nat
  BY BoundsAreNumbers
<1>1. RestOK
  <2>1. /\ server = 0 /\ named = TRUE /\ online = TRUE
        /\ source = [session |-> 0, open |-> FALSE] /\ job = Idle /\ orphans = {}
        /\ spent = [calls |-> 0, timeouts |-> 0, fails |-> 0, renames |-> 0, flips |-> 0,
                    aways |-> 0]
    BY DEF Init
  <2>2. spent \in [calls : 0..MaxCalls, timeouts : 0..MaxTimeouts,
                   fails : 0..MaxFails, renames : 0..MaxRenames, flips : 0..MaxFlips,
                   aways : 0..MaxAways]
    BY <1>0, <2>1
  <2> QED BY <1>0, <2>1, <2>2 DEF RestOK, Version
<1>2. /\ entry \in Entry /\ entry.lane = <<>> /\ ~entry.hydrating /\ entry.validation = None
      /\ entry.life = "new" /\ entry.epoch = 0 /\ entry.focus = "unwatched"
  BY InitialEntry
<1>3. LaneOK(entry, job.kind)
  <2>1. None \notin Kinds \cup {"lane", "joined", "refetch", "refetchNext"} /\ job.kind = None
    BY NoneIsNothing DEF Kinds, Init, Idle
  <2>2. Queued(entry) = {} /\ IsInjective(entry.lane)
    BY <1>2 DEF Queued, Range, IsInjective
  <2> QED BY <1>2, <2>1, <2>2 DEF LaneOK, LaneBase, Kinds
<1>4. EpochOK BY <1>2 DEF EpochOK, Init
<1>5. Quiet(entry) BY <1>2 DEF Quiet
<1> QED BY <1>1, <1>2, <1>3, <1>4, <1>5, LaneInvFromParts

LEMMA LaneInvKept == ASSUME LaneInv, [Next]_vars PROVE LaneInv'
<1> DEFINE Parts == /\ RestOK /\ entry \in Entry /\ LaneOK(entry, job.kind)
                    /\ Quiet(entry) /\ EpochOK
<1>1. Parts BY DEF LaneInv, TypeOK, RestOK
<1>2. Parts' => LaneInv'
  <2>1. SUFFICES ASSUME Parts' PROVE LaneInv' OBVIOUS
  <2>2. entry'.epoch \in 0..(MaxTimeouts + 1)
    <3>1. MaxTimeouts \in Nat BY BoundsAreNumbers
    <3>2. spent'.timeouts \in 0..MaxTimeouts BY <2>1 DEF RestOK
    <3> QED BY <2>1, <3>1, <3>2 DEF EpochOK
  <2>3. IsInjective(entry'.lane) BY <2>1 DEF LaneOK, LaneBase
  <2> QED BY <2>1, <2>2, <2>3 DEF LaneInv, TypeOK, RestOK
<1>3. /\ entry.epoch \in Nat /\ (job # Idle => job \in Job)
      /\ Idle.kind = None /\ None \notin Kinds /\ MaxTimeouts \in Nat /\ MaxDdl \in Nat
      /\ \A j \in Job : j # Idle /\ j.epoch \in Nat /\ j.kind \in Kinds
  BY <1>1, NoneIsNothing, BoundsAreNumbers, SMTT(60) DEF RestOK, Entry, Idle, Kinds, Job
<1> HIDE DEF Parts
<1>4. CASE UNCHANGED vars
  BY <1>1, <1>2, <1>4
     DEF Parts, vars, RestOK, LaneOK, LaneBase, Queued, Quiet, EpochOK
<1>5. CASE Request
  <2>1. RestOK' BY <1>1, <1>5 DEF Parts, Request, Beside, Calls, RestOK
  <2>2. EpochOK' BY <1>1, <1>5 DEF Parts, Request, Kept, SameCore, Beside, Calls, EpochOK
  <2>3. (entry \in Entry)' /\ LaneOK(entry', job'.kind) /\ Quiet(entry')
    BY <1>1, <1>5 DEF Parts, Request, Kept, SameCore, Beside
  <2> QED BY <1>2, <2>1, <2>2, <2>3 DEF Parts
<1>6. CASE Acquired
  <2>1. RestOK' BY <1>1, <1>6 DEF Parts, Acquired, Beside, RestOK
  <2>2. EpochOK' BY <1>1, <1>6 DEF Parts, Acquired, Beside, EpochOK
  <2>3. (entry \in Entry)' /\ LaneOK(entry', job'.kind) /\ Quiet(entry')
    BY <1>1, <1>6 DEF Parts, Acquired, Beside, Quiet
  <2> QED BY <1>2, <2>1, <2>2, <2>3 DEF Parts
<1>7. CASE Waited
  <2>1. RestOK' BY <1>1, <1>7 DEF Parts, Waited, Beside, Calls, RestOK
  <2>2. EpochOK' BY <1>1, <1>7 DEF Parts, Waited, SameCore, Beside, Calls, EpochOK
  <2>3. (entry \in Entry)' /\ LaneOK(entry', job'.kind) /\ Quiet(entry')
    BY <1>1, <1>7 DEF Parts, Waited, SameCore, Beside
  <2> QED BY <1>2, <2>1, <2>2, <2>3 DEF Parts
<1>8. CASE Disposed
  <2>1. RestOK' BY <1>1, <1>8 DEF Parts, Disposed, RestOK
  <2>2. EpochOK'
    <3>1. spent.timeouts \in Nat BY <1>1, <1>3 DEF Parts, RestOK
    <3> QED BY <1>1, <1>3, <1>8, <3>1 DEF Parts, Disposed, EpochOK, RestOK
  <2>3. LaneOK(entry', job'.kind) BY <1>1, <1>8, SameWorkSameLane DEF Parts, Disposed
  <2> QED BY <1>2, <1>8, <2>1, <2>2, <2>3 DEF Parts, Disposed
<1>9. CASE Turned
  <2>1. source' \in [session : Nat, open : BOOLEAN]
    BY <1>1, <1>9 DEF Parts, RestOK, Turned, Recycled
  <2>2. RestOK' BY <1>1, <1>9, <2>1 DEF Parts, Turned, RestOK
  <2>3. EpochOK' BY <1>1, <1>3, <1>9 DEF Parts, Turned, EpochOK
  <2> QED BY <1>1, <1>2, <1>9, <2>2, <2>3 DEF Parts, Turned
<1>10. CASE JobRead
  <2>1. RestOK' BY <1>1, <1>10 DEF Parts, JobRead, ReadBy, Calls, RestOK
  <2>2. EpochOK' BY <1>1, <1>3, <1>10 DEF Parts, JobRead, ReadBy, Calls, EpochOK
  <2>3. LaneOK(entry', job'.kind)
    BY <1>1, <1>10 DEF Parts, JobRead, ReadBy, LaneOK, LaneBase, Queued
  <2> QED BY <1>1, <1>2, <1>10, <2>1, <2>2, <2>3 DEF Parts, JobRead, Quiet
<1>11. CASE WorkOver
  <2>1. RestOK' BY <1>1, <1>11 DEF Parts, WorkOver, WorkEnded, Calls, RestOK
  <2>2. EpochOK' BY <1>1, <1>11 DEF Parts, WorkOver, WorkEnded, Calls, EpochOK
  <2>3. job'.kind = None BY <1>3, <1>11 DEF WorkOver, WorkEnded
  <2> QED BY <1>1, <1>2, <1>11, <2>1, <2>2, <2>3 DEF Parts, WorkOver, WorkEnded
<1>12. CASE WorkAbandoned
  <2>1. spent.timeouts + 1 \in 0..MaxTimeouts
    BY <1>1, <1>3, <1>12 DEF Parts, RestOK, WorkAbandoned
  <2>2. RestOK' BY <1>1, <1>12, <2>1 DEF Parts, WorkAbandoned, WorkEnded, RestOK
  <2>3. EpochOK'
    <3>1. /\ job' = Idle /\ orphans' = orphans \cup {job} /\ entry'.life = entry.life
          /\ entry'.epoch = entry.epoch + 1 /\ spent'.timeouts = spent.timeouts + 1
      BY <1>1, <1>12 DEF Parts, WorkAbandoned, WorkEnded, RestOK
    <3>2. job.epoch <= entry.epoch /\ job.epoch \in Nat /\ spent.timeouts \in Nat
      BY <1>1, <1>3, <1>12 DEF Parts, WorkAbandoned, WorkEnded, EpochOK, RestOK
    <3>3. \A j \in orphans' : j.epoch < entry'.epoch
      BY <1>1, <1>3, <3>1, <3>2 DEF Parts, EpochOK, RestOK
    <3> QED BY <1>1, <1>3, <3>1, <3>2, <3>3 DEF Parts, EpochOK
  <2>4. job'.kind = None BY <1>3, <1>12 DEF WorkAbandoned, WorkEnded
  <2> QED BY <1>1, <1>2, <1>12, <2>2, <2>3, <2>4 DEF Parts, WorkAbandoned, WorkEnded
<1>13. CASE OrphanRead
  <2>1. PICK j \in orphans, r \in Job :
          ReadBy(j, r) /\ orphans' = (orphans \ {j}) \cup {r}
    BY <1>13 DEF OrphanRead
  <2>2. RestOK' BY <1>1, <1>13, <2>1 DEF Parts, OrphanRead, Calls, RestOK
  <2>3. EpochOK' BY <1>1, <1>13, <2>1 DEF Parts, OrphanRead, ReadBy, Calls, EpochOK
  <2>4. LaneOK(entry', job'.kind)
    BY <1>1, <1>13 DEF Parts, OrphanRead, LaneOK, LaneBase, Queued
  <2> QED BY <1>1, <1>2, <1>13, <2>2, <2>3, <2>4 DEF Parts, OrphanRead, Quiet
<1>14. CASE OrphanOver
  <2>1. PICK j \in orphans : orphans' = orphans \ {j} BY <1>14 DEF OrphanOver
  <2>2. RestOK' BY <1>1, <1>14, <2>1 DEF Parts, OrphanOver, RestOK
  <2>3. EpochOK' BY <1>1, <1>14, <2>1 DEF Parts, OrphanOver, EpochOK
  <2>4. LaneOK(entry', job'.kind) BY <1>1, <1>14, SameWorkSameLane DEF Parts, OrphanOver
  <2> QED BY <1>1, <1>2, <1>14, <2>2, <2>3, <2>4 DEF Parts, OrphanOver
<1>15. CASE Ddl \/ Rename \/ SwitchNetwork
  <2>1. /\ UNCHANGED <<source, entry, job, orphans>> /\ spent'.timeouts = spent.timeouts
        /\ server' \in Version /\ named' \in BOOLEAN /\ online' \in BOOLEAN
        /\ spent' \in [calls : 0..MaxCalls, timeouts : 0..MaxTimeouts,
                       fails : 0..MaxFails, renames : 0..MaxRenames, flips : 0..MaxFlips,
                       aways : 0..MaxAways]
    <3>1. MaxRenames \in Nat /\ MaxFlips \in Nat BY BoundsAreNumbers
    <3>2. CASE Ddl BY <1>1, <1>3, <3>2 DEF Parts, RestOK, Ddl, Version
    <3>3. CASE Rename
      <4>1. spent.renames + 1 \in 0..MaxRenames BY <1>1, <3>1, <3>3 DEF Parts, RestOK, Rename
      <4> QED BY <1>1, <3>3, <4>1 DEF Parts, RestOK, Rename
    <3>4. CASE SwitchNetwork
      <4>1. spent.flips + 1 \in 0..MaxFlips BY <1>1, <3>1, <3>4 DEF Parts, RestOK, SwitchNetwork
      <4> QED BY <1>1, <3>4, <4>1 DEF Parts, RestOK, SwitchNetwork
    <3> QED BY <1>15, <3>2, <3>3, <3>4
  <2>2. RestOK' BY <1>1, <2>1 DEF Parts, RestOK
  <2>3. EpochOK' BY <1>1, <2>1 DEF Parts, EpochOK
  <2>4. LaneOK(entry', job'.kind) BY <1>1, <2>1 DEF Parts, LaneOK, LaneBase, Queued
  <2> QED BY <1>1, <1>2, <2>1, <2>2, <2>3, <2>4 DEF Parts, Quiet
<1>16. CASE Lost
  <2>1. RestOK' BY <1>1, <1>16 DEF Parts, Lost, Calls, RestOK
  <2>2. EpochOK' BY <1>1, <1>16 DEF Parts, Lost, Calls, EpochOK
  <2>3. LaneOK(entry', job'.kind) BY <1>1, <1>16 DEF Parts, Lost, LaneOK, LaneBase, Queued
  <2> QED BY <1>1, <1>2, <1>16, <2>1, <2>2, <2>3 DEF Parts, Lost, Quiet
<1>17. CASE Focused
  <2>1. RestOK' BY <1>1, <1>17 DEF Parts, Focused, Beside, Calls, RestOK
  <2>2. EpochOK' BY <1>1, <1>17 DEF Parts, Focused, Beside, Calls, EpochOK
  <2>3. (entry \in Entry)' /\ LaneOK(entry', job'.kind) /\ Quiet(entry')
    BY <1>1, <1>17 DEF Parts, Focused, Beside
  <2> QED BY <1>2, <2>1, <2>2, <2>3 DEF Parts
<1>18. Next => Steps BY NextIsSteps
<1> QED
  BY <1>4, <1>5, <1>6, <1>7, <1>8, <1>9, <1>10, <1>11, <1>12, <1>13, <1>14, <1>15, <1>16,
     <1>17, <1>18
     DEF Steps

(* The lane is an invariant of the engine; with it go the types.             *)
LEMMA LaneHolds == Spec => []LaneInv
<1>1. Init => LaneInv BY LaneInvInit
<1>2. LaneInv /\ [Next]_vars => LaneInv' BY LaneInvKept
<1> QED BY <1>1, <1>2, PTL DEF Spec

(* Every variable keeps its type, no kind of work waits on the lane twice,   *)
(* and the epoch counts what the watchdog gave up and the disposal           *)
(* (MetadataService's EntryState and runExclusive).                          *)
THEOREM EngineTypes == Spec => []TypeOK
<1>1. LaneInv => TypeOK BY DEF LaneInv
<1> QED BY <1>1, LaneHolds, PTL

(* Once the lease is given back no timer is armed, and none is armed again   *)
(* by the work that still ends (MetadataService.dispose, and the guards of   *)
(* schedulePoll and scheduleFailedRetry).                                    *)
THEOREM DisposedIsQuiet == Spec => []GoneIsQuiet
<1>1. LaneInv => GoneIsQuiet BY DEF LaneInv, Quiet, GoneIsQuiet
<1> QED BY <1>1, LaneHolds, PTL

(* While the window is out of focus for longer than the grace no poll is     *)
(* armed, by whatever ends meanwhile (focusTick, and the guard of            *)
(* schedulePoll).                                                            *)
THEOREM UnfocusedIsQuiet == Spec => []SuspendedIsQuiet
<1>1. LaneInv => SuspendedIsQuiet BY DEF LaneInv, Quiet, SuspendedIsQuiet
<1> QED BY <1>1, LaneHolds, PTL

-----------------------------------------------------------------------------
(* Sessions: abandoned work is on an earlier session than the source, or on  *)
(* the one that is marked wedged and that nobody works on.                   *)
SessionInv ==
    /\ job # Idle => job.session = source.session
    /\ \A j \in orphans :
          /\ j.session <= source.session
          /\ j.session = source.session => entry.wedged /\ job = Idle

LEMMA SessionsKept == ASSUME LaneInv, SessionInv, [Next]_vars PROVE SessionInv'
<1>1. /\ RestOK /\ source.session \in Nat
      /\ \A j \in Job : j # Idle /\ j.session \in Nat
  BY NoneIsNothing DEF LaneInv, TypeOK, RestOK, Job, Idle, Kinds
<1>2. CASE UNCHANGED vars BY <1>2 DEF vars, SessionInv
<1>3. CASE Request \/ Acquired \/ Waited \/ Disposed \/ Focused \/ Lost
  <2>1. /\ UNCHANGED <<job, orphans>> /\ source'.session = source.session
        /\ entry'.wedged = entry.wedged
    BY <1>1, <1>3
       DEF Request, Kept, SameCore, Acquired, Waited, Disposed, Focused, Lost, Beside, RestOK
  <2> QED BY <2>1 DEF SessionInv
<1>4. CASE Turned
  <2>1. /\ job = Idle /\ orphans' = orphans
        /\ source' = (IF entry.wedged THEN Recycled(source) ELSE source)
        /\ job' # Idle => job'.session = source'.session
    BY <1>4 DEF Turned
  <2>2. \A j \in orphans : j.session < source'.session
    <3>1. CASE entry.wedged
      <4>1. source'.session = source.session + 1 BY <2>1, <3>1 DEF Recycled
      <4> QED BY <1>1, <4>1 DEF SessionInv, RestOK
    <3>2. CASE ~entry.wedged BY <1>1, <2>1, <3>2 DEF SessionInv, RestOK
    <3> QED BY <3>1, <3>2
  <2>3. source'.session \in Nat BY <1>1, <2>1 DEF Recycled
  <2> QED BY <1>1, <2>1, <2>2, <2>3 DEF SessionInv, RestOK
<1>5. CASE JobRead
  <2>1. /\ job # Idle /\ UNCHANGED <<entry, orphans>> /\ job'.session = job.session
        /\ job' # Idle /\ source'.session = source.session
    BY <1>1, <1>5 DEF JobRead, ReadBy, RestOK
  <2> QED BY <2>1 DEF SessionInv
<1>6. CASE WorkOver
  <2>1. /\ job' = Idle /\ UNCHANGED <<orphans, source>> /\ (entry.wedged => entry'.wedged)
    BY <1>6 DEF WorkOver, WorkEnded
  <2> QED BY <2>1 DEF SessionInv
<1>7. CASE WorkAbandoned
  <2>1. /\ job \in Job /\ job' = Idle /\ orphans' = orphans \cup {job} /\ entry'.wedged
        /\ source' = source
    BY <1>7 DEF WorkAbandoned, WorkEnded
  <2> QED BY <1>1, <2>1 DEF SessionInv
<1>8. CASE OrphanRead
  <2>1. PICK j \in orphans, r \in Job :
          ReadBy(j, r) /\ orphans' = (orphans \ {j}) \cup {r}
    BY <1>8 DEF OrphanRead
  <2>2. source'.session = source.session /\ UNCHANGED <<entry, job>>
    BY <1>1, <1>8 DEF OrphanRead, RestOK
  <2> QED BY <2>1, <2>2 DEF SessionInv, ReadBy
<1>9. CASE OrphanOver
  <2>1. orphans' \subseteq orphans /\ UNCHANGED <<source, job>> /\ (entry.wedged => entry'.wedged)
    BY <1>9 DEF OrphanOver
  <2> QED BY <2>1 DEF SessionInv
<1>10. CASE Ddl \/ Rename \/ SwitchNetwork
  BY <1>10 DEF Ddl, Rename, SwitchNetwork, SessionInv
<1>11. Next => Steps BY NextIsSteps
<1> QED BY <1>2, <1>3, <1>4, <1>5, <1>6, <1>7, <1>8, <1>9, <1>10, <1>11 DEF Steps

(* Two pieces of work never query one session at a time (runExclusive, and   *)
(* the session it recycles after a timeout).                                 *)
THEOREM OneQuery == Spec => []OneQueryPerSession
<1>1. Init => SessionInv BY DEF Init, SessionInv
<1>2. LaneInv /\ SessionInv /\ [Next]_vars => SessionInv' BY SessionsKept
<1>3. LaneInv /\ SessionInv => OneQueryPerSession
  BY DEF SessionInv, OneQueryPerSession
<1> QED BY <1>1, <1>2, <1>3, LaneHolds, PTL DEF Spec

-----------------------------------------------------------------------------
(* Versions: nothing is newer than the server, and what was begun under the  *)
(* generation that is shown has read no earlier than its snapshot was.       *)
ReadOK(j, e, version) ==
    /\ j.gen <= e.gen
    /\ j.seen # None => j.seen <= version
    /\ j.gen = e.gen /\ j.seen # None /\ e.snapshot # None => j.seen >= e.snapshot.read

SnapshotOK(e, version) ==
    e.snapshot # None => e.snapshot.gen <= e.gen /\ e.snapshot.read <= version

VersionInv ==
    /\ SnapshotOK(entry, server)
    /\ \A j \in orphans : ReadOK(j, entry, server)
    /\ job # Idle => ReadOK(job, entry, server) /\ job.gen = entry.gen
    /\ DefinitionsFitTheSnapshot

(* The snapshot and its generation are the same, and so is what the          *)
(* definition can be compared to.                                            *)
LEMMA VersionsStay ==
    ASSUME LaneInv, VersionInv, LeftAlone, entry'.definition = entry.definition,
           UNCHANGED <<server, job>>, orphans' \subseteq orphans
    PROVE  VersionInv'
BY DEF VersionInv, LeftAlone, SnapshotOK, ReadOK, DefinitionsFitTheSnapshot

(* A definition that is kept was read under the generation that is shown.    *)
LEMMA ReadDefinitionFits ==
    ASSUME LaneInv, DefinitionsFitTheSnapshot, NEW j \in Job, ReadOK(j, entry, server),
           DefinitionLeft(j), entry'.definition # entry.definition
    PROVE  DefinitionsFitTheSnapshot'
<1>1. /\ LeftAlone /\ j.gen = entry.gen /\ j.seen \in Version /\ j.kind \in Objects
      /\ entry'.definition = [entry.definition EXCEPT ![j.kind] = j.seen]
  BY DEF DefinitionLeft
<1>2. j.seen # None
  <2>1. None \notin Version BY NoneIsNothing, BoundsAreNumbers DEF Version
  <2> QED BY <1>1, <2>1
<1>3. entry.snapshot # None => j.seen >= entry.snapshot.read BY <1>1, <1>2 DEF ReadOK
<1>4. entry.definition \in [Objects -> Version \cup {None}] BY DEF LaneInv, TypeOK, Entry
<1>5. SUFFICES ASSUME NEW o \in Objects, entry'.definition[o] # None, entry'.snapshot # None
               PROVE  entry'.definition[o] >= entry'.snapshot.read
  BY DEF DefinitionsFitTheSnapshot
<1>6. entry'.snapshot = entry.snapshot BY <1>1 DEF LeftAlone
<1>7. CASE o = j.kind
  <2>1. entry'.definition[o] = j.seen BY <1>1, <1>4, <1>7
  <2> QED BY <1>3, <1>5, <1>6, <2>1
<1>8. CASE o # j.kind
  <2>1. entry'.definition[o] = entry.definition[o] BY <1>1, <1>4, <1>8
  <2> QED BY <1>5, <1>6, <2>1 DEF DefinitionsFitTheSnapshot
<1> QED BY <1>7, <1>8

LEMMA VersionsKept == ASSUME LaneInv, VersionInv, [Next]_vars PROVE VersionInv'
<1>1. /\ RestOK /\ entry \in Entry /\ server \in Nat /\ entry.gen \in Nat
      /\ entry.snapshot # None => entry.snapshot.gen \in Nat /\ entry.snapshot.read \in Nat
      /\ \A j \in Job : /\ j # Idle /\ j.gen \in Nat
                        /\ j.seen # None => j.seen \in Version /\ j.seen \in Nat
  <2>1. RestOK /\ entry \in Entry BY DEF LaneInv, TypeOK, RestOK
  <2>2. Version \subseteq Nat BY BoundsAreNumbers DEF Version
  <2>3. \A j \in Job : j # Idle BY NoneIsNothing DEF Job, Idle, Kinds
  <2>4. entry.snapshot # None => entry.snapshot.gen \in Nat /\ entry.snapshot.read \in Nat
    BY <2>1, <2>2 DEF Entry, Snapshots
  <2> QED BY <2>1, <2>2, <2>3, <2>4 DEF RestOK, Entry, Job
<1>2. CASE UNCHANGED vars
  BY <1>2, VersionsStay DEF vars, LeftAlone
<1>3. CASE Request \/ Acquired \/ Waited \/ Disposed \/ Focused \/ Lost
  <2>1. /\ LeftAlone /\ entry'.definition = entry.definition
        /\ UNCHANGED <<server, job, orphans>>
    BY <1>3
       DEF Request, Kept, SameCore, Acquired, Waited, Disposed, Focused, Lost, Beside, LeftAlone
  <2> QED BY <2>1, VersionsStay
<1>4. CASE Turned
  <2>1. /\ LeftAlone /\ entry'.definition = entry.definition /\ UNCHANGED <<server, orphans>>
        /\ job' # Idle => job'.seen = None /\ job'.gen = entry.gen
    BY <1>4 DEF Turned, LeftAlone
  <2> QED BY <1>1, <2>1
          DEF VersionInv, LeftAlone, SnapshotOK, ReadOK, DefinitionsFitTheSnapshot
<1>5. CASE JobRead
  <2>1. /\ job # Idle /\ job' # Idle /\ job'.seen = server /\ job'.gen = job.gen
        /\ UNCHANGED <<server, entry, orphans>>
    BY <1>1, <1>5 DEF JobRead, ReadBy
  <2>2. ReadOK(job', entry, server) BY <1>1, <2>1 DEF VersionInv, ReadOK, SnapshotOK
  <2> QED BY <2>1, <2>2 DEF VersionInv, DefinitionsFitTheSnapshot
<1>6. CASE WorkOver
  <2>1. job' = Idle /\ UNCHANGED <<server, orphans>> BY <1>6 DEF WorkOver, WorkEnded
  <2>2. CASE PassPublished
    <3>1. /\ entry'.gen = entry.gen + 1 /\ job.seen <= server
          /\ entry'.snapshot = [gen |-> entry.gen + 1, read |-> job.seen]
          /\ entry'.definition = NoDefinitions
      <4>1. job # Idle BY <1>1, <1>6 DEF WorkOver, WorkEnded
      <4>2. job.seen # None
        <5>1. None \notin Nat BY NoneIsNothing
        <5> QED BY <2>2, <5>1, BoundsAreNumbers DEF PassPublished, Version
      <4> QED BY <2>2, <4>1, <4>2 DEF PassPublished, Published, VersionInv, ReadOK
    <3>2. SnapshotOK(entry', server') BY <1>1, <2>1, <3>1 DEF SnapshotOK
    <3>3. \A j \in orphans : ReadOK(j, entry', server')
      <4>1. \A j \in orphans : j.gen <= entry.gen /\ j.gen \in Nat
        BY <1>1 DEF VersionInv, ReadOK, RestOK
      <4>2. \A j \in orphans : j.gen # entry'.gen /\ j.gen <= entry'.gen BY <1>1, <3>1, <4>1
      <4> QED BY <1>1, <2>1, <4>2 DEF VersionInv, ReadOK
    <3> QED BY <2>1, <3>1, <3>2, <3>3 DEF VersionInv, DefinitionsFitTheSnapshot, NoDefinitions
  <2>3. CASE PassFailed
    BY <2>1, <2>3
       DEF PassFailed, VersionInv, LeftAlone, SnapshotOK, ReadOK, DefinitionsFitTheSnapshot
  <2>4. CASE job.kind # "hydrate" /\ DefinitionLeft(job)
    <3>1. LeftAlone BY <2>4 DEF DefinitionLeft
    <3>2. DefinitionsFitTheSnapshot'
      <4>1. CASE entry'.definition = entry.definition
        BY <3>1, <4>1 DEF LeftAlone, VersionInv, DefinitionsFitTheSnapshot
      <4>2. CASE entry'.definition # entry.definition
        <5>1. job \in Job /\ job # Idle BY <1>1, <1>6 DEF WorkOver, WorkEnded
        <5> QED BY <2>4, <4>2, <5>1, ReadDefinitionFits DEF VersionInv
      <4> QED BY <4>1, <4>2
    <3> QED BY <2>1, <3>1, <3>2 DEF LeftAlone, VersionInv, SnapshotOK, ReadOK
  <2> QED BY <1>6, <2>2, <2>3, <2>4 DEF WorkOver
<1>7. CASE WorkAbandoned
  <2>1. /\ job \in Job /\ job' = Idle /\ orphans' = orphans \cup {job} /\ LeftAlone
        /\ entry'.definition = entry.definition /\ server' = server
    BY <1>7 DEF WorkAbandoned, WorkEnded
  <2> QED BY <1>1, <2>1
          DEF VersionInv, LeftAlone, SnapshotOK, ReadOK, DefinitionsFitTheSnapshot
<1>8. CASE OrphanRead
  <2>1. PICK j \in orphans, r \in Job :
          ReadBy(j, r) /\ orphans' = (orphans \ {j}) \cup {r}
    BY <1>8 DEF OrphanRead
  <2>2. UNCHANGED <<server, entry, job>> BY <1>8 DEF OrphanRead
  <2>3. ReadOK(r, entry, server)
    BY <1>1, <2>1 DEF VersionInv, ReadBy, ReadOK, SnapshotOK, RestOK
  <2> QED BY <2>1, <2>2, <2>3 DEF VersionInv, DefinitionsFitTheSnapshot
<1>9. CASE OrphanOver
  <2>1. PICK j \in orphans : orphans' = orphans \ {j} /\ DefinitionLeft(j)
    BY <1>9 DEF OrphanOver
  <2>2. UNCHANGED <<server, job>> BY <1>9 DEF OrphanOver
  <2>3. CASE entry'.definition = entry.definition
    BY <2>1, <2>2, <2>3, VersionsStay DEF DefinitionLeft
  <2>4. CASE entry'.definition # entry.definition
    <3>1. LeftAlone BY <2>1 DEF DefinitionLeft
    <3>2. DefinitionsFitTheSnapshot'
      BY <1>1, <2>1, <2>4, ReadDefinitionFits DEF VersionInv, RestOK
    <3> QED BY <2>1, <2>2, <3>1, <3>2 DEF LeftAlone, VersionInv, SnapshotOK, ReadOK
  <2> QED BY <2>3, <2>4
<1>10. CASE Ddl
  <2>1. server' = server + 1 /\ UNCHANGED <<entry, job, orphans>> BY <1>10 DEF Ddl
  <2>2. SnapshotOK(entry, server') BY <1>1, <2>1 DEF VersionInv, SnapshotOK
  <2>3. \A j \in Job : ReadOK(j, entry, server) => ReadOK(j, entry, server')
    BY <1>1, <2>1 DEF ReadOK
  <2> QED BY <1>1, <2>1, <2>2, <2>3 DEF VersionInv, DefinitionsFitTheSnapshot, RestOK
<1>11. CASE Rename \/ SwitchNetwork
  BY <1>11, VersionsStay DEF Rename, SwitchNetwork, LeftAlone
<1>12. Next => Steps BY NextIsSteps
<1> QED
  BY <1>2, <1>3, <1>4, <1>5, <1>6, <1>7, <1>8, <1>9, <1>10, <1>11, <1>12 DEF Steps

LEMMA VersionsHold == Spec => [](LaneInv /\ VersionInv)
<1>1. Init => VersionInv
  <2>1. SUFFICES ASSUME Init PROVE VersionInv OBVIOUS
  <2>2. server = 0 /\ job = Idle /\ orphans = {} BY <2>1 DEF Init
  <2>3. /\ entry.definition = NoDefinitions
        /\ entry.snapshot # None => entry.snapshot.gen <= entry.gen /\ entry.snapshot.read <= 0
    BY <2>1, InitialEntry
  <2> QED BY <2>2, <2>3 DEF VersionInv, SnapshotOK, DefinitionsFitTheSnapshot, NoDefinitions
<1>2. LaneInv /\ VersionInv /\ [Next]_vars => VersionInv' BY VersionsKept
<1> QED BY <1>1, <1>2, LaneHolds, PTL DEF Spec

(* A cached definition is never older than the snapshot it is shown with     *)
(* (the generation getModuleDefinition compares, and the cache that a        *)
(* hydration clears).                                                        *)
THEOREM DefinitionsFit == Spec => []DefinitionsFitTheSnapshot
<1>1. VersionInv => DefinitionsFitTheSnapshot BY DEF VersionInv
<1> QED BY <1>1, VersionsHold, PTL

LEMMA StepsMoveForward ==
    ASSUME LaneInv, VersionInv, [Next]_vars
    PROVE  MovesForward
<1>1. CASE entry'.snapshot = entry.snapshot BY <1>1 DEF MovesForward
<1>2. CASE WorkOver /\ PassPublished
  <2>1. job \in Job /\ job # Idle /\ job.seen # None /\ entry.gen \in Nat
    <3>1. None \notin Nat BY NoneIsNothing
    <3>2. job \in Job BY <1>2 DEF WorkOver, WorkEnded
    <3>3. job # Idle BY <3>2, NoneIsNothing DEF Job, Idle, Kinds
    <3> QED BY <1>2, <3>1, <3>2, <3>3, BoundsAreNumbers, SMTT(60)
            DEF PassPublished, Version, LaneInv, TypeOK, Entry
  <2>2. /\ entry'.snapshot = [gen |-> entry.gen + 1, read |-> job.seen]
        /\ job.gen = entry.gen /\ ReadOK(job, entry, server) /\ SnapshotOK(entry, server)
    BY <1>2, <2>1 DEF PassPublished, Published, VersionInv
  <2>3. entry'.snapshot # None
    <3>1. entry'.snapshot \in [gen : Nat, read : Nat]
      BY <1>2, <2>1, <2>2, BoundsAreNumbers DEF PassPublished, Version
    <3> QED BY <3>1, NoneIsNothing
  <2>4. SUFFICES ASSUME entry.snapshot # None
                 PROVE  /\ entry'.snapshot.gen > entry.snapshot.gen
                        /\ entry'.snapshot.read >= entry.snapshot.read
    BY <2>3 DEF MovesForward
  <2>5. entry.snapshot.gen \in Nat BY <2>4 DEF LaneInv, TypeOK, Entry, Snapshots
  <2>6. entry'.snapshot.gen = entry.gen + 1 /\ entry'.snapshot.read = job.seen BY <2>2
  <2> QED BY <2>1, <2>2, <2>4, <2>5, <2>6 DEF ReadOK, SnapshotOK
<1>3. CASE UNCHANGED vars BY <1>1, <1>3 DEF vars
<1>4. CASE Request \/ Acquired \/ Waited \/ Disposed \/ Focused \/ Turned
  BY <1>1, <1>4 DEF Request, Kept, SameCore, Acquired, Waited, Disposed, Focused, Turned
<1>5. CASE JobRead \/ OrphanRead \/ Ddl \/ Rename \/ Lost \/ SwitchNetwork
  BY <1>1, <1>5 DEF JobRead, OrphanRead, Ddl, Rename, Lost, SwitchNetwork
<1>6. CASE WorkOver /\ ~PassPublished
  BY <1>1, <1>6 DEF WorkOver, PassFailed, DefinitionLeft, LeftAlone
<1>7. CASE WorkAbandoned \/ OrphanOver
  BY <1>1, <1>7 DEF WorkAbandoned, OrphanOver, DefinitionLeft, LeftAlone
<1>8. Next => Steps BY NextIsSteps
<1> QED BY <1>2, <1>3, <1>4, <1>5, <1>6, <1>7, <1>8 DEF Steps

(* The snapshot never goes back to an earlier generation or an older read,   *)
(* whatever abandoned hydrations still finish (the epoch hydrate checks      *)
(* before it publishes).                                                     *)
THEOREM SnapshotsForward == Spec => SnapshotsMoveForward
<1>1. LaneInv /\ VersionInv /\ [Next]_vars => MovesForward BY StepsMoveForward
<1> QED BY <1>1, VersionsHold, PTL DEF Spec, SnapshotsMoveForward

-----------------------------------------------------------------------------
(* Status: "loading" and "stale" are the statuses of a running hydration.    *)
StatusInv ==
    entry.status \in {"loading", "stale"} /\ entry.life # "gone" => job.kind = "hydrate"

LEMMA StatusKept == ASSUME LaneInv, StatusInv, [Next]_vars PROVE StatusInv'
<1>0. Idle.kind = None /\ None # "hydrate" BY NoneIsNothing DEF Idle
<1>1. CASE UNCHANGED vars BY <1>1 DEF vars, StatusInv
<1>2. CASE Request \/ Acquired \/ Waited \/ Disposed \/ Focused
  BY <1>2 DEF Request, Kept, SameCore, Acquired, Waited, Disposed, Focused, Beside, StatusInv
<1>3. CASE Turned BY <1>0, <1>3 DEF Turned, StatusInv
<1>4. CASE JobRead BY <1>4 DEF JobRead, ReadBy, StatusInv
<1>5. CASE WorkOver
  BY <1>5 DEF WorkOver, WorkEnded, PassPublished, Published, PassFailed, StatusInv
<1>6. CASE WorkAbandoned
  BY <1>6 DEF WorkAbandoned, WorkEnded, StatusInv
<1>7. CASE OrphanRead \/ OrphanOver \/ Ddl \/ Rename \/ Lost \/ SwitchNetwork
  BY <1>7 DEF OrphanRead, OrphanOver, Ddl, Rename, Lost, SwitchNetwork, StatusInv
<1>8. Next => Steps BY NextIsSteps
<1> QED BY <1>1, <1>2, <1>3, <1>4, <1>5, <1>6, <1>7, <1>8 DEF Steps

(* An entry that shows "loading" or "stale" is being refreshed: no pass that *)
(* fails, hangs or is skipped leaves it so (hydrate's finally and catch).    *)
THEOREM StaleIsRefreshing == Spec => []StaleMeansRefreshing
<1>1. Init => StatusInv BY InitialEntry DEF StatusInv
<1>2. LaneInv /\ StatusInv /\ [Next]_vars => StatusInv' BY StatusKept
<1>3. LaneInv /\ StatusInv => StaleMeansRefreshing
  BY DEF LaneInv, LaneOK, LaneBase, StatusInv, StaleMeansRefreshing
<1> QED BY <1>1, <1>2, <1>3, LaneHolds, PTL DEF Spec

-----------------------------------------------------------------------------
(* Polls: while the network has not been switched the timer is armed or a    *)
(* tick is under way.                                                        *)
PollInv == spent.flips = 0 => online /\ PollOK(entry)

LEMMA PollsKept == ASSUME LaneInv, PollInv, [Next]_vars PROVE PollInv'
<1>1. CASE UNCHANGED vars BY <1>1 DEF vars, PollInv, PollOK
<1>2. CASE Request \/ Waited
  BY <1>2 DEF Request, Kept, Waited, Beside, Calls, PollInv
<1>3. CASE Acquired \/ Focused BY <1>3 DEF Acquired, Focused, Beside, Calls, PollInv
<1>4. CASE Disposed BY <1>4 DEF Disposed, PollInv, PollOK
<1>5. CASE Turned BY <1>5 DEF Turned, PollInv
<1>6. CASE JobRead \/ OrphanRead \/ Lost \/ Ddl
  BY <1>6 DEF JobRead, OrphanRead, Lost, Ddl, Calls, PollInv, PollOK
<1>7. CASE WorkOver BY <1>7 DEF WorkOver, WorkEnded, Calls, PollInv
<1>8. CASE WorkAbandoned
  <2>1. spent'.flips = spent.flips BY <1>8 DEF WorkAbandoned, LaneInv, TypeOK
  <2> QED BY <1>8, <2>1 DEF WorkAbandoned, WorkEnded, PollInv
<1>9. CASE OrphanOver BY <1>9 DEF OrphanOver, PollInv
<1>10. CASE Rename
  <2>1. spent'.flips = spent.flips /\ UNCHANGED <<online, entry>>
    BY <1>10 DEF Rename, LaneInv, TypeOK
  <2> QED BY <2>1 DEF PollInv, PollOK
<1>11. CASE SwitchNetwork
  <2>1. spent'.flips = spent.flips + 1 /\ spent.flips \in 0..MaxFlips /\ MaxFlips \in Nat
    BY <1>11, BoundsAreNumbers DEF SwitchNetwork, LaneInv, TypeOK
  <2> QED BY <2>1 DEF PollInv
<1>12. Next => Steps BY NextIsSteps
<1> QED
  BY <1>1, <1>2, <1>3, <1>4, <1>5, <1>6, <1>7, <1>8, <1>9, <1>10, <1>11, <1>12 DEF Steps

LEMMA InitialPoll == Init => PollInv
<1>1. SUFFICES ASSUME Init PROVE PollInv OBVIOUS
<1>2. online /\ entry.life = "new" BY <1>1, InitialEntry DEF Init
<1> QED BY <1>2 DEF PollInv, PollOK

(* Polling goes on for as long as the lease is held: every tick, however it  *)
(* ends, schedules the next (schedulePoll, the ends of the passes and        *)
(* validations a tick waits for, and focusTick).  The exceptions are those   *)
(* of the code: settings without a poll, a drifted entry, a network that was *)
(* switched off, and a window out of focus for longer than the grace.        *)
THEOREM PollingGoesOn == Spec => []PollKeepsGoing
<1>1. Init => PollInv BY InitialPoll
<1>2. LaneInv /\ PollInv /\ [Next]_vars => PollInv' BY PollsKept
<1>3. PollInv => PollKeepsGoing BY DEF PollInv, PollOK, PollKeepsGoing
<1> QED BY <1>1, <1>2, <1>3, LaneHolds, PTL DEF Spec

(* The three together: but for those exceptions the chain of polls does not  *)
(* break off under a lease; it does not outlive the lease, and it rests      *)
(* while the window is out of focus (schedulePoll, focusTick,                *)
(* MetadataService.dispose).                                                 *)
THEOREM PollIsTheLease == Spec => []PollFollowsTheLease
<1>1. PollKeepsGoing /\ GoneIsQuiet /\ SuspendedIsQuiet => PollFollowsTheLease
  BY DEF PollFollowsTheLease
<1> QED BY <1>1, PollingGoesOn, DisposedIsQuiet, UnfocusedIsQuiet, PTL

-----------------------------------------------------------------------------
(* Callers: a strict caller waits for a pass in flight that has read nothing *)
(* from before it asked, or for the forced follow-up of one that has.        *)
CallerInv ==
    /\ entry.caller.wait \in Waits => entry.caller.since <= server
    /\ entry.caller.wait = "pass" =>
          /\ entry.hydrating
          /\ job.kind = "hydrate" /\ job.seen # None => job.seen >= entry.caller.since
    /\ entry.caller.wait = "followUp" => entry.hydrating /\ entry.forced

(* Work was asked for, and the caller waits as before.                       *)
LEMMA CallersStay ==
    ASSUME CallerInv, SameCaller(entry, entry'), UNCHANGED <<server, job>>,
           entry.hydrating => entry'.hydrating /\ (entry.forced => entry'.forced)
    PROVE  CallerInv'
BY DEF CallerInv, SameCaller

(* The pass is over, and nothing is on the lane.                             *)
LEMMA CallersTold ==
    ASSUME CallerInv, UNCHANGED server, job' = Idle,
           \/ CallersGoOn(entry, entry')
           \/ /\ SameCaller(entry, entry')
              /\ entry.hydrating => entry'.hydrating /\ (entry.forced => entry'.forced)
    PROVE  CallerInv'
<1>1. job'.kind # "hydrate" BY NoneIsNothing DEF Idle
<1>2. CASE CallersGoOn(entry, entry')
  BY <1>1, <1>2 DEF CallersGoOn, CallerInv, Waits
<1>3. CASE /\ SameCaller(entry, entry')
           /\ entry.hydrating => entry'.hydrating /\ (entry.forced => entry'.forced)
  BY <1>1, <1>3 DEF CallerInv, SameCaller
<1> QED BY <1>2, <1>3

LEMMA CallersKept == ASSUME LaneInv, CallerInv, [Next]_vars PROVE CallerInv'
<1>1. RestOK /\ server \in Nat /\ entry.caller.since \in Nat
  BY BoundsAreNumbers, SMTT(60) DEF LaneInv, TypeOK, RestOK, Version, Entry
<1>2. CASE UNCHANGED vars BY <1>2 DEF vars, CallerInv
<1>3. CASE Request \/ Acquired \/ Focused
  BY <1>3, CallersStay DEF Request, Kept, Acquired, Focused, Beside
<1>4. CASE Waited
  <2>1. entry'.hydrating /\ UNCHANGED <<server, job>> BY <1>4 DEF Waited, Beside
  <2>2. CASE entry'.caller = [wait |-> "pass", since |-> server] /\ ~entry.hydrating
    <3>1. job.kind # "hydrate" BY <2>2 DEF LaneInv, LaneOK, LaneBase
    <3> QED BY <1>1, <2>1, <2>2, <3>1 DEF CallerInv
  <2>3. CASE entry'.caller = [wait |-> "followUp", since |-> server] /\ entry'.forced
    BY <1>1, <2>1, <2>3 DEF CallerInv
  <2> QED BY <1>4, <2>2, <2>3 DEF Waited
<1>5. CASE Disposed BY <1>5, CallersStay DEF Disposed, SameWork
<1>6. CASE Turned
  <2>1. CASE job' = Idle
    <3>1. job' \notin Job BY <2>1, NoneIsNothing DEF Job, Idle, Kinds
    <3> QED BY <1>6, <2>1, <3>1, CallersTold DEF Turned
  <2>2. CASE job' # Idle BY <1>6, <2>2 DEF Turned, CallerInv, SameCaller
  <2> QED BY <2>1, <2>2
<1>7. CASE JobRead BY <1>1, <1>7 DEF JobRead, ReadBy, CallerInv, Waits
<1>8. CASE WorkOver \/ WorkAbandoned
  BY <1>8, CallersTold DEF WorkOver, WorkAbandoned, WorkEnded
<1>9. CASE OrphanRead \/ OrphanOver \/ Rename \/ Lost \/ SwitchNetwork
  BY <1>9, CallersStay
     DEF OrphanRead, OrphanOver, Rename, Lost, SwitchNetwork, SameWork, SameCaller
<1>10. CASE Ddl
  <2>1. server' = server + 1 /\ UNCHANGED <<entry, job>> BY <1>10 DEF Ddl
  <2> QED BY <1>1, <2>1 DEF CallerInv
<1>11. Next => Steps BY NextIsSteps
<1> QED BY <1>2, <1>3, <1>4, <1>5, <1>6, <1>7, <1>8, <1>9, <1>10, <1>11 DEF Steps

LEMMA AnswersAreFresh ==
    ASSUME LaneInv, PollInv, CallerInv, [Next]_vars
    PROVE  AnswersLive
<1>1. SUFFICES ASSUME entry.caller.wait \in Waits, entry'.caller.wait = "live",
                      spent.flips = 0, entry.life = "held"
               PROVE  entry'.snapshot.read >= entry.caller.since
  BY DEF AnswersLive
<1>2. ~SameCaller(entry, entry') BY <1>1 DEF SameCaller, Waits
<1>3. online /\ CanHydrate(entry) BY <1>1 DEF PollInv, CanHydrate
<1>4. ASSUME CallersGoOn(entry, entry')
      PROVE  entry.caller.wait = "pass" /\ entry'.status = "ready"
  BY <1>1, <1>3, <1>4 DEF CallersGoOn, CallerInv, Waits
<1>5. CASE WorkOver
  <2>1. job.kind = "hydrate" /\ CallersGoOn(entry, entry')
    BY <1>2, <1>5 DEF WorkOver, WorkEnded
  <2>2. PassPublished
    BY <1>1, <1>4, <1>5, <2>1 DEF WorkOver, PassFailed
  <2>3. entry'.snapshot.read = job.seen /\ job.seen # None
    <3>1. None \notin Version BY NoneIsNothing, BoundsAreNumbers DEF Version
    <3> QED BY <2>2, <3>1 DEF PassPublished, Published
  <2> QED BY <1>4, <2>1, <2>3 DEF CallerInv
<1>6. CASE WorkAbandoned
  BY <1>1, <1>2, <1>4, <1>6 DEF WorkAbandoned, WorkEnded
<1>7. CASE UNCHANGED vars BY <1>2, <1>7 DEF vars, SameCaller
<1>8. CASE Request \/ Acquired \/ Disposed \/ Focused \/ OrphanOver
  BY <1>2, <1>8 DEF Request, Kept, Acquired, Disposed, Focused, OrphanOver
<1>9. CASE Waited BY <1>1, <1>9 DEF Waited
<1>10. CASE Turned BY <1>1, <1>2, <1>3, <1>10 DEF Turned
<1>11. CASE JobRead \/ OrphanRead \/ Ddl \/ Rename \/ Lost \/ SwitchNetwork
  BY <1>2, <1>11 DEF JobRead, OrphanRead, Ddl, Rename, Lost, SwitchNetwork, SameCaller
<1>12. Next => Steps BY NextIsSteps
<1> QED BY <1>5, <1>6, <1>7, <1>8, <1>9, <1>10, <1>11, <1>12 DEF Steps

LEMMA CallersHold == Spec => [](LaneInv /\ PollInv /\ CallerInv)
<1>1. Init => CallerInv
  <2>1. SUFFICES ASSUME Init PROVE CallerInv OBVIOUS
  <2>2. entry.caller.wait = None BY <2>1, InitialEntry
  <2> QED BY <2>2, NoneIsNothing DEF CallerInv, Waits
<1>2. LaneInv /\ CallerInv /\ [Next]_vars => CallerInv' BY CallersKept
<1>3. LaneInv /\ PollInv /\ [Next]_vars => PollInv' BY PollsKept
<1> QED BY <1>1, <1>2, <1>3, InitialPoll, LaneHolds, PTL DEF Spec

(* A strict caller that is told "live" holds a snapshot that was read after  *)
(* it asked, whichever pass it joined, as long as neither the network nor    *)
(* the lease was taken away (requireLive, the joined pass of hydrate and its *)
(* forced follow-up).                                                        *)
THEOREM LiveIsFresh == Spec => LiveAnswersAreFresh
<1>1. LaneInv /\ PollInv /\ CallerInv /\ [Next]_vars => AnswersLive
  BY AnswersAreFresh
<1> QED BY <1>1, CallersHold, PTL DEF Spec, LiveAnswersAreFresh

(* Whoever waits has something to wait for: callers and validations wait for *)
(* a hydration or a digest that is queued or has its turn (hydrate's         *)
(* promises and the lane of runExclusive).                                   *)
THEOREM NobodyWaitsInVain == Spec => []NobodyWaitsForNothing
<1>1. LaneInv /\ CallerInv => NobodyWaitsForNothing
  BY DEF LaneInv, LaneOK, LaneBase, Queued, CallerInv, Waits, NobodyWaitsForNothing
<1> QED BY <1>1, CallersHold, PTL
=============================================================================
