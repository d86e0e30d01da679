------------------------- MODULE SessionOpen_proofs -------------------------
(***************************************************************************)
(* Proofs about SessionOpen: an open and the memory of routes go from one  *)
(* legal record to the next, whatever settings, users, status checks and   *)
(* providers do.                                                           *)
(***************************************************************************)
EXTENDS SessionOpen, TLAPS

(* The kinds a route may lead to.                                          *)
Routes == Capable \ TestKinds

(* What a record says at each point of an open.  Attempts are counted when *)
(* they begin, retries when they are decided, and so are status checks.    *)
Before(r)  == r.pc \in {"new", "prompting", "starting", "checked"}
Running(r) == r.pc \in {"trying", "erred", "pausing", "opened"}
Counted(r) == r.attempts = r.retries + 1

KindFits(r) ==
  /\ r.pc = "prompting" => r.kind \in Routes
  /\ r.pc = "new" => r.kind = NoKind
  /\ r.pc \in {"starting", "checked"} \/ Running(r) => r.kind \in Kinds

(* The capability a view has checked, or the note that it was lost since.  *)
LiveFits(r, l) ==
  r.pc = "checked" \/ r.attempts > 0 => r.kind \in l \/ r.lapsed

CountsFit(r) ==
  /\ Before(r) => r.attempts = 0 /\ r.retries = 0 /\ r.arm = "none"
  /\ Running(r) => r.attempts > 0
  /\ r.pc \in {"trying", "erred", "opened"} => Counted(r)
  /\ r.pc = "pausing" => r.attempts = r.retries
  /\ r.attempts > 0 => \/ Counted(r)
                       \/ r.pc = "pausing"
  /\ r.retries <= MaxRetries

WakeFits(r, e) ==
  /\ ~e => r.retries = 0 /\ r.arm = "none"
  /\ r.attempts > 0 => r.armCalls = (IF e THEN r.retries + 1 ELSE 0)

Legal(r, e, l) ==
  r \in OpenRecords /\ KindFits(r) /\ LiveFits(r, l) /\ CountsFit(r) /\ WakeFits(r, e)

(* The remembered route is the kind of an open that named none.            *)
Chosen ==
  remembered # NoKind =>
    \E o \in Opens : open[o].pinned = NoKind /\ open[o].kind = remembered

(* What a step of one open may do to the memory: nothing, or write what    *)
(* the open has; and an open that has a kind keeps it.                     *)
Learns(r) == remembered' = remembered \/ (remembered' = r.kind /\ r.pinned = NoKind)
Keeps(q, r) == (r.pinned = q.pinned /\ r.kind = q.kind) \/ q.kind = NoKind

(* The inductive invariant.                                                *)
IInv ==
  /\ eligible \in BOOLEAN
  /\ settings \in Settings
  /\ remembered \in Routes \cup {NoKind}
  /\ live \subseteq Kinds
  /\ changes \in 0..MaxChanges
  /\ handshakes \in 0..MaxHandshakes
  /\ open \in [Opens -> OpenRecords]
  /\ \A o \in Opens : Legal(open[o], eligible, live)
  /\ Chosen

----------------------------------------------------------------------------
(* The updates of a record.                                                *)

(* Writing a legal record for one open keeps the invariant.                *)
LEMMA Moves ==
  ASSUME IInv, NEW o \in Opens, NEW r, Legal(r, eligible, live), Goes(o, r),
         Keeps(open[o], r), Learns(r),
         remembered' \in Routes \cup {NoKind}, UNCHANGED env
  PROVE  IInv'
<1>0. UNCHANGED <<eligible, settings, live, changes, handshakes>>
  BY DEF env
<1>1. r \in OpenRecords
  BY DEF Legal
<1>2. open' \in [Opens -> OpenRecords]
  BY <1>1 DEF IInv, Goes
<1>3. \A q \in Opens : open'[q] = IF q = o THEN r ELSE open[q]
  BY DEF IInv, Goes
<1>4. \A q \in Opens : Legal(open'[q], eligible, live)
  BY <1>3 DEF IInv
<1>5. eligible' = eligible /\ live' = live
  BY <1>0
<1>6. (\A q \in Opens : Legal(open[q], eligible, live))'
  BY <1>4, <1>5
<1>7. (eligible \in BOOLEAN)'
  BY <1>5, Zenon DEF IInv
<1>8. Chosen'
  <2> SUFFICES ASSUME remembered' # NoKind
               PROVE  \E q \in Opens : open'[q].pinned = NoKind /\ open'[q].kind = remembered'
    BY DEF Chosen
  <2>1. CASE remembered' = r.kind /\ r.pinned = NoKind
    BY <1>3, <2>1
  <2>2. CASE remembered' = remembered
    <3>1. PICK q \in Opens : open[q].pinned = NoKind /\ open[q].kind = remembered
      BY <2>2 DEF IInv, Chosen
    <3>2. open'[q].pinned = NoKind /\ open'[q].kind = remembered
      BY <1>3, <2>2, <3>1 DEF Keeps
    <3> QED
      BY <2>2, <3>2
  <2> QED
    BY <2>1, <2>2 DEF Learns
<1>9. /\ (settings \in Settings)' /\ (live \subseteq Kinds)'
      /\ (changes \in 0..MaxChanges)' /\ (handshakes \in 0..MaxHandshakes)'
  BY <1>0 DEF IInv
<1> QED
  BY <1>2, <1>6, <1>7, <1>8, <1>9 DEF IInv

(* An open that has not asked a provider prompts, starts or fails.         *)
LEMMA PreparedIsLegal ==
  ASSUME NEW e \in BOOLEAN, NEW l, NEW q, Legal(q, e, l), Before(q),
         NEW r \in OpenRecords, r.pc \in {"failed", "prompting", "starting"},
         r.attempts = q.attempts, r.retries = q.retries, r.arm = "none",
         r.pc = "prompting" => r.kind \in Routes,
         r.pc = "starting" => r.kind \in Kinds
  PROVE  Legal(r, e, l)
<1>1. q.attempts = 0 /\ q.retries = 0
  BY DEF Legal, CountsFit
<1>2. MaxRetries \in Nat
  BY OpenAssumption
<1> QED
  BY <1>1, <1>2 DEF Legal, KindFits, LiveFits, CountsFit, WakeFits, Before, Running, Counted

(* A routed open is written over one that is legal and prepares.           *)
LEMMA Prepares ==
  ASSUME IInv, NEW o \in Opens, Before(open[o]),
         NEW r \in OpenRecords, r.pc \in {"failed", "prompting", "starting"},
         r.attempts = open[o].attempts, r.retries = open[o].retries, r.arm = "none",
         r.pc = "prompting" => r.kind \in Routes,
         r.pc = "starting" => r.kind \in Kinds,
         Goes(o, r), Keeps(open[o], r), Learns(r),
         remembered' \in Routes \cup {NoKind}, UNCHANGED env
  PROVE  IInv'
<1>1. eligible \in BOOLEAN /\ Legal(open[o], eligible, live)
  BY Zenon DEF IInv
<1>2. Legal(r, eligible, live)
  BY <1>1, PreparedIsLegal
<1> QED
  BY <1>2, Moves

(* The records the routing writes.                                         *)
LEMMA StartingRecord ==
  ASSUME NEW q \in OpenRecords, NEW k \in Kinds, NEW p \in Kinds \cup {NoKind}
  PROVE  LET r == [Starting(q, k) EXCEPT !.pinned = p] IN
           /\ r \in OpenRecords /\ r.pc = "starting" /\ r.kind = k /\ r.pinned = p
           /\ r.attempts = q.attempts /\ r.retries = q.retries /\ r.arm = q.arm
BY DEF Starting, OpenRecords, OpenStates

LEMMA ResolvedPlain ==
  ASSUME NEW q \in OpenRecords, q.arm = "none", NEW k \in Kinds
  PROVE  LET r == Resolved(q, k) IN
           /\ r \in OpenRecords /\ r.pc \in {"starting", "failed"} /\ r.kind = k
           /\ r.pinned = q.pinned
           /\ r.attempts = q.attempts /\ r.retries = q.retries /\ r.arm = "none"
<1>1. CASE CanOpen(k)
  BY <1>1 DEF Resolved, Starting, OpenRecords, OpenStates
<1>2. CASE ~CanOpen(k)
  BY <1>2 DEF Resolved, Failed, OpenRecords, OpenStates, ArmStates
<1> QED
  BY <1>1, <1>2

LEMMA ResolvedRecord ==
  ASSUME NEW q \in OpenRecords, q.arm = "none", NEW k \in Kinds,
         NEW p \in Kinds \cup {NoKind}
  PROVE  LET r == [Resolved(q, k) EXCEPT !.pinned = p] IN
           /\ r \in OpenRecords /\ r.pc \in {"starting", "failed"} /\ r.kind = k
           /\ r.pinned = p
           /\ r.attempts = q.attempts /\ r.retries = q.retries /\ r.arm = "none"
<1> DEFINE z == Resolved(q, k)
<1>1. /\ z \in OpenRecords /\ z.pc \in {"starting", "failed"} /\ z.kind = k
      /\ z.attempts = q.attempts /\ z.retries = q.retries /\ z.arm = "none"
  BY ResolvedPlain
<1> HIDE DEF z
<1>2. LET r == [z EXCEPT !.pinned = p] IN
           /\ r \in OpenRecords /\ r.pc \in {"starting", "failed"} /\ r.kind = k
           /\ r.pinned = p
           /\ r.attempts = q.attempts /\ r.retries = q.retries /\ r.arm = "none"
  BY <1>1 DEF OpenRecords
<1> QED
  BY <1>2 DEF z

LEMMA FailedRecord ==
  ASSUME NEW q \in OpenRecords, NEW p \in Kinds \cup {NoKind}
  PROVE  LET r == [Failed(q) EXCEPT !.pinned = p] IN
           /\ r \in OpenRecords /\ r.pc = "failed" /\ r.kind = q.kind /\ r.pinned = p
           /\ r.attempts = q.attempts /\ r.retries = q.retries /\ r.arm = "none"
           /\ r.armCalls = q.armCalls
BY DEF Failed, OpenRecords, OpenStates, ArmStates

LEMMA FailedPlain ==
  ASSUME NEW q \in OpenRecords
  PROVE  LET r == Failed(q) IN
           /\ r \in OpenRecords /\ r.pc = "failed" /\ r.kind = q.kind
           /\ r.pinned = q.pinned /\ r.lapsed = q.lapsed
           /\ r.attempts = q.attempts /\ r.retries = q.retries /\ r.arm = "none"
           /\ r.armCalls = q.armCalls
BY DEF Failed, OpenRecords, OpenStates, ArmStates

LEMMA StartingPlain ==
  ASSUME NEW q \in OpenRecords, NEW k \in Kinds
  PROVE  LET r == Starting(q, k) IN
           /\ r \in OpenRecords /\ r.pc = "starting" /\ r.kind = k
           /\ r.pinned = q.pinned
           /\ r.attempts = q.attempts /\ r.retries = q.retries /\ r.arm = q.arm
BY DEF Starting, OpenRecords, OpenStates

----------------------------------------------------------------------------
(* The records a wake writes: each is legal if the one before it was.      *)

LEMMA FailedIsLegal ==
  ASSUME NEW e \in BOOLEAN, NEW l, NEW q, Legal(q, e, l), q.pc \in {"starting", "checked", "erred"}
  PROVE  Legal(Failed(q), e, l)
<1>1. q \in OpenRecords
  BY DEF Legal
<1> DEFINE r == Failed(q)
<1>2. /\ r \in OpenRecords /\ r.pc = "failed" /\ r.kind = q.kind
      /\ r.attempts = q.attempts /\ r.retries = q.retries /\ r.arm = "none"
      /\ r.armCalls = q.armCalls /\ r.lapsed = q.lapsed
  BY <1>1, FailedPlain
<1> HIDE DEF r
<1>3. Legal(r, e, l)
  BY <1>2 DEF Legal, KindFits, LiveFits, CountsFit, WakeFits, Before, Running, Counted
<1> QED
  BY <1>3 DEF r

LEMMA CheckedIsLegal ==
  ASSUME NEW e \in BOOLEAN, NEW l, NEW q, Legal(q, e, l), q.pc = "starting", q.kind \in l
  PROVE  Legal([q EXCEPT !.pc = "checked"], e, l)
<1>1. q \in OpenRecords
  BY DEF Legal
<1> DEFINE r == [q EXCEPT !.pc = "checked"]
<1>2. /\ r \in OpenRecords /\ r.pc = "checked" /\ r.kind = q.kind /\ r.lapsed = q.lapsed
      /\ r.attempts = q.attempts /\ r.retries = q.retries /\ r.arm = q.arm
      /\ r.armCalls = q.armCalls
  BY <1>1 DEF OpenRecords, OpenStates
<1> HIDE DEF r
<1>3. Legal(r, e, l)
  BY <1>2 DEF Legal, KindFits, LiveFits, CountsFit, WakeFits, Before, Running, Counted
<1> QED
  BY <1>3 DEF r

LEMMA FirstAttemptIsLegal ==
  ASSUME NEW e \in BOOLEAN, NEW l, NEW q, Legal(q, e, l), q.pc = "checked"
  PROVE  Legal([q EXCEPT !.pc = "trying", !.attempts = 1,
                         !.arm = IF e THEN "pending" ELSE "none",
                         !.armCalls = IF e THEN 1 ELSE 0], e, l)
<1>1. /\ q \in OpenRecords /\ q.retries = 0 /\ q.kind \in Kinds
      /\ q.kind \in l \/ q.lapsed
  BY DEF Legal, KindFits, LiveFits, CountsFit, Before
<1> DEFINE r == [q EXCEPT !.pc = "trying", !.attempts = 1,
                          !.arm = IF e THEN "pending" ELSE "none",
                          !.armCalls = IF e THEN 1 ELSE 0]
<1>2. /\ r \in OpenRecords /\ r.pc = "trying" /\ r.kind = q.kind /\ r.lapsed = q.lapsed
      /\ r.attempts = 1 /\ r.retries = q.retries
      /\ ~e => r.arm = "none"
      /\ r.armCalls = IF e THEN 1 ELSE 0
  BY <1>1 DEF OpenRecords, OpenStates, ArmStates
<1> HIDE DEF r
<1>3. MaxRetries \in Nat
  BY OpenAssumption
<1>4. Legal(r, e, l)
  BY <1>1, <1>2, <1>3 DEF Legal, KindFits, LiveFits, CountsFit, WakeFits, Before, Running, Counted
<1> QED
  BY <1>4 DEF r

LEMMA AnswerIsLegal ==
  ASSUME NEW e \in BOOLEAN, NEW l, NEW q, Legal(q, e, l), q.arm = "pending",
         NEW status \in {"wake", "other"}
  PROVE  Legal([q EXCEPT !.arm = status], e, l)
<1>1. q \in OpenRecords /\ ~Before(q) /\ e
  BY DEF Legal, CountsFit, WakeFits
<1> DEFINE r == [q EXCEPT !.arm = status]
<1>2. /\ r \in OpenRecords /\ r.pc = q.pc /\ r.kind = q.kind /\ r.lapsed = q.lapsed
      /\ r.attempts = q.attempts /\ r.retries = q.retries
      /\ r.armCalls = q.armCalls
  BY <1>1 DEF OpenRecords, ArmStates
<1> HIDE DEF r
<1>3. Legal(r, e, l)
  BY <1>1, <1>2 DEF Legal, KindFits, LiveFits, CountsFit, WakeFits, Before, Running, Counted
<1> QED
  BY <1>3 DEF r

LEMMA OpenedIsLegal ==
  ASSUME NEW e \in BOOLEAN, NEW l, NEW q, Legal(q, e, l), q.pc = "trying"
  PROVE  Legal([q EXCEPT !.pc = "opened", !.arm = "none"], e, l)
<1>1. q \in OpenRecords
  BY DEF Legal
<1> DEFINE r == [q EXCEPT !.pc = "opened", !.arm = "none"]
<1>2. /\ r \in OpenRecords /\ r.pc = "opened" /\ r.kind = q.kind /\ r.lapsed = q.lapsed
      /\ r.attempts = q.attempts /\ r.retries = q.retries /\ r.arm = "none"
      /\ r.armCalls = q.armCalls
  BY <1>1 DEF OpenRecords, OpenStates, ArmStates
<1> HIDE DEF r
<1>3. Legal(r, e, l)
  BY <1>2 DEF Legal, KindFits, LiveFits, CountsFit, WakeFits, Before, Running, Counted
<1> QED
  BY <1>3 DEF r

LEMMA ErredIsLegal ==
  ASSUME NEW e \in BOOLEAN, NEW l, NEW q, Legal(q, e, l), q.pc = "trying",
         NEW wakeable \in BOOLEAN
  PROVE  Legal([q EXCEPT !.pc = "erred", !.wakeable = wakeable], e, l)
<1>1. q \in OpenRecords
  BY DEF Legal
<1> DEFINE r == [q EXCEPT !.pc = "erred", !.wakeable = wakeable]
<1>2. r \in OpenRecords
  <2>1. CASE wakeable = TRUE
    BY <1>1, <2>1 DEF OpenRecords, OpenStates
  <2>2. CASE wakeable = FALSE
    BY <1>1, <2>2 DEF OpenRecords, OpenStates
  <2> QED
    BY <2>1, <2>2
<1>3. /\ r.pc = "erred" /\ r.kind = q.kind /\ r.lapsed = q.lapsed
      /\ r.attempts = q.attempts /\ r.retries = q.retries /\ r.arm = q.arm
      /\ r.armCalls = q.armCalls
  BY <1>1 DEF OpenRecords
<1> HIDE DEF r
<1>4. Legal(r, e, l)
  BY <1>2, <1>3 DEF Legal, KindFits, LiveFits, CountsFit, WakeFits, Before, Running, Counted
<1> QED
  BY <1>4 DEF r

LEMMA PauseIsLegal ==
  ASSUME NEW e \in BOOLEAN, NEW l, NEW q, Legal(q, e, l), q.pc = "erred", MayRetry(q)
  PROVE  Legal(Pausing(q), e, l)
<1>1. q \in OpenRecords /\ e /\ q.retries < MaxRetries
  BY DEF Legal, WakeFits, MayRetry
<1>2. /\ Counted(q) /\ q.kind \in Kinds /\ q.armCalls = q.retries + 1
      /\ q.kind \in l \/ q.lapsed
  BY <1>1 DEF Legal, KindFits, LiveFits, CountsFit, WakeFits, Running
<1>3. q.retries \in Nat /\ q.attempts \in Nat /\ MaxRetries \in Nat
  BY <1>1, OpenAssumption DEF OpenRecords
<1> DEFINE r == Pausing(q)
<1>4. /\ r \in OpenRecords /\ r.pc = "pausing" /\ r.kind = q.kind /\ r.lapsed = q.lapsed
      /\ r.attempts = q.attempts /\ r.retries = q.retries + 1
      /\ r.armCalls = q.armCalls + 1
  <2>1. /\ r.pc = "pausing" /\ r.kind = q.kind /\ r.lapsed = q.lapsed
        /\ r.attempts = q.attempts /\ r.retries = q.retries + 1
        /\ r.armCalls = q.armCalls + 1
    BY <1>1 DEF Pausing, OpenRecords
  <2>2. q.retries + 1 \in Nat /\ q.armCalls + 1 \in Nat
    BY <1>1 DEF OpenRecords
  <2>3. r \in OpenRecords
    BY <1>1, <2>2 DEF Pausing, OpenRecords, OpenStates, ArmStates
  <2> QED
    BY <2>1, <2>3
<1> HIDE DEF r
<1>5. Legal(r, e, l)
  BY <1>1, <1>2, <1>3, <1>4
     DEF Legal, KindFits, LiveFits, CountsFit, WakeFits, Before, Running, Counted
<1> QED
  BY <1>5 DEF r

LEMMA RetryIsLegal ==
  ASSUME NEW e \in BOOLEAN, NEW l, NEW q, Legal(q, e, l), q.pc = "pausing"
  PROVE  Legal([q EXCEPT !.pc = "trying", !.attempts = @ + 1], e, l)
<1>1. q \in OpenRecords /\ q.attempts = q.retries /\ q.attempts > 0
  BY DEF Legal, CountsFit, Running
<1> DEFINE r == [q EXCEPT !.pc = "trying", !.attempts = @ + 1]
<1>2. /\ r \in OpenRecords /\ r.pc = "trying" /\ r.kind = q.kind /\ r.lapsed = q.lapsed
      /\ r.attempts = q.attempts + 1 /\ r.retries = q.retries /\ r.arm = q.arm
      /\ r.armCalls = q.armCalls
  <2>1. q.attempts + 1 \in Nat
    BY <1>1 DEF OpenRecords
  <2>2. r \in OpenRecords
    BY <1>1, <2>1 DEF OpenRecords, OpenStates
  <2> QED
    BY <1>1, <2>2 DEF OpenRecords
<1>3. q.attempts \in Nat
  BY <1>1 DEF OpenRecords
<1> HIDE DEF r
<1>4. Legal(r, e, l)
  BY <1>1, <1>2, <1>3 DEF Legal, KindFits, LiveFits, CountsFit, WakeFits, Before, Running, Counted
<1> QED
  BY <1>4 DEF r

----------------------------------------------------------------------------
(* The invariant holds initially and every action keeps it.                *)

LEMMA InitLegal ==
  Init => IInv
<1> SUFFICES ASSUME Init PROVE IInv
  OBVIOUS
<1>1. NewOpen \in OpenRecords
  BY DEF NewOpen, OpenRecords, OpenStates, ArmStates
<1>2. /\ NewOpen.pc = "new" /\ NewOpen.attempts = 0 /\ NewOpen.retries = 0
      /\ NewOpen.arm = "none" /\ NewOpen.kind = NoKind
  BY DEF NewOpen
<1>3. ASSUME NEW e \in BOOLEAN, NEW l PROVE Legal(NewOpen, e, l)
  BY <1>1, <1>2, OpenAssumption
     DEF Legal, KindFits, LiveFits, CountsFit, WakeFits, Before, Running, Counted
<1>4. eligible \in BOOLEAN
  BY Zenon DEF Init
<1>5. open \in [Opens -> OpenRecords] /\ \A o \in Opens : open[o] = NewOpen
  BY <1>1 DEF Init
<1>6. \A o \in Opens : Legal(open[o], eligible, live)
  BY <1>3, <1>4, <1>5
<1>7. /\ settings \in Settings /\ remembered \in Routes \cup {NoKind}
      /\ changes \in 0..MaxChanges
      /\ handshakes \in 0..MaxHandshakes /\ live \subseteq Kinds
  BY OpenAssumption DEF Init
<1>8. Chosen
  BY DEF Init, Chosen
<1> QED
  BY <1>4, <1>5, <1>6, <1>7, <1>8 DEF IInv

(* What every routing step may use.                                        *)
LEMMA RoutingFacts ==
  ASSUME IInv, NEW o \in Opens
  PROVE  /\ open[o] \in OpenRecords
         /\ Legal(open[o], eligible, live)
         /\ eligible \in BOOLEAN
         /\ Before(open[o]) => open[o].arm = "none"
         /\ open[o].pc = "new" => open[o].kind = NoKind
         /\ live \subseteq Kinds
         /\ remembered \in Routes \cup {NoKind}
         /\ Routes \subseteq Capable /\ Capable \subseteq Kinds /\ NoKind \notin Kinds
<1>1. Legal(open[o], eligible, live) /\ remembered \in Routes \cup {NoKind}
  BY DEF IInv
<1>2. eligible \in BOOLEAN
  BY Zenon DEF IInv
<1>3. /\ open[o] \in OpenRecords /\ (Before(open[o]) => open[o].arm = "none")
      /\ open[o].pc = "new" => open[o].kind = NoKind
  BY <1>1 DEF Legal, CountsFit, KindFits
<1>4. live \subseteq Kinds
  BY DEF IInv
<1> QED
  BY <1>1, <1>2, <1>3, <1>4, OpenAssumption DEF Routes

LEMMA Asked ==
  ASSUME IInv, NEW o \in Opens, NEW pinned \in Kinds \cup {NoKind},
         OpenAsAsked(o, pinned)
  PROVE  IInv'
<1> DEFINE k == AskedKind(pinned)
           r == [Starting(open[o], k) EXCEPT !.pinned = pinned]
<1>1. k \in Kinds
  BY RoutingFacts DEF OpenAsAsked, CanOpen
<1>2. Before(open[o]) /\ open[o].kind = NoKind
  BY RoutingFacts DEF OpenAsAsked, Before
<1>3. /\ Goes(o, r) /\ UNCHANGED env /\ remembered' = remembered
      /\ remembered' \in Routes \cup {NoKind}
  BY RoutingFacts DEF OpenAsAsked
<1>4. /\ r \in OpenRecords /\ r.pc = "starting" /\ r.kind = k
      /\ r.attempts = open[o].attempts /\ r.retries = open[o].retries
      /\ r.arm = open[o].arm
  BY <1>1, RoutingFacts, StartingRecord
<1> HIDE DEF r, k
<1>5. Keeps(open[o], r) /\ Learns(r)
  BY <1>2, <1>3 DEF Keeps, Learns
<1> QED
  BY <1>1, <1>2, <1>3, <1>4, <1>5, RoutingFacts, Prepares

LEMMA Aborted ==
  ASSUME IInv, NEW o \in Opens, NEW pinned \in Kinds \cup {NoKind},
         OpenAborted(o, pinned)
  PROVE  IInv'
<1> DEFINE r == [Failed(open[o]) EXCEPT !.pinned = pinned]
<1>1. Before(open[o]) /\ open[o].kind = NoKind
  BY RoutingFacts DEF OpenAborted, Before
<1>2. /\ Goes(o, r) /\ UNCHANGED env /\ remembered' = remembered
      /\ remembered' \in Routes \cup {NoKind}
  BY RoutingFacts DEF OpenAborted
<1>3. /\ r \in OpenRecords /\ r.pc = "failed"
      /\ r.attempts = open[o].attempts /\ r.retries = open[o].retries /\ r.arm = "none"
  BY RoutingFacts, FailedRecord
<1> HIDE DEF r
<1>4. Keeps(open[o], r) /\ Learns(r)
  BY <1>1, <1>2 DEF Keeps, Learns
<1> QED
  BY <1>1, <1>2, <1>3, <1>4, Prepares

LEMMA Routed ==
  ASSUME IInv, NEW o \in Opens, NEW pinned \in Kinds \cup {NoKind},
         OpenRouted(o, pinned)
  PROVE  IInv'
<1>1. PICK k \in Alternatives(AskedKind(pinned)) :
        /\ Goes(o, [Resolved(open[o], k) EXCEPT !.pinned = pinned])
        /\ Remember(pinned, k)
  BY DEF OpenRouted
<1>2. k \in Routes /\ k \in Kinds
  BY <1>1, RoutingFacts DEF Alternatives, Routes
<1> DEFINE r == [Resolved(open[o], k) EXCEPT !.pinned = pinned]
<1>3. Before(open[o]) /\ open[o].kind = NoKind /\ UNCHANGED env
  BY RoutingFacts DEF OpenRouted, Before
<1>4. remembered' \in Routes \cup {NoKind}
  BY <1>1, <1>2, RoutingFacts DEF Remember
<1>5. /\ r \in OpenRecords /\ r.pc \in {"starting", "failed"} /\ r.kind = k
      /\ r.pinned = pinned
      /\ r.attempts = open[o].attempts /\ r.retries = open[o].retries
      /\ r.arm = "none"
  BY <1>2, <1>3, RoutingFacts, ResolvedRecord
<1>6. Goes(o, r)
  BY <1>1
<1> HIDE DEF r
<1>7. Keeps(open[o], r) /\ Learns(r)
  BY <1>1, <1>3, <1>5 DEF Keeps, Learns, Remember
<1> QED
  BY <1>2, <1>3, <1>4, <1>5, <1>6, <1>7, Prepares

LEMMA Prompts ==
  ASSUME IInv, NEW o \in Opens, NEW pinned \in Kinds \cup {NoKind},
         OpenPrompts(o, pinned)
  PROVE  IInv'
<1>1. PICK k \in Alternatives(AskedKind(pinned)) :
        Goes(o, [open[o] EXCEPT !.pc = "prompting", !.kind = k, !.pinned = pinned])
  BY DEF OpenPrompts
<1>2. k \in Routes /\ k \in Kinds
  BY <1>1, RoutingFacts DEF Alternatives, Routes
<1> DEFINE r == [open[o] EXCEPT !.pc = "prompting", !.kind = k, !.pinned = pinned]
<1>3. /\ Before(open[o]) /\ open[o].kind = NoKind /\ UNCHANGED env
      /\ remembered' \in Routes \cup {NoKind} /\ remembered' = remembered
  BY RoutingFacts DEF OpenPrompts, Before
<1>4. /\ r \in OpenRecords /\ r.pc = "prompting" /\ r.kind = k
      /\ r.attempts = open[o].attempts /\ r.retries = open[o].retries
      /\ r.arm = open[o].arm
  <2>1. open[o] \in OpenRecords
    BY RoutingFacts
  <2> QED
    BY <1>2, <2>1 DEF OpenRecords, OpenStates
<1>5. Goes(o, r)
  BY <1>1
<1> HIDE DEF r
<1>6. Keeps(open[o], r) /\ Learns(r)
  BY <1>3 DEF Keeps, Learns
<1> QED
  BY <1>2, <1>3, <1>4, <1>5, <1>6, RoutingFacts, Prepares

LEMMA Accepted ==
  ASSUME IInv, NEW o \in Opens, PromptAccepted(o)
  PROVE  IInv'
<1> DEFINE k == open[o].kind
           r == Resolved(open[o], k)
<1>1. Before(open[o]) /\ k \in Routes
  BY RoutingFacts DEF PromptAccepted, Before, Legal, KindFits
<1>2. k \in Kinds
  BY <1>1, RoutingFacts
<1>3. /\ Goes(o, r) /\ UNCHANGED env /\ Remember(open[o].pinned, k)
      /\ remembered' \in Routes \cup {NoKind}
  BY <1>1, RoutingFacts DEF PromptAccepted, Remember
<1>4. /\ r \in OpenRecords /\ r.pc \in {"starting", "failed"} /\ r.kind = k
      /\ r.pinned = open[o].pinned
      /\ r.attempts = open[o].attempts /\ r.retries = open[o].retries
      /\ r.arm = "none"
  BY <1>1, <1>2, RoutingFacts, ResolvedPlain
<1> HIDE DEF r
<1>5. Keeps(open[o], r) /\ Learns(r)
  BY <1>3, <1>4 DEF Keeps, Learns, Remember
<1> HIDE DEF k
<1> QED
  BY <1>1, <1>2, <1>3, <1>4, <1>5, Prepares

LEMMA Dismissed ==
  ASSUME IInv, NEW o \in Opens, PromptDismissed(o)
  PROVE  IInv'
<1> DEFINE r == Failed(open[o])
<1>1. Before(open[o])
  BY DEF PromptDismissed, Before
<1>2. /\ Goes(o, r) /\ UNCHANGED env /\ remembered' = remembered
      /\ remembered' \in Routes \cup {NoKind}
  BY RoutingFacts DEF PromptDismissed
<1>3. /\ r \in OpenRecords /\ r.pc = "failed"
      /\ r.kind = open[o].kind /\ r.pinned = open[o].pinned
      /\ r.attempts = open[o].attempts /\ r.retries = open[o].retries /\ r.arm = "none"
  BY RoutingFacts, FailedPlain
<1> HIDE DEF r
<1>4. Keeps(open[o], r) /\ Learns(r)
  BY <1>2, <1>3 DEF Keeps, Learns
<1> QED
  BY <1>1, <1>2, <1>3, <1>4, Prepares

LEMMA Silently ==
  ASSUME IInv, NEW o \in Opens, OpenSilently(o)
  PROVE  IInv'
<1> DEFINE k == AskedKind(NoKind)
<1>1. /\ Before(open[o]) /\ open[o].kind = NoKind /\ UNCHANGED env
      /\ remembered' \in Routes \cup {NoKind} /\ remembered' = remembered
  BY RoutingFacts DEF OpenSilently, Before
<1>2. CASE k # NoKind
  <2> DEFINE r == Starting(open[o], k)
  <2>1. k \in Kinds
    BY <1>2, RoutingFacts DEF AskedKind, IInv, Settings
  <2>2. Goes(o, r)
    BY <1>2 DEF OpenSilently
  <2>3. /\ r \in OpenRecords /\ r.pc = "starting" /\ r.kind = k
        /\ r.attempts = open[o].attempts /\ r.retries = open[o].retries
        /\ r.arm = open[o].arm
    BY <2>1, RoutingFacts, StartingPlain
  <2> HIDE DEF r, k
  <2>4. Keeps(open[o], r) /\ Learns(r)
    BY <1>1 DEF Keeps, Learns
  <2> QED
    BY <1>1, <2>1, <2>2, <2>3, <2>4, RoutingFacts, Prepares
<1>3. CASE k = NoKind
  <2> DEFINE r == Failed(open[o])
  <2>1. Goes(o, r)
    BY <1>3 DEF OpenSilently
  <2>2. /\ r \in OpenRecords /\ r.pc = "failed"
        /\ r.attempts = open[o].attempts /\ r.retries = open[o].retries /\ r.arm = "none"
    BY RoutingFacts, FailedPlain
  <2> HIDE DEF r
  <2>3. Keeps(open[o], r) /\ Learns(r)
    BY <1>1 DEF Keeps, Learns
  <2> QED
    BY <1>1, <2>1, <2>2, <2>3, Prepares
<1> QED
  BY <1>2, <1>3

(* Failing keeps what an open has, and so does every step of the wake:     *)
(* the memory is left alone.                                               *)
LEMMA Wakes ==
  ASSUME IInv, NEW o \in Opens, NEW r, Legal(r, eligible, live),
         r.pinned = open[o].pinned, r.kind = open[o].kind,
         Goes(o, r), UNCHANGED <<env, remembered>>
  PROVE  IInv'
<1>1. Keeps(open[o], r) /\ Learns(r)
  BY DEF Keeps, Learns
<1>2. remembered' \in Routes \cup {NoKind} /\ UNCHANGED env
  BY RoutingFacts
<1> QED
  BY <1>1, <1>2, Moves

LEMMA Fails ==
  ASSUME IInv, NEW o \in Opens, open[o].pc \in {"starting", "checked", "erred"},
         Goes(o, Failed(open[o])), UNCHANGED <<env, remembered>>
  PROVE  IInv'
<1> DEFINE r == Failed(open[o])
<1>1. Legal(r, eligible, live)
  BY RoutingFacts, FailedIsLegal
<1>2. r.pinned = open[o].pinned /\ r.kind = open[o].kind
  BY RoutingFacts, FailedPlain
<1>3. Goes(o, r)
  OBVIOUS
<1> HIDE DEF r
<1> QED
  BY <1>1, <1>2, <1>3, Wakes

LEMMA Ready ==
  ASSUME IInv, NEW o \in Opens, ServiceReady(o)
  PROVE  IInv'
<1>1. open[o].pc = "starting" /\ UNCHANGED <<env, remembered>>
  BY DEF ServiceReady
<1>2. CASE CanOpen(open[o].kind)
  <2> DEFINE r == [open[o] EXCEPT !.pc = "checked"]
  <2>1. Legal(r, eligible, live)
    BY <1>1, <1>2, RoutingFacts, CheckedIsLegal DEF CanOpen
  <2>2. r.pinned = open[o].pinned /\ r.kind = open[o].kind
    BY RoutingFacts DEF OpenRecords
  <2>3. Goes(o, r)
    BY <1>2 DEF ServiceReady
  <2> HIDE DEF r
  <2> QED
    BY <1>1, <2>1, <2>2, <2>3, Wakes
<1>3. CASE ~CanOpen(open[o].kind)
  <2>1. Goes(o, Failed(open[o]))
    BY <1>3 DEF ServiceReady
  <2> QED
    BY <1>1, <2>1, Fails
<1> QED
  BY <1>2, <1>3

LEMMA Unavailable ==
  ASSUME IInv, NEW o \in Opens, ServiceFails(o)
  PROVE  IInv'
BY Fails DEF ServiceFails

LEMMA First ==
  ASSUME IInv, NEW o \in Opens, FirstAttempt(o)
  PROVE  IInv'
<1> DEFINE r == [open[o] EXCEPT !.pc = "trying", !.attempts = 1,
                                !.arm = IF eligible THEN "pending" ELSE "none",
                                !.armCalls = IF eligible THEN 1 ELSE 0]
<1>1. Legal(r, eligible, live)
  BY RoutingFacts, FirstAttemptIsLegal DEF FirstAttempt
<1>2. Goes(o, r) /\ UNCHANGED <<env, remembered>>
  BY DEF FirstAttempt
<1>3. r.pinned = open[o].pinned /\ r.kind = open[o].kind
  BY RoutingFacts DEF OpenRecords
<1> HIDE DEF r
<1> QED
  BY <1>1, <1>2, <1>3, Wakes

LEMMA Answered ==
  ASSUME IInv, NEW o \in Opens, NEW status \in {"wake", "other"}, ArmAnswers(o, status)
  PROVE  IInv'
<1> DEFINE r == [open[o] EXCEPT !.arm = status]
<1>1. Legal(r, eligible, live)
  BY RoutingFacts, AnswerIsLegal DEF ArmAnswers
<1>2. Goes(o, r) /\ UNCHANGED <<env, remembered>>
  BY DEF ArmAnswers
<1>3. r.pinned = open[o].pinned /\ r.kind = open[o].kind
  BY RoutingFacts DEF OpenRecords
<1> HIDE DEF r
<1> QED
  BY <1>1, <1>2, <1>3, Wakes

LEMMA Succeeds ==
  ASSUME IInv, NEW o \in Opens, OpenSucceeds(o)
  PROVE  IInv'
<1> DEFINE r == [open[o] EXCEPT !.pc = "opened", !.arm = "none"]
<1>1. Legal(r, eligible, live)
  BY RoutingFacts, OpenedIsLegal DEF OpenSucceeds
<1>2. Goes(o, r) /\ UNCHANGED <<env, remembered>>
  BY DEF OpenSucceeds
<1>3. r.pinned = open[o].pinned /\ r.kind = open[o].kind
  BY RoutingFacts DEF OpenRecords
<1> HIDE DEF r
<1> QED
  BY <1>1, <1>2, <1>3, Wakes

LEMMA Errs ==
  ASSUME IInv, NEW o \in Opens, NEW wakeable \in BOOLEAN, AttemptFails(o, wakeable)
  PROVE  IInv'
<1> DEFINE r == [open[o] EXCEPT !.pc = "erred", !.wakeable = wakeable]
<1>1. Legal(r, eligible, live)
  BY RoutingFacts, ErredIsLegal DEF AttemptFails
<1>2. Goes(o, r) /\ UNCHANGED <<env, remembered>>
  BY DEF AttemptFails
<1>3. r.pinned = open[o].pinned /\ r.kind = open[o].kind
  BY RoutingFacts DEF OpenRecords
<1> HIDE DEF r
<1> QED
  BY <1>1, <1>2, <1>3, Wakes

LEMMA Decided ==
  ASSUME IInv, NEW o \in Opens, OpenFails(o)
  PROVE  IInv'
<1>1. open[o].pc = "erred" /\ UNCHANGED <<env, remembered>>
  BY DEF OpenFails
<1>2. CASE open[o].wakeable /\ MayRetry(open[o])
  <2> DEFINE r == Pausing(open[o])
  <2>1. Goes(o, r)
    BY <1>2 DEF OpenFails
  <2>2. Legal(r, eligible, live)
    BY <1>1, <1>2, RoutingFacts, PauseIsLegal
  <2>3. r.pinned = open[o].pinned /\ r.kind = open[o].kind
    BY RoutingFacts DEF Pausing, OpenRecords
  <2> HIDE DEF r
  <2> QED
    BY <1>1, <2>1, <2>2, <2>3, Wakes
<1>3. CASE ~(open[o].wakeable /\ MayRetry(open[o]))
  <2>1. Goes(o, Failed(open[o]))
    BY <1>3 DEF OpenFails
  <2> QED
    BY <1>1, <2>1, Fails
<1> QED
  BY <1>2, <1>3

LEMMA Retries ==
  ASSUME IInv, NEW o \in Opens, Retry(o)
  PROVE  IInv'
<1> DEFINE r == [open[o] EXCEPT !.pc = "trying", !.attempts = @ + 1]
<1>1. Legal(r, eligible, live)
  BY RoutingFacts, RetryIsLegal DEF Retry
<1>2. Goes(o, r) /\ UNCHANGED <<env, remembered>>
  BY DEF Retry
<1>3. r.pinned = open[o].pinned /\ r.kind = open[o].kind
  BY RoutingFacts DEF OpenRecords
<1> HIDE DEF r
<1> QED
  BY <1>1, <1>2, <1>3, Wakes

LEMMA Changed ==
  ASSUME IInv, NEW new \in Settings, ConfigChange(new)
  PROVE  IInv'
<1>1. changes' \in 0..MaxChanges
  BY OpenAssumption DEF IInv, ConfigChange
<1>2. settings' \in Settings /\ remembered' \in Routes \cup {NoKind} /\ Chosen'
  BY DEF ConfigChange, Chosen
<1>3. (eligible \in BOOLEAN)'
  BY Zenon DEF IInv, ConfigChange
<1>4. /\ open' \in [Opens -> OpenRecords]
      /\ (\A o \in Opens : Legal(open[o], eligible, live))'
      /\ (live \subseteq Kinds)' /\ (handshakes \in 0..MaxHandshakes)'
  BY DEF IInv, ConfigChange
<1> QED
  BY <1>1, <1>2, <1>3, <1>4 DEF IInv

(* A record whose kind has changed its capability: a view's check that was *)
(* passed is noted as lapsed.                                              *)
LEMMA LapsedIsLegal ==
  ASSUME NEW e \in BOOLEAN, NEW l, NEW q, Legal(q, e, l), NEW k
  PROVE  /\ Legal(Lapses(q, k), e, l \ {k})
         /\ Lapses(q, k).kind = q.kind /\ Lapses(q, k).pinned = q.pinned
<1>1. q \in OpenRecords /\ LiveFits(q, l)
  BY DEF Legal
<1>2. CASE PastTheView(q) /\ q.kind = k
  <2> DEFINE r == [q EXCEPT !.lapsed = TRUE]
  <2>1. /\ r \in OpenRecords /\ r.pc = q.pc /\ r.kind = q.kind /\ r.pinned = q.pinned
        /\ r.lapsed = TRUE /\ r.attempts = q.attempts /\ r.retries = q.retries
        /\ r.arm = q.arm /\ r.armCalls = q.armCalls
    BY <1>1 DEF OpenRecords
  <2>2. Lapses(q, k) = r
    BY <1>2 DEF Lapses
  <2> HIDE DEF r
  <2>3. Legal(r, e, l \ {k})
    BY <2>1 DEF Legal, KindFits, LiveFits, CountsFit, WakeFits, Before, Running, Counted
  <2> QED
    BY <2>1, <2>2, <2>3
<1>3. CASE ~(PastTheView(q) /\ q.kind = k)
  <2>1. Lapses(q, k) = q
    BY <1>3 DEF Lapses
  <2>2. q.pc = "checked" \/ q.attempts > 0 => PastTheView(q)
    BY <1>1 DEF Legal, CountsFit, Before, PastTheView, OpenRecords
  <2>3. LiveFits(q, l \ {k})
    BY <1>1, <1>3, <2>2 DEF LiveFits
  <2> QED
    BY <2>1, <2>3 DEF Legal
<1> QED
  BY <1>2, <1>3

LEMMA Shakes ==
  ASSUME IInv, NEW k \in Kinds, Negotiated(k)
  PROVE  IInv'
<1>1. /\ handshakes' \in 0..MaxHandshakes
      /\ UNCHANGED <<eligible, settings, remembered, changes>>
  BY OpenAssumption DEF IInv, Negotiated
<1>2. (eligible \in BOOLEAN)' /\ eligible \in BOOLEAN
  BY <1>1, Zenon DEF IInv
<1>3. /\ (settings \in Settings)' /\ (remembered \in Routes \cup {NoKind})'
      /\ (changes \in 0..MaxChanges)'
  BY <1>1 DEF IInv
<1>4. CASE k \notin live /\ live' = live \cup {k} /\ UNCHANGED open
  <2>1. \A o \in Opens : Legal(open[o], eligible, live')
    BY <1>4 DEF IInv, Legal, LiveFits
  <2>2. (\A o \in Opens : Legal(open[o], eligible, live))'
    BY <1>1, <1>4, <2>1
  <2>3. Chosen' /\ (live \subseteq Kinds)' /\ open' \in [Opens -> OpenRecords]
    BY <1>1, <1>4 DEF IInv, Chosen
  <2> QED
    BY <1>1, <1>2, <1>3, <2>2, <2>3 DEF IInv
<1>5. CASE k \in live /\ live' = live \ {k}
           /\ open' = [o \in Opens |-> Lapses(open[o], k)]
  <2>1. \A o \in Opens : /\ Legal(open'[o], eligible, live')
                         /\ open'[o].kind = open[o].kind
                         /\ open'[o].pinned = open[o].pinned
    BY <1>2, <1>5, LapsedIsLegal DEF IInv
  <2>2. (\A o \in Opens : Legal(open[o], eligible, live))'
    BY <1>1, <2>1
  <2>3. open' \in [Opens -> OpenRecords]
    BY <1>5, <2>1 DEF Legal
  <2>4. Chosen'
    BY <1>1, <2>1 DEF IInv, Chosen
  <2>5. (live \subseteq Kinds)'
    BY <1>5 DEF IInv
  <2> QED
    BY <1>1, <1>2, <1>3, <2>2, <2>3, <2>4, <2>5 DEF IInv
<1> QED
  BY <1>4, <1>5 DEF Negotiated

LEMMA StepIsLegal ==
  IInv /\ [Next]_vars => IInv'
<1> SUFFICES ASSUME IInv, [Next]_vars PROVE IInv'
  OBVIOUS
<1>1. ASSUME NEW o \in Opens, NEW pinned \in Kinds \cup {NoKind},
             \/ OpenAsAsked(o, pinned) \/ OpenAborted(o, pinned)
             \/ OpenRouted(o, pinned) \/ OpenPrompts(o, pinned)
      PROVE  IInv'
  BY <1>1, Asked, Aborted, Routed, Prompts
<1>2. ASSUME NEW o \in Opens,
             PromptAccepted(o) \/ PromptDismissed(o) \/ OpenSilently(o)
      PROVE  IInv'
  BY <1>2, Accepted, Dismissed, Silently
<1>3. ASSUME NEW o \in Opens,
             \/ ServiceReady(o) \/ ServiceFails(o) \/ FirstAttempt(o)
             \/ ArmAnswers(o, "wake") \/ ArmAnswers(o, "other")
             \/ OpenSucceeds(o) \/ AttemptFails(o, TRUE) \/ AttemptFails(o, FALSE)
             \/ OpenFails(o) \/ Retry(o)
      PROVE  IInv'
  BY <1>3, Ready, Unavailable, First, Answered, Succeeds, Errs, Decided, Retries
<1>4. ASSUME NEW new \in Settings, ConfigChange(new)
      PROVE  IInv'
  BY <1>4, Changed
<1>5. ASSUME NEW k \in Kinds, Negotiated(k)
      PROVE  IInv'
  BY <1>5, Shakes
<1>6. CASE UNCHANGED vars
  <2>1. (eligible \in BOOLEAN)'
    BY <1>6, Zenon DEF IInv, vars
  <2> QED
    BY <1>6, <2>1 DEF IInv, vars, Chosen
<1> QED
  BY <1>1, <1>2, <1>3, <1>4, <1>5, <1>6 DEF Next

LEMMA AlwaysLegal ==
  Spec => []IInv
<1> QED
  BY InitLegal, StepIsLegal, PTL DEF Spec

----------------------------------------------------------------------------
(* The theorems.                                                           *)

(* Every open keeps its types, and one that goes anywhere knows its kind.  *)
THEOREM OpenTypes == Spec => []TypeOK
<1>1. IInv => TypeOK
  <2> SUFFICES ASSUME IInv PROVE TypeOK
    OBVIOUS
  <2>1. eligible \in BOOLEAN
    BY Zenon DEF IInv
  <2>2. ASSUME NEW o \in Opens, open[o].pc \notin {"new", "failed"}
        PROVE  open[o].kind # NoKind
    BY <2>2, RoutingFacts
       DEF Legal, KindFits, Running, OpenRecords, OpenStates
  <2>3. remembered \in Kinds \cup {NoKind}
    BY OpenAssumption DEF IInv, Routes
  <2> QED
    BY <2>1, <2>2, <2>3 DEF IInv, TypeOK
<1> QED
  BY <1>1, AlwaysLegal, PTL

(* No provider is asked for a profile it is known not to satisfy, however  *)
(* routes, settings and negotiated capabilities change meanwhile, unless   *)
(* the capability was lost after the view's own check.                     *)
THEOREM AskedProvidersAreCapable == Spec => []OnlyCapableProvidersAreAsked
<1>1. IInv => OnlyCapableProvidersAreAsked
  BY DEF IInv, Legal, LiveFits, OnlyCapableProvidersAreAsked
<1> QED
  BY <1>1, AlwaysLegal, PTL

(* The remembered route was chosen for an open that named no kind, and no  *)
(* test backend is remembered or offered.                                  *)
THEOREM RoutesWereChosen == Spec => []RoutesAreReal
<1>1. IInv => RoutesAreReal
  <2> SUFFICES ASSUME IInv PROVE RoutesAreReal
    OBVIOUS
  <2>1. remembered # NoKind => remembered \in Capable \ TestKinds /\ Chosen
    BY DEF IInv, Routes
  <2>2. ASSUME NEW o \in Opens, open[o].pc = "prompting"
        PROVE  open[o].kind \notin TestKinds
    BY <2>2, RoutingFacts DEF Legal, KindFits, Routes
  <2> QED
    BY <2>1, <2>2 DEF RoutesAreReal, Chosen
<1> QED
  BY <1>1, AlwaysLegal, PTL

(* The wake policy is bounded, for every cap on the retries.               *)
THEOREM WakesAreBounded == Spec => []WakeIsBounded
<1>1. IInv => WakeIsBounded
  <2> SUFFICES ASSUME IInv, NEW o \in Opens
               PROVE  /\ open[o].attempts <= (IF eligible THEN MaxRetries + 1 ELSE 1)
                      /\ open[o].attempts > 0 =>
                           open[o].armCalls = (IF eligible THEN open[o].retries + 1 ELSE 0)
    BY DEF WakeIsBounded
  <2>1. Legal(open[o], eligible, live) /\ open[o] \in OpenRecords
    BY RoutingFacts
  <2>2. /\ open[o].attempts \in Nat /\ open[o].retries \in Nat /\ MaxRetries \in Nat
        /\ open[o].pc \in OpenStates
    BY <2>1, OpenAssumption DEF OpenRecords
  <2>3. open[o].attempts <= open[o].retries + 1
    BY <2>1, <2>2 DEF Legal, CountsFit, Counted
  <2> QED
    BY <2>1, <2>2, <2>3 DEF Legal, CountsFit, WakeFits
<1> QED
  BY <1>1, AlwaysLegal, PTL
=============================================================================
