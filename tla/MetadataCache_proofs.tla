------------------------ MODULE MetadataCache_proofs ------------------------
(***************************************************************************)
(* Proofs of type correctness, of the exclusion of savers and of the       *)
(* authority rule of MetadataCache.                                        *)
(***************************************************************************)
EXTENDS MetadataCache, TLAPS

------------------------------------------------------------------------------
\* Types

\* A step of readEntry keeps the types.
LEMMA ReadTypes ==
  ASSUME TypeOK, NEW p \in Activities, ReadStep(p)
  PROVE  TypeOK'
<1> USE CacheAssumption DEF TypeOK, ReadStates, FileStates, entryVars, lockVars, saveVars, readVars,
      ReadQuietly, ReadRemoves, ReadGoto, Disturb, RemoveManifest, RemoveFile
<1>1. CASE ReadManifest(p) BY <1>1 DEF ReadManifest
<1>2. CASE StatPayload(p) BY <1>2 DEF StatPayload
<1>3. CASE DropManifest(p) BY <1>3 DEF DropManifest
<1>4. CASE ReadPayload(p) BY <1>4, ZenonT(60) DEF ReadPayload
<1>5. CASE RecheckManifest(p) BY <1>5, ZenonT(60) DEF RecheckManifest
<1>6. CASE Quarantine(p) BY <1>6 DEF Quarantine
<1>7. CASE SetAside(p) BY <1>7 DEF SetAside
<1>8. CASE ReadFails(p) BY <1>8 DEF ReadFails
<1> QED BY <1>1, <1>2, <1>3, <1>4, <1>5, <1>6, <1>7, <1>8 DEF ReadStep

\* A step of a save inside the critical section keeps the types.
LEMMA PublishTypes ==
  ASSUME TypeOK, NEW p \in Savers, PublishStep(p)
  PROVE  TypeOK'
<1> USE CacheAssumption DEF TypeOK, SaverStates, ReadStates, FileStates, entryVars, lockVars, readVars,
      OnEntry, Goto, StartRead, EndRead, RemoveFile, Activities
<1>1. CASE Compare(p)
  <2>1. retried' \in [Activities -> BOOLEAN] BY <1>1 DEF Compare
  <2>2. rd' \in [Activities -> ReadStates] BY <1>1 DEF Compare
  <2>3. current' \in [Savers -> Manifests \union {NoManifest}] /\ current'[p] = manifest
    BY <1>1 DEF Compare
  <2>4. CASE manifest = NoManifest
    <3>1. pc' = [pc EXCEPT ![p] = "write"] /\ UNCHANGED <<rd, seen>>
      BY <1>1, <2>4 DEF Compare, Superseded, Outranks
    <3> QED BY <1>1, <2>1, <2>3, <3>1 DEF Compare
  <2>5. CASE manifest \in Manifests BY <1>1, <2>1, <2>2, <2>3, <2>5, SMTT(60) DEF Compare
  <2> QED BY <2>4, <2>5
<1>2. CASE Confirmed(p) BY <1>2 DEF Confirmed
<1>3. CASE RewriteManifest(p) BY <1>3 DEF RewriteManifest
<1>4. CASE ReadPrevious(p) BY <1>4 DEF ReadPrevious
<1>5. CASE RenamePayload(p) BY <1>5 DEF RenamePayload
<1>6. CASE RenameManifest(p)
  <2>1. snap[p].content \in Contents /\ snap[p].captured \in Int
    BY DEF Contents
  <2>2. writer[p] \in 1..MaxSaves
    BY <1>6 DEF RenameManifest
  <2>3. manifest' \in Manifests
    BY <1>6, <2>1, <2>2 DEF RenameManifest, Manifests
  <2> QED BY <1>6, <2>3 DEF RenameManifest
<1>7. CASE RetirePrevious(p) BY <1>7 DEF RetirePrevious
<1>8. CASE SaveFails(p) BY <1>8 DEF SaveFails
<1>9. CASE Verify(p)
  <2>1. pc[p] = "verify" /\ UNCHANGED <<manifest, file, lock, stale, snap, writer, current,
          saves, todo, visits, damage, disturbed>>
    BY <1>9 DEF Verify
  <2>2. CASE pc' = [pc EXCEPT ![p] = "check"] /\ StartRead(p) BY <2>1, <2>2
  <2>3. CASE pc' = [pc EXCEPT ![p] = "unlock"] /\ UNCHANGED readVars
    <3>1. UNCHANGED <<rd, seen, retried>> BY <2>3
    <3>2. rd[p] = "none" \/ pc[p] \in {"load", "confirm", "check"} OBVIOUS
    <3>3. rd[p] = "none" BY <2>1, <3>2
    <3> QED BY <2>1, <2>3, <3>1, <3>3
  <2> QED BY <1>9, <2>2, <2>3 DEF Verify
<1>10. CASE Checked(p) BY <1>10 DEF Checked
<1>11. CASE CompareBlind(p)
  <2>1. damage' \in 0..MaxDamage /\ disturbed' \subseteq {"lock", "file", "read"}
    BY <1>11 DEF CompareBlind, Fault
  <2>2. pc' = [pc EXCEPT ![p] = "write"] /\ UNCHANGED <<manifest, file, lock, stale, snap, writer,
          current, saves, rd, seen, retried, todo, visits>>
    BY <1>11 DEF CompareBlind, saveVars
  <2>3. pc[p] = "compare" BY <1>11 DEF CompareBlind
  <2> QED BY <2>1, <2>2, <2>3
<1>12. CASE ReadPreviousBlind(p) BY <1>12 DEF ReadPreviousBlind, Fault
<1> QED BY <1>1, <1>2, <1>3, <1>4, <1>5, <1>6, <1>7, <1>8, <1>9, <1>10, <1>11, <1>12 DEF PublishStep

\* The beginning of a save, its steps on the lock and its end keep the types.
LEMMA SaverTypes ==
  ASSUME TypeOK, NEW p \in Savers,
         (\E s \in Snapshots : SaveNow(p, s)) \/ LockStep(p) \/ Crash(p)
  PROVE  TypeOK'
<1> USE CacheAssumption DEF TypeOK, SaverStates, ReadStates, FileStates, entryVars, lockVars, readVars,
      saveLocals, OffEntry, Goto, Leave, EndRead, Activities
<1>0. AnySnapshot \in Snapshots BY DEF AnySnapshot
<1>1. CASE \E s \in Snapshots : SaveNow(p, s) BY <1>1 DEF SaveNow
<1>2. CASE TakeLock(p) BY <1>2 DEF TakeLock
<1>3. CASE SeeStale(p) BY <1>3 DEF SeeStale
<1>4. CASE StealLock(p) BY <1>4 DEF StealLock, RemoveLockAs
<1>5. CASE LockTimeout(p) BY <1>0, <1>5 DEF LockTimeout
<1>6. CASE Unlock(p)
  <2>1. disturbed' \subseteq {"lock", "file", "read"} BY <1>6 DEF Unlock, RemoveLockAs
  <2>2. lock' = Nobody /\ stale' = FALSE BY <1>6 DEF Unlock, RemoveLockAs
  <2>3. snap' \in [Savers -> Snapshots] /\ writer' \in [Savers -> 0..MaxSaves]
    BY <1>0, <1>6 DEF Unlock
  <2>4. current' \in [Savers -> Manifests \union {NoManifest}] BY <1>6 DEF Unlock
  <2>5. pc' = [pc EXCEPT ![p] = "idle"] /\ writer' = [writer EXCEPT ![p] = 0]
        /\ current' = [current EXCEPT ![p] = NoManifest]
    BY <1>6 DEF Unlock
  <2>6. pc[p] = "unlock" /\ UNCHANGED <<entryVars, saves, readVars, todo, visits, damage>>
    BY <1>6 DEF Unlock
  <2> HIDE DEF Goto, Leave, OffEntry
  <2> QED BY <2>1, <2>2, <2>3, <2>4, <2>5, <2>6
<1>7. CASE Crash(p) BY <1>0, <1>7 DEF Crash
<1> QED BY <1>1, <1>2, <1>3, <1>4, <1>5, <1>6, <1>7 DEF LockStep

\* A step of a sweeper keeps the types.
LEMMA SweepTypes ==
  ASSUME TypeOK, NEW p \in Sweepers, SweepStep(p)
  PROVE  TypeOK'
<1> USE CacheAssumption DEF TypeOK, SweeperStates, FileStates, entryVars, lockVars, saveVars, readVars,
      SweepQuietly, SweepBegins, Visit, Goto, Disturb, RemoveManifest, Activities
<1>1. CASE ClearEntry(p) BY <1>1 DEF ClearEntry
<1>2. CASE ListFiles(p) BY <1>2 DEF ListFiles, Listed
<1>3. CASE Scan(p) BY <1>3 DEF Scan, Listed
<1>4. CASE ScanLeftovers(p) BY <1>4 DEF ScanLeftovers, Leftovers
<1>5. CASE UnlinkScanned(p) BY <1>5 DEF UnlinkScanned
<1>6. CASE SweepLock(p) BY <1>6 DEF SweepLock, RemoveLockAs
<1>7. CASE Swept(p) BY <1>7 DEF Swept
<1>8. CASE \E c \in Contents : SweepFile(p, c) BY <1>8 DEF SweepFile, RemoveFile
<1> QED BY <1>1, <1>2, <1>3, <1>4, <1>5, <1>6, <1>7, <1>8 DEF SweepStep

\* A load, and what happens to the files and to the clock, keep the types.
LEMMA OtherTypes ==
  ASSUME TypeOK,
         (\E p \in Readers : Load(p) \/ Loaded(p)) \/ LockAges \/ \E c \in Contents : Damaged(c)
  PROVE  TypeOK'
<1> USE CacheAssumption DEF TypeOK, ReadStates, FileStates, entryVars, lockVars, saveVars, readVars,
      Goto, Visit, Disturb, StartRead, EndRead, Activities
<1>1. ASSUME NEW p \in Readers, Load(p) PROVE TypeOK' BY <1>1 DEF Load
<1>2. ASSUME NEW p \in Readers, Loaded(p) PROVE TypeOK'
  <2>1. retried' \in [Activities -> BOOLEAN] BY <1>2 DEF Loaded
  <2>2. pc' \in [Activities -> SaverStates \union SweeperStates \union {"load"}]
    BY <1>2 DEF Loaded, SweeperStates
  <2>3. \A q \in Activities \ Savers : pc'[q] \in SweeperStates \union {"load"}
    BY <1>2 DEF Loaded, SweeperStates
  <2> QED BY <1>2, <2>1, <2>2, <2>3 DEF Loaded
<1>3. CASE LockAges BY <1>3 DEF LockAges
<1>4. CASE \E c \in Contents : Damaged(c) BY <1>4 DEF Damaged, Fault
<1> QED BY <1>1, <1>2, <1>3, <1>4

\* The variables of the cache have their types; a save that compares or
\* rewrites has a manifest, a reader past its first read has one, and only a
\* load or a save that verifies reads.
THEOREM CacheTypes == Spec => []TypeOK
<1>1. Init => TypeOK
  <2> SUFFICES ASSUME Init PROVE TypeOK OBVIOUS
  <2>1. AnySnapshot \in Snapshots BY CacheAssumption DEF AnySnapshot
  <2>2. retried \in [Activities -> BOOLEAN] /\ stale \in BOOLEAN BY DEF Init
  <2>3. pc \in [Activities -> SaverStates \union SweeperStates \union {"load"}]
    BY DEF Init, SaverStates
  <2>4. \A p \in Activities \ Savers : pc[p] \in SweeperStates \union {"load"}
    BY DEF Init, SweeperStates
  <2>5. 0 \in 0..MaxSaves /\ 0 \in 0..MaxVisits /\ 0 \in 0..MaxDamage BY CacheAssumption
  <2> QED BY <2>1, <2>2, <2>3, <2>4, <2>5, CacheAssumption DEF Init, TypeOK, ReadStates, FileStates, Activities
<1>2. TypeOK /\ [Next]_vars => TypeOK'
  <2> SUFFICES ASSUME TypeOK, [Next]_vars PROVE TypeOK' OBVIOUS
  <2>1. CASE UNCHANGED vars
    BY <2>1 DEF TypeOK, vars, entryVars, lockVars, saveVars, readVars
  <2>2. CASE Next
    BY <2>2, ReadTypes, PublishTypes, SaverTypes, SweepTypes, OtherTypes DEF Next
  <2> QED BY <2>1, <2>2
<1> QED BY <1>1, <1>2, PTL DEF Spec

------------------------------------------------------------------------------
\* Exclusion

\* Steps that touch neither a lock in use nor the place of a save keep it.
LEMMA StillOnePublisher ==
  ASSUME OnePublisher, disturbed \subseteq disturbed', lock' = lock,
         \A q \in Savers : pc'[q] \in Critical => pc[q] \in Critical
  PROVE  OnePublisher'
BY DEF OnePublisher

\* Removing the lock file is noted when the activity it belongs to is between
\* compare and unlock.
LEMMA RemovalsAreNoted ==
  ASSUME TypeOK, OnePublisher, NEW p, RemoveLockAs(p),
         \A q \in Savers : pc'[q] \in Critical => pc[q] \in Critical /\ q # p
  PROVE  OnePublisher'
<1> SUFFICES ASSUME "lock" \notin disturbed', NEW q \in Savers, pc'[q] \in Critical
             PROVE  FALSE
  BY DEF OnePublisher
<1>1. "lock" \notin disturbed BY DEF RemoveLockAs
<1>2. lock = q BY <1>1 DEF OnePublisher
<1>3. q # Nobody BY CacheAssumption DEF Activities
<1> QED BY <1>2, <1>3 DEF RemoveLockAs

\* The exclusion is inductive.
LEMMA OnePublisherStep ==
  ASSUME TypeOK, OnePublisher, [Next]_vars
  PROVE  OnePublisher'
<1> USE CacheAssumption DEF entryVars, lockVars, saveVars, readVars, saveLocals, Goto, Activities
<1>1. CASE UNCHANGED vars BY <1>1, StillOnePublisher DEF vars
<1>2. ASSUME NEW p \in Savers, NEW s \in Snapshots, SaveNow(p, s) PROVE OnePublisher'
  BY <1>2, StillOnePublisher DEF SaveNow, TypeOK, Critical
<1>3. ASSUME NEW p \in Savers, LockStep(p) PROVE OnePublisher'
  <2>1. CASE TakeLock(p)
    <3>1. "lock" \notin disturbed => \A q \in Savers : pc[q] \notin Critical
      BY <2>1 DEF TakeLock, OnePublisher
    <3> QED BY <2>1, <3>1 DEF TakeLock, OnePublisher, TypeOK
  <2>2. CASE SeeStale(p) BY <2>2, StillOnePublisher DEF SeeStale, TypeOK, Critical
  <2>3. CASE StealLock(p)
    <3>1. \A q \in Savers : pc'[q] \in Critical => pc[q] \in Critical /\ q # p
      BY <2>3 DEF StealLock, TypeOK, Critical
    <3> QED BY <2>3, <3>1, RemovalsAreNoted DEF StealLock
  <2>4. CASE LockTimeout(p) BY <2>4, StillOnePublisher DEF LockTimeout, Leave, TypeOK, Critical
  <2>5. CASE Unlock(p)
    <3>1. \A q \in Savers : pc'[q] \in Critical => pc[q] \in Critical /\ q # p
      BY <2>5 DEF Unlock, Leave, TypeOK, Critical
    <3> QED BY <2>5, <3>1, RemovalsAreNoted DEF Unlock
  <2> QED BY <1>3, <2>1, <2>2, <2>3, <2>4, <2>5 DEF LockStep
<1>4. ASSUME NEW p \in Savers, PublishStep(p) PROVE OnePublisher'
  <2>1. lock' = lock /\ disturbed \subseteq disturbed'
    BY <1>4 DEF PublishStep, Compare, CompareBlind, Confirmed, RewriteManifest, ReadPrevious,
      ReadPreviousBlind, RenamePayload, RenameManifest, RetirePrevious, SaveFails, Verify, Checked, OnEntry
  <2>2. pc[p] \in Critical /\ \A q \in Savers : q # p => pc'[q] = pc[q]
    BY <1>4 DEF PublishStep, Compare, CompareBlind, ReadPreviousBlind, Confirmed, RewriteManifest, ReadPrevious, RenamePayload,
      RenameManifest, RetirePrevious, SaveFails, Verify, Checked, TypeOK, Critical, SaverStates
  <2> QED BY <2>1, <2>2, StillOnePublisher
<1>5. ASSUME NEW p \in Savers, Crash(p) PROVE OnePublisher'
  BY <1>5, StillOnePublisher DEF Crash, Leave, TypeOK, Critical
<1>6. ASSUME NEW p \in Readers, Load(p) \/ Loaded(p) PROVE OnePublisher'
  BY <1>6, StillOnePublisher DEF Load, Loaded, TypeOK, Critical
<1>7. ASSUME NEW p \in Activities, ReadStep(p) PROVE OnePublisher'
  <2>1. lock' = lock /\ pc' = pc /\ disturbed \subseteq disturbed'
    BY <1>7 DEF ReadStep, ReadManifest, StatPayload, DropManifest, ReadPayload, RecheckManifest,
      Quarantine, SetAside, ReadFails, ReadQuietly, ReadRemoves, Disturb
  <2> QED BY <2>1, StillOnePublisher
<1>8. ASSUME NEW p \in Sweepers, SweepStep(p) PROVE OnePublisher'
  <2>1. \A q \in Savers : pc'[q] = pc[q] /\ q # p
    BY <1>8 DEF SweepStep, ClearEntry, ListFiles, Scan, ScanLeftovers, UnlinkScanned, SweepLock,
      Swept, SweepFile, TypeOK
  <2>2. CASE SweepLock(p)
    BY <2>1, <2>2, RemovalsAreNoted DEF SweepLock
  <2>3. CASE ~SweepLock(p)
    <3>1. lock' = lock /\ disturbed \subseteq disturbed'
      BY <1>8, <2>3 DEF SweepStep, ClearEntry, ListFiles, Scan, ScanLeftovers, UnlinkScanned,
        Swept, SweepFile, Disturb
    <3> QED BY <2>1, <3>1, StillOnePublisher
  <2> QED BY <2>2, <2>3
<1>9. CASE LockAges BY <1>9, StillOnePublisher DEF LockAges
<1>10. ASSUME NEW c \in Contents, Damaged(c) PROVE OnePublisher'
  BY <1>10, StillOnePublisher DEF Damaged, Disturb
<1> QED BY <1>1, <1>2, <1>3, <1>4, <1>5, <1>6, <1>7, <1>8, <1>9, <1>10 DEF Next

\* For any number of windows: until a lock in use is removed, the save between
\* compare and unlock is the one whose lock file is there.
THEOREM SavesExclude == Spec => []OnePublisher
<1>1. Init => OnePublisher
  BY CacheAssumption DEF Init, OnePublisher, Critical, Activities
<1>2. Spec => []OnePublisher
  BY <1>1, OnePublisherStep, CacheTypes, PTL DEF Spec
<1> QED BY <1>2

------------------------------------------------------------------------------
\* Authority

\* What a save has decided by comparing is still so when it publishes: the
\* manifest does not outrank its snapshot unless the save could not read it, or
\* it is the one the save confirmed.
Authority ==
  "lock" \notin disturbed =>
    \A p \in Savers :
      /\ pc[p] \in {"write", "payload", "publish"} =>
           "read" \in disturbed \/ ~Outranks(manifest, snap[p])
      /\ pc[p] \in {"confirm", "rewrite"} =>
           manifest \in {NoManifest, current[p]} /\ current[p].content = snap[p].content

\* Only two steps put a manifest in place.
LEMMA ManifestChanges ==
  ASSUME [Next]_vars, manifest' # manifest, manifest' # NoManifest
  PROVE  \E p \in Savers : RewriteManifest(p) \/ RenameManifest(p)
<1> USE DEF entryVars
<1>1. ~UNCHANGED vars BY DEF vars
<1>2. ASSUME NEW p \in Savers, \E s \in Snapshots : SaveNow(p, s) PROVE FALSE
  BY <1>2 DEF SaveNow
<1>3. ASSUME NEW p \in Savers, LockStep(p) \/ Crash(p) PROVE FALSE
  BY <1>3 DEF LockStep, TakeLock, SeeStale, StealLock, LockTimeout, Unlock, OffEntry, Crash
<1>4. ASSUME NEW p \in Savers, PublishStep(p) PROVE RewriteManifest(p) \/ RenameManifest(p)
  BY <1>4 DEF PublishStep, Compare, CompareBlind, Confirmed, ReadPrevious, ReadPreviousBlind, RenamePayload, RetirePrevious,
    SaveFails, Verify, Checked
<1>5. ASSUME NEW p \in Readers, Load(p) \/ Loaded(p) PROVE FALSE
  BY <1>5 DEF Load, Loaded
<1>6. ASSUME NEW p \in Activities, ReadStep(p) PROVE FALSE
  BY <1>6 DEF ReadStep, ReadManifest, StatPayload, DropManifest, ReadPayload, RecheckManifest,
    Quarantine, SetAside, ReadFails, ReadQuietly, RemoveManifest
<1>7. ASSUME NEW p \in Sweepers, SweepStep(p) PROVE FALSE
  BY <1>7 DEF SweepStep, ClearEntry, ListFiles, Scan, ScanLeftovers, UnlinkScanned, SweepLock,
    Swept, SweepFile, RemoveManifest
<1>8. ~LockAges BY DEF LockAges
<1>9. ASSUME NEW c \in Contents, Damaged(c) PROVE FALSE BY <1>9 DEF Damaged
<1> QED BY <1>1, <1>2, <1>3, <1>4, <1>5, <1>6, <1>7, <1>8, <1>9 DEF Next

\* A save that is at one of the places Authority speaks of was there before
\* with the same snapshot, or has just come there by a step of its own.
LEMMA PlacesKept ==
  ASSUME TypeOK, [Next]_vars, NEW p \in Savers, ~PublishStep(p),
         pc'[p] \in {"write", "payload", "publish", "confirm", "rewrite", "retire"}
  PROVE  pc'[p] = pc[p] /\ snap'[p] = snap[p] /\ current'[p] = current[p]
<1> DEFINE Kept == pc'[p] = pc[p] /\ snap'[p] = snap[p] /\ current'[p] = current[p]
<1> USE CacheAssumption DEF TypeOK, Goto, saveVars, saveLocals, Activities
<1>1. CASE UNCHANGED vars BY <1>1 DEF vars
<1>2. ASSUME NEW q \in Savers, \E s \in Snapshots : SaveNow(q, s) PROVE Kept
  BY <1>2 DEF SaveNow
<1>3. ASSUME NEW q \in Savers, LockStep(q) \/ Crash(q) PROVE Kept
  BY <1>3 DEF LockStep, TakeLock, SeeStale, StealLock, LockTimeout, Unlock, Crash, Leave
<1>4. ASSUME NEW q \in Savers, PublishStep(q), q # p PROVE Kept
  BY <1>4 DEF PublishStep, Compare, CompareBlind, Confirmed, RewriteManifest, ReadPrevious,
    ReadPreviousBlind, RenamePayload, RenameManifest, RetirePrevious, SaveFails, Verify, Checked, OnEntry
<1>5. ASSUME NEW q \in Readers, Load(q) \/ Loaded(q) PROVE Kept
  BY <1>5 DEF Load, Loaded
<1>6. ASSUME NEW q \in Activities, ReadStep(q) PROVE Kept
  BY <1>6 DEF ReadStep, ReadManifest, StatPayload, DropManifest, ReadPayload, RecheckManifest,
    Quarantine, SetAside, ReadFails, ReadQuietly, ReadRemoves
<1>7. ASSUME NEW q \in Sweepers, SweepStep(q) PROVE Kept
  BY <1>7 DEF SweepStep, ClearEntry, ListFiles, Scan, ScanLeftovers, UnlinkScanned, SweepLock,
    Swept, SweepFile, SweepQuietly, SweepBegins
<1>8. CASE LockAges BY <1>8 DEF LockAges
<1>9. CASE \E c \in Contents : Damaged(c) BY <1>9 DEF Damaged
<1> QED BY <1>1, <1>2, <1>3, <1>4, <1>5, <1>6, <1>7, <1>8, <1>9 DEF Next

\* What has been noted stays noted.
LEMMA NotesStay ==
  ASSUME [Next]_vars
  PROVE  disturbed \subseteq disturbed'
BY DEF Next, vars, LockStep, PublishStep, ReadStep, SweepStep, SaveNow, TakeLock, SeeStale, StealLock,
  LockTimeout, Unlock, RemoveLockAs, Compare, CompareBlind, Confirmed, RewriteManifest, ReadPrevious,
  ReadPreviousBlind, RenamePayload,
  RenameManifest, RetirePrevious, SaveFails, Verify, Checked, OnEntry, Crash, Load, Loaded,
  ReadManifest, StatPayload, DropManifest, ReadPayload, RecheckManifest, Quarantine, SetAside,
  ReadFails, ReadQuietly, ReadRemoves, Disturb, ClearEntry, ListFiles, Scan, ScanLeftovers,
  UnlinkScanned, SweepLock, Swept, SweepFile, LockAges, Damaged

\* Authority is inductive given the exclusion.
LEMMA AuthorityStep ==
  ASSUME TypeOK, OnePublisher, Authority, [Next]_vars
  PROVE  Authority'
<1> SUFFICES ASSUME "lock" \notin disturbed', NEW p \in Savers
             PROVE  /\ pc'[p] \in {"write", "payload", "publish"} =>
                         "read" \in disturbed' \/ ~Outranks(manifest', snap'[p])
                    /\ pc'[p] \in {"confirm", "rewrite"} =>
                         /\ manifest' \in {NoManifest, current'[p]}
                         /\ current'[p].content = snap'[p].content
  BY DEF Authority, Outranks
<1>1. "lock" \notin disturbed BY NotesStay
<1>2. CASE PublishStep(p)
  <2> USE <1>1, <1>2 DEF TypeOK, Goto, OnEntry, Authority, entryVars, Activities
  <2>1. CASE Compare(p)
    BY <2>1 DEF Compare, Superseded, Outranks
  <2>2. CASE Confirmed(p)
    BY <2>2 DEF Confirmed, Outranks
  <2>3. CASE ReadPrevious(p) BY <2>3 DEF ReadPrevious, Outranks
  <2>4. CASE RenamePayload(p) BY <2>4 DEF RenamePayload, Outranks
  <2>5. CASE CompareBlind(p) BY <2>5 DEF CompareBlind
  <2>6. CASE ReadPreviousBlind(p) BY <2>6 DEF ReadPreviousBlind, Outranks
  <2>7. CASE RewriteManifest(p) \/ RenameManifest(p) \/ RetirePrevious(p) \/ SaveFails(p)
             \/ Verify(p) \/ Checked(p)
    BY <2>7 DEF RewriteManifest, RenameManifest, RetirePrevious, SaveFails, Verify, Checked
  <2> QED BY <1>2, <2>1, <2>2, <2>3, <2>4, <2>5, <2>6, <2>7 DEF PublishStep
<1>3. CASE ~PublishStep(p)
  <2> SUFFICES ASSUME pc'[p] \in {"write", "payload", "publish", "confirm", "rewrite"}
               PROVE  manifest' \in {manifest, NoManifest}
    BY <1>1, <1>3, NotesStay, PlacesKept DEF Authority, Outranks
  <2>1. pc[p] \in Critical BY <1>3, PlacesKept DEF Critical, SaverStates
  <2>2. ASSUME NEW q \in Savers, RewriteManifest(q) \/ RenameManifest(q) PROVE FALSE
    <3>1. q # p BY <1>3, <2>2 DEF PublishStep
    <3>2. pc[q] \in Critical BY <2>2 DEF RewriteManifest, RenameManifest, Critical, SaverStates
    <3> QED BY <1>1, <2>1, <3>1, <3>2 DEF OnePublisher
  <2> QED BY <2>2, ManifestChanges
<1> QED BY <1>2, <1>3

\* For any number of windows, captures and clocks: until a lock in use is
\* removed or a save compares blind, no save replaces a content that outranks
\* its own.
THEOREM NewestStays == Spec => NewestWins
<1>1. Init => Authority
  BY CacheAssumption DEF Init, Authority, Activities
<1>2. Spec => [](TypeOK /\ OnePublisher /\ Authority)
  BY <1>1, AuthorityStep, CacheTypes, SavesExclude, PTL DEF Spec
<1>3. ASSUME TypeOK, OnePublisher, Authority, [Next]_vars
      PROVE  [(disturbed \subseteq {"file"} /\ manifest' # NoManifest)
                => ~Outranks(manifest, [content |-> manifest'.content,
                                        captured |-> manifest'.captured])]_vars
  <2> SUFFICES ASSUME "lock" \notin disturbed, "read" \notin disturbed,
                      manifest' # NoManifest, manifest' # manifest
               PROVE  ~Outranks(manifest, [content |-> manifest'.content,
                                           captured |-> manifest'.captured])
    BY <1>3 DEF Outranks
  <2>1. PICK p \in Savers : RewriteManifest(p) \/ RenameManifest(p)
    BY <1>3, ManifestChanges
  <2>2. CASE RewriteManifest(p)
    BY <1>3, <2>2 DEF RewriteManifest, Authority, Outranks
  <2>3. CASE RenameManifest(p)
    <3>1. ~Outranks(manifest, snap[p])
      BY <1>3, <2>3 DEF RenameManifest, Authority
    <3> QED BY <2>3, <3>1 DEF RenameManifest, Outranks
  <2> QED BY <2>1, <2>2, <2>3
<1> QED BY <1>2, <1>3, PTL DEF Spec, NewestWins

------------------------------------------------------------------------------
\* Publication

\* While nobody interferes, a save about to publish has its payload in place,
\* and one that has published is what the manifest says.
InPlace ==
  disturbed \subseteq {"read"} =>
    \A p \in Savers :
      /\ pc[p] = "publish" => file[snap[p].content] = "good"
      /\ pc[p] = "retire" => /\ manifest # NoManifest
                             /\ manifest.content = snap[p].content

\* While nobody interferes, only saves change the entry.
LEMMA EntryChanges ==
  ASSUME TypeOK, [Next]_vars, disturbed' \subseteq {"read"}, <<manifest, file>>' # <<manifest, file>>
  PROVE  \E p \in Savers : RewriteManifest(p) \/ RenamePayload(p) \/ RenameManifest(p)
                             \/ RetirePrevious(p)
<1> USE DEF entryVars
<1>1. ~UNCHANGED vars BY DEF vars
<1>2. ASSUME NEW p \in Savers, (\E s \in Snapshots : SaveNow(p, s)) \/ LockStep(p) \/ Crash(p) PROVE FALSE
  BY <1>2 DEF SaveNow, LockStep, TakeLock, SeeStale, StealLock, LockTimeout, Unlock, OffEntry, Crash
<1>3. ASSUME NEW p \in Savers, PublishStep(p)
      PROVE RewriteManifest(p) \/ RenamePayload(p) \/ RenameManifest(p) \/ RetirePrevious(p)
  BY <1>3 DEF PublishStep, Compare, CompareBlind, Confirmed, ReadPrevious, ReadPreviousBlind, SaveFails, Verify, Checked
<1>4. ASSUME NEW p \in Readers, Load(p) \/ Loaded(p) PROVE FALSE
  BY <1>4 DEF Load, Loaded
<1>5. ASSUME NEW p \in Activities, ReadStep(p) PROVE FALSE
  BY <1>5 DEF ReadStep, ReadManifest, StatPayload, DropManifest, ReadPayload, RecheckManifest,
    Quarantine, SetAside, ReadFails, ReadQuietly, ReadRemoves, Disturb
<1>6. ASSUME NEW p \in Sweepers, SweepStep(p) PROVE FALSE
  BY <1>6 DEF SweepStep, ClearEntry, ListFiles, Scan, ScanLeftovers, UnlinkScanned, SweepLock,
    Swept, SweepFile, Disturb
<1>7. ~LockAges BY DEF LockAges
<1>8. ASSUME NEW c \in Contents, Damaged(c) PROVE FALSE BY <1>8 DEF Damaged, Disturb
<1> QED BY <1>1, <1>2, <1>3, <1>4, <1>5, <1>6, <1>7, <1>8 DEF Next

\* While nobody interferes, at most one save changes the entry.
LEMMA OneAtATime ==
  ASSUME OnePublisher, disturbed \subseteq {"read"}, NEW p \in Savers, NEW q \in Savers,
         pc[p] \in Critical, pc[q] \in Critical
  PROVE  p = q
BY DEF OnePublisher

\* InPlace is inductive given the exclusion.
LEMMA InPlaceStep ==
  ASSUME TypeOK, OnePublisher, InPlace, [Next]_vars
  PROVE  InPlace'
<1> SUFFICES ASSUME disturbed' \subseteq {"read"}, NEW p \in Savers
             PROVE  /\ pc'[p] = "publish" => file'[snap'[p].content] = "good"
                    /\ pc'[p] = "retire" => /\ manifest' # NoManifest
                                            /\ manifest'.content = snap'[p].content
  BY DEF InPlace
<1>1. disturbed \subseteq {"read"} BY NotesStay
<1>2. CASE PublishStep(p)
  <2> USE <1>1, <1>2, CacheAssumption DEF TypeOK, Goto, OnEntry, InPlace, Contents, Activities
  <2>1. CASE RenamePayload(p) BY <2>1 DEF RenamePayload
  <2>2. CASE RenameManifest(p)
    <3>1. snap[p].content \in Contents /\ snap[p].captured \in Int
      BY DEF Contents
    <3>2. manifest' \in Manifests BY <2>2, <3>1 DEF RenameManifest, Manifests
    <3> QED BY <2>2, <3>2 DEF RenameManifest
  <2>3. CASE ~RenamePayload(p) /\ ~RenameManifest(p)
    BY <2>3 DEF PublishStep, Compare, CompareBlind, Confirmed, RewriteManifest, ReadPrevious,
      ReadPreviousBlind, RetirePrevious,
      SaveFails, Verify, Checked
  <2> QED BY <2>1, <2>2, <2>3
<1>3. CASE ~PublishStep(p)
  <2> SUFFICES ASSUME pc'[p] \in {"publish", "retire"}
               PROVE  <<manifest, file>>' = <<manifest, file>>
    BY <1>1, <1>3, PlacesKept DEF InPlace
  <2>1. pc[p] \in Critical BY <1>3, PlacesKept DEF Critical, SaverStates
  <2>2. ASSUME NEW q \in Savers, RewriteManifest(q) \/ RenamePayload(q) \/ RenameManifest(q)
                                   \/ RetirePrevious(q)
        PROVE FALSE
    <3>1. pc[q] \in Critical
      BY <2>2 DEF RewriteManifest, RenamePayload, RenameManifest, RetirePrevious, Critical, SaverStates
    <3>2. p = q BY <1>1, <2>1, <3>1, OneAtATime
    <3> QED BY <1>3, <2>2, <3>2 DEF PublishStep
  <2> QED BY <2>2, EntryChanges
<1> QED BY <1>2, <1>3

\* For any number of windows: while nobody else touches the files, an entry
\* that can be read stays readable, whatever save stops wherever.
THEOREM EntriesSurviveSaves == Spec => PublishingKeepsTheEntry
<1>1. Init => Authority /\ InPlace
  BY CacheAssumption DEF Init, Authority, InPlace, Activities
<1>2. Spec => [](TypeOK /\ OnePublisher /\ Authority /\ InPlace)
  BY <1>1, AuthorityStep, InPlaceStep, CacheTypes, SavesExclude, PTL DEF Spec
<1>3. ASSUME TypeOK, OnePublisher, Authority, InPlace, [Next]_vars
      PROVE  [Readable /\ disturbed' \subseteq {"read"} => Readable']_vars
  <2> SUFFICES ASSUME Readable, disturbed' \subseteq {"read"}, <<manifest, file>>' # <<manifest, file>>
               PROVE  Readable'
    BY DEF Readable
  <2>1. disturbed \subseteq {"read"} BY <1>3, NotesStay
  <2>2. PICK p \in Savers : RewriteManifest(p) \/ RenamePayload(p) \/ RenameManifest(p)
                              \/ RetirePrevious(p)
    BY <1>3, EntryChanges
  <2> USE <1>3, <2>1 DEF Readable, TypeOK, Contents
  <2>3. CASE RewriteManifest(p) BY <2>3 DEF RewriteManifest, Authority
  <2>4. CASE RenamePayload(p) BY <2>4 DEF RenamePayload
  <2>5. CASE RenameManifest(p)
    <3>1. snap[p].content \in Contents /\ snap[p].captured \in Int
      BY CacheAssumption
    <3>2. writer[p] \in 1..MaxSaves BY <2>5 DEF RenameManifest
    <3>3. manifest' \in Manifests BY <2>5, <3>1, <3>2 DEF RenameManifest, Manifests
    <3> QED BY <2>5, <3>3, CacheAssumption DEF RenameManifest, InPlace
  <2>6. CASE RetirePrevious(p) BY <2>6 DEF RetirePrevious, RemoveFile, InPlace
  <2> QED BY <2>2, <2>3, <2>4, <2>5, <2>6
<1> QED BY <1>2, <1>3, PTL DEF Spec, PublishingKeepsTheEntry

==============================================================================
