---------------------------- MODULE MetadataCache ----------------------------
(***************************************************************************)
(* One entry of the metadata disk cache: a manifest, payload files named   *)
(* by their content, and a publication lock, in a directory that several   *)
(* extension hosts share (services/metadata/cache/metadataCacheStore.ts    *)
(* and the saves of metadataCacheCoordinator.ts).                          *)
(*                                                                         *)
(* An activity is one asynchronous call: a save, a load, or a clear or     *)
(* eviction pass.  Its window is not named, because windows share nothing  *)
(* but the directory.  A step is one file operation.  Temporary files have *)
(* unique names nobody reads: writing one belongs to the rename that       *)
(* publishes it.  The index is a hint of its own and is left out.          *)
(***************************************************************************)
EXTENDS Integers

CONSTANTS
  Savers, Readers, Sweepers,  \* activities: saveNow; load; clear and eviction
  Snapshots,       \* what may be saved: content (its hash) and capture instant
  SaneUntil,       \* now + MAX_FUTURE_CLOCK_SKEW_MS
  MaxSaves,        \* bound on the saves of a run
  MaxVisits,       \* bound on loads and sweeps
  MaxDamage,       \* bound on payload files the disk damages and manifests
                   \* of others that a save cannot read
  NoManifest,      \* manifest.json is not there
  Nobody           \* .publication.lock is not there

AnySnapshot == CHOOSE s \in Snapshots : TRUE
Activities == Savers \union Readers \union Sweepers
Contents == {s.content : s \in Snapshots}
Manifests == [content : Contents, captured : Int, writer : 1..MaxSaves]

ASSUME CacheAssumption ==
  /\ Snapshots # {} /\ Snapshots \subseteq [content : Int, captured : Int]
  /\ SaneUntil \in Int /\ MaxSaves \in Nat /\ MaxVisits \in Nat /\ MaxDamage \in Nat
  /\ NoManifest \notin Manifests
  /\ Nobody \notin Activities
  /\ Savers \intersect Readers = {}
  /\ Savers \intersect Sweepers = {}
  /\ Readers \intersect Sweepers = {}

VARIABLES
  manifest,    \* manifest.json
  file,        \* the payload file of each content
  lock,        \* the activity whose exclusive create made .publication.lock
  stale,       \* the lock file is older than PUBLICATION_LOCK_STALE_MS
  pc,          \* where each activity is
  snap,        \* the snapshot a save was called with
  writer,      \* the writerId of a save
  current,     \* the manifest a save found: `current`, then `previous`
  rd,          \* where the activity's readEntry is, or its answer
  seen,        \* the manifest readEntry read
  retried,     \* readEntry has used its retry after a manifest race
  todo,        \* what a sweeper has still to remove
  saves, visits, damage,
  disturbed    \* history: "lock" if a lock in use was removed, "file" if a
               \* reader, a sweeper or the disk took a file away, "read" if
               \* a save could not read the manifest it should compare with

entryVars == <<manifest, file>>
lockVars == <<lock, stale>>
readVars == <<rd, seen, retried>>
saveVars == <<snap, writer, current, saves>>
vars == <<entryVars, lockVars, pc, saveVars, readVars, todo, visits, damage, disturbed>>

FileStates == {"absent", "good", "bad"}   \* bad: of another size or digest
ReadStates == {"none", "manifest", "stat", "payload", "missing", "recheck",
               "quarantine", "aside", "hit", "miss"}
SaverStates == {"idle", "locking", "stealing", "compare", "confirm", "rewrite",
                "write", "payload", "publish", "retire", "verify", "check",
                "unlock"}
SweeperStates == {"idle", "list", "unlink", "sweep"}

\* Inside withEntryLock: from the exclusive create to the `finally`.
Critical == SaverStates \ {"idle", "locking", "stealing"}

TypeOK ==
  /\ manifest \in Manifests \union {NoManifest}
  /\ file \in [Contents -> FileStates]
  /\ lock \in Savers \union {Nobody}
  /\ stale \in BOOLEAN
  /\ pc \in [Activities -> SaverStates \union SweeperStates \union {"load"}]
  /\ \A p \in Activities \ Savers : pc[p] \in SweeperStates \union {"load"}
  /\ snap \in [Savers -> Snapshots]
  /\ saves \in 0..MaxSaves
  /\ writer \in [Savers -> 0..MaxSaves]
  /\ \A p \in Savers : pc[p] # "idle" <=> writer[p] # 0
  /\ current \in [Savers -> Manifests \union {NoManifest}]
  /\ \A p \in Savers : pc[p] \in {"confirm", "rewrite"} => current[p] # NoManifest
  /\ rd \in [Activities -> ReadStates]
  /\ seen \in [Activities -> Manifests \union {NoManifest}]
  /\ \A p \in Activities :
       rd[p] \notin {"none", "manifest", "miss"} => seen[p] # NoManifest
  /\ \A p \in Activities : rd[p] # "none" => pc[p] \in {"load", "confirm", "check"}
  /\ retried \in [Activities -> BOOLEAN]
  /\ todo \in [Sweepers -> SUBSET (Contents \union {Nobody})]
  /\ visits \in 0..MaxVisits /\ damage \in 0..MaxDamage
  /\ disturbed \subseteq {"lock", "file", "read"}

Init ==
  /\ manifest = NoManifest
  /\ file = [c \in Contents |-> "absent"]
  /\ lock = Nobody /\ stale = FALSE
  /\ pc = [p \in Activities |-> "idle"]
  /\ snap = [p \in Savers |-> AnySnapshot]
  /\ writer = [p \in Savers |-> 0]
  /\ current = [p \in Savers |-> NoManifest]
  /\ rd = [p \in Activities |-> "none"]
  /\ seen = [p \in Activities |-> NoManifest]
  /\ retried = [p \in Activities |-> FALSE]
  /\ todo = [p \in Sweepers |-> {}]
  /\ saves = 0 /\ visits = 0 /\ damage = 0 /\ disturbed = {}

Goto(p, place) == pc' = [pc EXCEPT ![p] = place]

RemoveManifest == manifest' = NoManifest
RemoveFile(c) == file' = [file EXCEPT ![c] = "absent"]

\* unlink of the lock file by activity p, whoever made it.
RemoveLockAs(p) ==
  /\ lock' = Nobody /\ stale' = FALSE
  /\ disturbed' = IF lock \notin {p, Nobody} /\ pc[lock] \in Critical
                  THEN disturbed \union {"lock"} ELSE disturbed

Visit == visits < MaxVisits /\ visits' = visits + 1

Disturb == disturbed' = disturbed \union {"file"}

------------------------------------------------------------------------------
\* readEntry, called by a load and twice by a save.

StartRead(p) ==
  /\ rd' = [rd EXCEPT ![p] = "manifest"]
  /\ UNCHANGED <<seen, retried>>

ReadGoto(p, place) ==
  /\ rd' = [rd EXCEPT ![p] = place]
  /\ UNCHANGED <<seen, retried>>

\* The caller takes the answer; the locals of the call are gone.
EndRead(p) ==
  /\ rd' = [rd EXCEPT ![p] = "none"]
  /\ seen' = [seen EXCEPT ![p] = NoManifest]
  /\ retried' = [retried EXCEPT ![p] = FALSE]

ReadQuietly(p) == UNCHANGED <<entryVars, lockVars, pc, saveVars, todo, visits, damage, disturbed>>
ReadRemoves(p) == UNCHANGED <<lockVars, pc, saveVars, todo, visits, damage>> /\ Disturb

\* A mutant: a missing manifest is read as if it were one.
ReadManifestUnchecked(p) ==
  /\ rd[p] = "manifest"
  /\ rd' = [rd EXCEPT ![p] = "stat"]
  /\ seen' = [seen EXCEPT ![p] = manifest]
  /\ UNCHANGED retried
  /\ ReadQuietly(p)

ReadManifest(p) ==
  /\ rd[p] = "manifest"
  /\ rd' = [rd EXCEPT ![p] = IF manifest = NoManifest THEN "miss" ELSE "stat"]
  /\ seen' = [seen EXCEPT ![p] = manifest]
  /\ UNCHANGED retried
  /\ ReadQuietly(p)

StatPayload(p) ==
  /\ rd[p] = "stat"
  /\ \/ file[seen[p].content] = "absent" /\ ReadGoto(p, "missing")
     \/ file[seen[p].content] # "absent" /\ ReadGoto(p, "payload")
     \/ file[seen[p].content] = "bad" /\ ReadGoto(p, "quarantine")
  /\ ReadQuietly(p)

\* The manifest is removed by its path, whatever is there by now.
DropManifest(p) ==
  /\ rd[p] = "missing"
  /\ RemoveManifest
  /\ ReadGoto(p, "miss")
  /\ UNCHANGED file
  /\ ReadRemoves(p)

\* A file that has gone is a plain miss; a bad one shows by its size or by
\* its digest.
ReadPayload(p) ==
  /\ rd[p] = "payload"
  /\ \/ file[seen[p].content] = "good" /\ ReadGoto(p, "hit")
     \/ file[seen[p].content] = "absent" /\ ReadGoto(p, "miss")
     \/ file[seen[p].content] = "bad" /\ ReadGoto(p, "quarantine")
     \/ file[seen[p].content] = "bad" /\ ReadGoto(p, "recheck")
  /\ ReadQuietly(p)

RecheckManifest(p) ==
  /\ rd[p] = "recheck"
  /\ \/ /\ ~retried[p] /\ manifest # NoManifest /\ manifest.writer # seen[p].writer
        /\ rd' = [rd EXCEPT ![p] = "manifest"]
        /\ retried' = [retried EXCEPT ![p] = TRUE]
        /\ UNCHANGED seen
     \* the same, none, one that cannot be read, or the retry is used
     \/ ReadGoto(p, "quarantine")
  /\ ReadQuietly(p)

Quarantine(p) ==
  /\ rd[p] = "quarantine"
  /\ RemoveManifest
  /\ ReadGoto(p, "aside")
  /\ UNCHANGED file
  /\ ReadRemoves(p)

SetAside(p) ==
  /\ rd[p] = "aside"
  /\ RemoveFile(seen[p].content)
  /\ ReadGoto(p, "miss")
  /\ UNCHANGED manifest
  /\ ReadRemoves(p)

\* stat or readFile rejects for a reason of its own.
ReadFails(p) ==
  /\ rd[p] \in {"manifest", "stat", "payload"}
  /\ ReadGoto(p, "miss")
  /\ ReadQuietly(p)

ReadStep(p) ==
  \/ ReadManifest(p) \/ StatPayload(p) \/ DropManifest(p) \/ ReadPayload(p)
  \/ RecheckManifest(p) \/ Quarantine(p) \/ SetAside(p) \/ ReadFails(p)

Load(p) ==
  /\ pc[p] = "idle"
  /\ Visit
  /\ Goto(p, "load")
  /\ StartRead(p)
  /\ UNCHANGED <<entryVars, lockVars, saveVars, todo, damage, disturbed>>

Loaded(p) ==
  /\ pc[p] = "load" /\ rd[p] \in {"hit", "miss"}
  /\ Goto(p, "idle")
  /\ EndRead(p)
  /\ UNCHANGED <<entryVars, lockVars, saveVars, todo, visits, damage, disturbed>>

------------------------------------------------------------------------------
\* saveNow

saveLocals == <<snap, writer, current>>

\* The call is over; its locals are gone.
Leave(p) ==
  /\ Goto(p, "idle")
  /\ snap' = [snap EXCEPT ![p] = AnySnapshot]
  /\ writer' = [writer EXCEPT ![p] = 0]
  /\ current' = [current EXCEPT ![p] = NoManifest]

\* Steps of a save on the lock leave the entry alone.
OffEntry == UNCHANGED <<entryVars, saves, readVars, todo, visits, damage>>

\* Steps of a save inside the critical section leave the lock alone.
OnEntry == UNCHANGED <<lockVars, snap, writer, saves, todo, visits, damage, disturbed>>

SaveNow(p, s) ==
  /\ pc[p] = "idle" /\ saves < MaxSaves
  /\ Goto(p, "locking")
  /\ snap' = [snap EXCEPT ![p] = s]
  /\ saves' = saves + 1
  /\ writer' = [writer EXCEPT ![p] = saves + 1]
  /\ UNCHANGED <<entryVars, lockVars, current, readVars, todo, visits, damage, disturbed>>

\* A mutant: the create does not fail on an existing file.
TakeLockAnyway(p) ==
  /\ pc[p] = "locking"
  /\ lock' = p /\ stale' = FALSE
  /\ Goto(p, "compare")
  /\ UNCHANGED <<saveLocals, disturbed>>
  /\ OffEntry

TakeLock(p) ==
  /\ pc[p] = "locking" /\ lock = Nobody
  /\ lock' = p /\ stale' = FALSE
  /\ Goto(p, "compare")
  /\ UNCHANGED <<saveLocals, disturbed>>
  /\ OffEntry

SeeStale(p) ==
  /\ pc[p] = "locking" /\ lock # Nobody /\ stale
  /\ Goto(p, "stealing")
  /\ UNCHANGED <<lockVars, saveLocals, disturbed>>
  /\ OffEntry

\* The stale lock is removed by its path: it may be another one by now.
StealLock(p) ==
  /\ pc[p] = "stealing"
  /\ RemoveLockAs(p)
  /\ Goto(p, "locking")
  /\ UNCHANGED saveLocals
  /\ OffEntry

LockTimeout(p) ==
  /\ pc[p] = "locking" /\ lock # Nobody
  /\ Leave(p)
  /\ UNCHANGED <<lockVars, disturbed>>
  /\ OffEntry

\* What is on disk was captured later, or at the same instant with a greater
\* hash, by a clock that is not ahead of time.
Outranks(m, s) ==
  /\ m # NoManifest
  /\ m.content # s.content
  /\ m.captured <= SaneUntil
  /\ \/ m.captured > s.captured
     \/ m.captured = s.captured /\ m.content >= s.content

\* A mutant: the tie-break is forgotten.
SupersededStrictly(p) ==
  Outranks(manifest, snap[p]) /\ manifest.captured > snap[p].captured

Superseded(p) == Outranks(manifest, snap[p])

Compare(p) ==
  /\ pc[p] = "compare"
  /\ current' = [current EXCEPT ![p] = manifest]
  /\ \/ /\ manifest # NoManifest /\ Outranks(manifest, snap[p])
        /\ Goto(p, "unlock")
        /\ UNCHANGED readVars
     \* the same content under the same privacy policy
     \/ /\ manifest # NoManifest /\ manifest.content = snap[p].content
        /\ Goto(p, "confirm")
        /\ StartRead(p)
     \* no manifest, a lesser one, or the same content under another policy
     \/ /\ ~Superseded(p)
        /\ Goto(p, "write")
        /\ UNCHANGED readVars
  /\ UNCHANGED entryVars
  /\ OnEntry

Fault == damage < MaxDamage /\ damage' = damage + 1

\* The manifest cannot be read just now: for the save there is none.
CompareBlind(p) ==
  /\ pc[p] = "compare"
  /\ Fault
  /\ Goto(p, "write")
  /\ disturbed' = disturbed \union {"read"}
  /\ UNCHANGED <<entryVars, lockVars, saveVars, readVars, todo, visits>>

\* payloadMatchesManifest of the manifest found
Confirmed(p) ==
  /\ pc[p] = "confirm" /\ rd[p] \in {"hit", "miss"}
  /\ Goto(p, IF rd[p] = "hit" /\ seen[p].writer = current[p].writer
             THEN "rewrite" ELSE "write")
  /\ EndRead(p)
  /\ UNCHANGED <<entryVars, current>>
  /\ OnEntry

\* The manifest found, with another validation block.
RewriteManifest(p) ==
  /\ pc[p] = "rewrite"
  /\ manifest' = current[p]
  /\ Goto(p, "unlock")
  /\ UNCHANGED <<file, current, readVars>>
  /\ OnEntry

ReadPrevious(p) ==
  /\ pc[p] = "write"
  /\ current' = [current EXCEPT ![p] = manifest]
  /\ Goto(p, "payload")
  /\ UNCHANGED <<entryVars, readVars>>
  /\ OnEntry

\* The manifest cannot be read: its payload will not be retired.
ReadPreviousBlind(p) ==
  /\ pc[p] = "write"
  /\ Fault
  /\ current' = [current EXCEPT ![p] = NoManifest]
  /\ Goto(p, "payload")
  /\ UNCHANGED <<entryVars, lockVars, snap, writer, saves, readVars, todo, visits, disturbed>>

\* A mutant: the previous payload goes before the new manifest is in place.
RenamePayloadOver(p) ==
  /\ pc[p] = "payload"
  /\ file' = [c \in Contents |-> IF c = snap[p].content THEN "good" ELSE "absent"]
  /\ Goto(p, "publish")
  /\ UNCHANGED <<manifest, current, readVars>>
  /\ OnEntry

RenamePayload(p) ==
  /\ pc[p] = "payload"
  /\ file' = [file EXCEPT ![snap[p].content] = "good"]
  /\ Goto(p, "publish")
  /\ UNCHANGED <<manifest, current, readVars>>
  /\ OnEntry

RenameManifest(p) ==
  /\ pc[p] = "publish"
  /\ manifest' = [content |-> snap[p].content, captured |-> snap[p].captured,
                  writer |-> writer[p]]
  /\ Goto(p, "retire")
  /\ UNCHANGED <<file, current, readVars>>
  /\ OnEntry

RetirePrevious(p) ==
  /\ pc[p] = "retire"
  /\ IF current[p] # NoManifest /\ current[p].content # snap[p].content
     THEN RemoveFile(current[p].content) ELSE UNCHANGED file
  /\ Goto(p, "verify")
  /\ UNCHANGED <<manifest, current, readVars>>
  /\ OnEntry

\* gzip, a temporary file or a rename fails, or the payload is too large.
SaveFails(p) ==
  /\ pc[p] \in {"rewrite", "payload", "publish"}
  /\ Goto(p, "unlock")
  /\ UNCHANGED <<entryVars, current, readVars>>
  /\ OnEntry

\* The re-read that tells "saved" from "raceLost".
Verify(p) ==
  /\ pc[p] = "verify"
  /\ \/ /\ manifest # NoManifest /\ manifest.writer = writer[p]
        /\ Goto(p, "check") /\ StartRead(p)
     \* of another save, none, or one that cannot be read
     \/ Goto(p, "unlock") /\ UNCHANGED readVars
  /\ UNCHANGED <<entryVars, current>>
  /\ OnEntry

Checked(p) ==
  /\ pc[p] = "check" /\ rd[p] \in {"hit", "miss"}
  /\ Goto(p, "unlock")
  /\ EndRead(p)
  /\ UNCHANGED <<entryVars, current>>
  /\ OnEntry

Unlock(p) ==
  /\ pc[p] = "unlock"
  /\ RemoveLockAs(p)
  /\ Leave(p)
  /\ OffEntry

PublishStep(p) ==
  \/ Compare(p) \/ CompareBlind(p) \/ Confirmed(p) \/ RewriteManifest(p)
  \/ ReadPrevious(p) \/ ReadPreviousBlind(p) \/ RenamePayload(p) \/ RenameManifest(p)
  \/ RetirePrevious(p) \/ SaveFails(p) \/ Verify(p) \/ Checked(p)

LockStep(p) ==
  TakeLock(p) \/ SeeStale(p) \/ StealLock(p) \/ LockTimeout(p) \/ Unlock(p)

------------------------------------------------------------------------------
\* clearForKey, clearAll and eviction

SweepQuietly == UNCHANGED <<saveVars, readVars, visits, damage>>
SweepBegins == Visit /\ UNCHANGED <<saveVars, readVars, damage>>

\* The files of the entry, its lock file (Nobody) among them.
Listed ==
  {c \in Contents : file[c] # "absent"} \union (IF lock # Nobody THEN {Nobody} ELSE {})

\* clearForKey removes the manifest and lists the directory afterwards.
ClearEntry(p) ==
  /\ pc[p] = "idle"
  /\ RemoveManifest /\ Disturb
  /\ Goto(p, "list")
  /\ UNCHANGED <<file, lockVars, todo>>
  /\ SweepBegins

ListFiles(p) ==
  /\ pc[p] = "list"
  /\ todo' = [todo EXCEPT ![p] = Listed]
  /\ Goto(p, "sweep")
  /\ UNCHANGED <<entryVars, lockVars, disturbed>>
  /\ SweepQuietly

\* clearAll, and eviction of an entry that is too old or does not fit, list
\* the directory first.
Scan(p) ==
  /\ pc[p] = "idle"
  /\ Listed # {}
  /\ todo' = [todo EXCEPT ![p] = Listed]
  /\ Goto(p, "unlink")
  /\ UNCHANGED <<entryVars, lockVars, disturbed>>
  /\ SweepBegins

\* Payloads the manifest does not name, none of a save that is under way:
\* ORPHAN_GRACE_MS is longer than a save.
Leftovers ==
  {c \in Contents : /\ file[c] # "absent" /\ c # manifest.content
                    /\ \A q \in Savers : pc[q] \in Critical => snap[q].content # c}

ScanLeftovers(p) ==
  /\ pc[p] = "idle"
  /\ manifest # NoManifest /\ file[manifest.content] # "absent"
  /\ Leftovers # {}
  /\ todo' = [todo EXCEPT ![p] = Leftovers]
  /\ Goto(p, "sweep")
  /\ UNCHANGED <<entryVars, lockVars, disturbed>>
  /\ SweepBegins

UnlinkScanned(p) ==
  /\ pc[p] = "unlink"
  /\ RemoveManifest /\ Disturb
  /\ Goto(p, "sweep")
  /\ UNCHANGED <<file, lockVars, todo>>
  /\ SweepQuietly

SweepFile(p, c) ==
  /\ pc[p] = "sweep" /\ c \in todo[p]
  /\ RemoveFile(c) /\ Disturb
  /\ todo' = [todo EXCEPT ![p] = @ \ {c}]
  /\ UNCHANGED <<manifest, lockVars, pc>>
  /\ SweepQuietly

SweepLock(p) ==
  /\ pc[p] = "sweep" /\ Nobody \in todo[p]
  /\ RemoveLockAs(p)
  /\ todo' = [todo EXCEPT ![p] = @ \ {Nobody}]
  /\ UNCHANGED <<entryVars, pc>>
  /\ SweepQuietly

Swept(p) ==
  /\ pc[p] = "sweep" /\ todo[p] = {}
  /\ Goto(p, "idle")
  /\ UNCHANGED <<entryVars, lockVars, todo, disturbed>>
  /\ SweepQuietly

SweepStep(p) ==
  \/ ClearEntry(p) \/ ListFiles(p) \/ Scan(p) \/ ScanLeftovers(p)
  \/ UnlinkScanned(p) \/ SweepLock(p) \/ Swept(p)
  \/ \E c \in Contents : SweepFile(p, c)

------------------------------------------------------------------------------
\* The environment

\* The window of a save ends; its lock file stays.  One that ends during a load
\* or a sweep takes no further step.
Crash(p) ==
  /\ pc[p] # "idle"
  /\ Leave(p)
  /\ EndRead(p)
  /\ UNCHANGED <<entryVars, lockVars, saves, todo, visits, damage, disturbed>>

LockAges ==
  /\ lock # Nobody /\ ~stale
  /\ stale' = TRUE
  /\ UNCHANGED <<entryVars, lock, pc, saveVars, readVars, todo, visits, damage, disturbed>>

Damaged(c) ==
  /\ Fault
  /\ file[c] = "good"
  /\ file' = [file EXCEPT ![c] = "bad"]
  /\ Disturb
  /\ UNCHANGED <<manifest, lockVars, pc, saveVars, readVars, todo, visits>>

Next ==
  \/ \E p \in Savers :
       \/ \E s \in Snapshots : SaveNow(p, s)
       \/ LockStep(p) \/ PublishStep(p) \/ Crash(p)
  \/ \E p \in Readers : Load(p) \/ Loaded(p)
  \/ \E p \in Activities : ReadStep(p)
  \/ \E p \in Sweepers : SweepStep(p)
  \/ LockAges
  \/ \E c \in Contents : Damaged(c)

Spec == Init /\ [][Next]_vars

------------------------------------------------------------------------------
\* As long as no lock in use has been removed, one save at a time is between
\* compare and unlock, the one whose lock file is there: crashes, stale locks
\* of crashed windows and waiting saves do not break it.  (withEntryLock)
OnePublisher ==
  "lock" \notin disturbed =>
    \A p \in Savers : pc[p] \in Critical => lock = p

\* As long as no lock in use has been removed and no save was unable to read
\* the manifest it compares with, the content of an entry is never replaced by
\* one that the authority rule ranks below it, although what is compared and
\* what is replaced are read at different times.  (saveNow, "newerExists")
NewestWins ==
  [][(disturbed \subseteq {"file"} /\ manifest' # NoManifest)
       => ~Outranks(manifest, [content |-> manifest'.content,
                               captured |-> manifest'.captured])]_vars

\* The manifest names a payload file that is whole.
Readable == manifest # NoManifest /\ file[manifest.content] = "good"

\* As long as no lock in use is removed and nobody but saves touches the
\* files, an entry that can be read can be read after every further step: a
\* save that stops anywhere or cannot read the manifest it finds leaves the old
\* entry or the new one.  (writeEntry)
PublishingKeepsTheEntry ==
  [][Readable /\ disturbed' \subseteq {"read"} => Readable']_vars

\* What the comment in readEntryCore says of a reader that races a replacement:
\* it takes away the manifest it has read, and "otherwise [retries] against
\* the winner".
ReadersSpareWinners ==
  [][\A p \in Readers :
       (DropManifest(p) \/ Quarantine(p)) /\ manifest # NoManifest
         => manifest.writer = seen[p].writer]_vars

\* What the comment on the lock says: "Serialize compare + publication for one
\* key across extension-host processes", with "stale recovery".
PublicationIsSerialized ==
  \A p, q \in Savers : pc[p] \in Critical /\ pc[q] \in Critical => p = q

==============================================================================
