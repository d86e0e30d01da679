--------------------------- MODULE MCMetadataCache ---------------------------
\* Instances of MetadataCache for TLC.
EXTENDS MetadataCache, TLC

CONSTANTS w1, w2, r1, e1

TwoSavers == {w1, w2}
OneReader == {r1}
OneSweeper == {e1}
NoSweeper == {}
NoReader == {}

\* Two contents captured at one instant, for the tie-break.
TiedSnapshots == {[content |-> 1, captured |-> 1], [content |-> 2, captured |-> 1]}

\* The same, and the first content captured again later, for the rewrite.
MCSnapshots == TiedSnapshots \cup {[content |-> 1, captured |-> 3]}

\* Damage and manifests that cannot be read are explored with the tied snapshots
\* only: which of two captures is newer makes no difference to a damaged file,
\* and none to a save that compares with nothing.
DamageWithTies ==
  damage > 0 =>
    /\ \A p \in Savers : snap[p] \in TiedSnapshots
    /\ manifest # NoManifest => manifest.captured = 1

\* A living holder is never slower than PUBLICATION_LOCK_STALE_MS.
HoldersAreQuick == lock # Nobody /\ stale => pc[lock] \notin Critical

SaverSymmetry == Permutations(Savers)
==============================================================================
