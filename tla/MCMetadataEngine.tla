-------------------------- MODULE MCMetadataEngine --------------------------
(* Instances of MetadataEngine for TLC.                                      *)
EXTENDS MetadataEngine

(* The objects whose definitions are read, being read or cached.             *)
Reads ==
    {o \in Objects :
        \/ entry.definition[o] # None
        \/ o \in Range(entry.lane)
        \/ job.kind = o
        \/ \E j \in orphans : j.kind = o}

(* What disturbs a catalogue or is asked of it: any three of these together. *)
(* Only steps no fairness is stated for add to it, and the watchdog, which   *)
(* may fire where the work could as well end.                                *)
Troubles ==
    server + spent.calls + spent.timeouts + spent.fails + spent.renames
        + spent.flips + spent.aways + Cardinality(Reads)
FewTroubles == Troubles <= 3
=============================================================================
