------------------------------ MODULE MCUpdater ------------------------------
(***************************************************************************)
(* Instances of UpdaterFiles, and of Updater within it, for TLC.  Three    *)
(* versions are enough for a source that goes forwards and backwards       *)
(* between two checks while an older one is running; slots are enough for  *)
(* one job of the entity and one job left behind by each entity before it; *)
(* private paths are enough for every slot and the staged script.          *)
(***************************************************************************)
EXTENDS UpdaterFiles

CONSTANTS s1, s2, p1, p2, p3

Versions == 1 .. 3
TwoSlots == {s1, s2}
PrivatePaths == {p1, p2, p3}

PrivateOrCopied ==
  { [kept |-> FALSE, artifact |-> "copied"],
    [kept |-> FALSE, artifact |-> "msi"],
    [kept |-> TRUE, artifact |-> "copied"] }

KeptMsi == {[kept |-> TRUE, artifact |-> "msi"]}
==============================================================================
