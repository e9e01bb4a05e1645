--------------------------- MODULE MCSuiteReplace ---------------------------
(* The upgrade on two filesystems for TLC: one with hard links, where power  *)
(* may be lost, and one without, where backups are copies that may fail.     *)
EXTENDS SuiteReplace, TLC

CONSTANT FaultsWithoutLinks

VARIABLE links  \* whether the filesystem has them

Copying == INSTANCE SuiteReplace WITH Faults <- FaultsWithoutLinks

MCInit == links \in BOOLEAN /\ Init

MCNext ==
  \/ links /\ Next /\ UNCHANGED links
  \/ ~links /\ Copying!Next /\ UNCHANGED links

MCSpec == MCInit /\ [][MCNext]_<<links, vars>>

\* No step compares or prefers a version.
VersionSymmetry == Permutations(Versions)
=============================================================================
