---------------------------- MODULE SuiteReplace ----------------------------
(***************************************************************************)
(* Upgrading the installed binaries: release.ReplaceAll and Replace        *)
(* (internal/release/replace.go), run by `orchard upgrade`.                *)
(*                                                                         *)
(* One action per system call, because a kill, a power loss or a second    *)
(* upgrade may fall between any two.  A name refers to an inode, so a hard *)
(* link and the file it was made from share their bytes and truncating one *)
(* truncates the other.  An inode nobody refers to any more is free.       *)
(*                                                                         *)
(* Items are numbered in SuiteBinaries order, helpers first and the        *)
(* dispatcher last; a run replaces some of them in that order.             *)
(***************************************************************************)
EXTENDS Naturals, FiniteSets

CONSTANTS
  N,          \* number of binaries in the suite
  MaxFiles,   \* bound on files of one binary alive at once: 2 + the upgraders
  Versions,   \* contents a release may give a binary
  Torn,       \* content of a file cut short or never flushed
  NoFile,     \* the name is free
  NotRegular, \* something else than a file has the name: a directory
  Upgraders,  \* processes that may run an upgrade, one after another each
  Faults      \* what may go wrong; see FaultsAssumption

ASSUME SizeAssumption == N \in Nat \ {0} /\ MaxFiles \in Nat \ {0}
ASSUME FaultsAssumption ==
  Faults \subseteq {"read", "link", "copy", "install", "undo", "kill", "power"}
ASSUME NamesAssumption ==
  /\ Torn \notin Versions
  /\ NoFile # NotRegular
  /\ \A name \in {NoFile, NotRegular} :
       name \notin Versions \cup {Torn} \cup (Nat \X Nat)

Items  == 1..N
Inodes == Items \X (1..MaxFiles)   \* those of one binary counted apart

VARIABLES
  dest,    \* the inode of each binary
  saved,   \* the inode of its .orchard-backup
  data,    \* what each inode holds
  dirty,   \* inodes written and not yet synced to disk
  pc,      \* where each upgrader is
  todo,    \* items it has not dealt with
  done,    \* the local `done`: items it has backed up
  want,    \* the contents it installs
  in,      \* the file it copies a backup from
  out,     \* the file it is writing: a backup copy or Replace's temp file
  plan,    \* the items of its last run
  before,  \* what the binaries held when that run began
  lost,    \* items whose restoring rename failed in it
  ended    \* how it ended

disk  == <<dest, saved, data, dirty>>
local == <<todo, done, in, out>>
run   == <<want, plan, before>>
vars  == <<disk, pc, local, run, lost, ended>>

Steps == {"stat", "hash", "clear", "link", "copy", "temp", "sync", "rename",
          "commit", "undo", "unsave"}

TypeOK ==
  /\ dest \in [Items -> Inodes \cup {NoFile, NotRegular}]
  /\ saved \in [Items -> Inodes \cup {NoFile}]
  /\ data \in [Inodes -> Versions \cup {Torn}]
  /\ dirty \subseteq Inodes
  /\ pc \in [Upgraders -> Steps \cup {"idle"}]
  /\ todo \in [Upgraders -> SUBSET Items]
  /\ done \in [Upgraders -> SUBSET Items]
  /\ want \in [Upgraders -> [Items -> Versions]]
  /\ in \in [Upgraders -> Inodes \cup {NoFile}]
  /\ out \in [Upgraders -> Inodes \cup {NoFile}]
  /\ \A p \in Upgraders :
       out[p] # NoFile <=> pc[p] \in {"copy", "sync", "rename"}
  /\ plan \in [Upgraders -> SUBSET Items]
  /\ before \in [Upgraders ->
                   [Items -> Versions \cup {Torn, NoFile, NotRegular}]]
  /\ lost \in [Upgraders -> SUBSET Items]
  /\ ended \in [Upgraders -> {"none", "ok", "failed", "killed", "power"}]

Content(i) == IF dest[i] \in Inodes THEN data[dest[i]] ELSE dest[i]

\* An install directory: some of the binaries, of whatever versions, each its
\* own file; a directory may have a binary's name.
Init ==
  /\ \E present, blocked \in SUBSET Items :
       dest = [i \in Items |-> IF i \in present THEN <<i, 1>>
                               ELSE IF i \in blocked THEN NotRegular ELSE NoFile]
  /\ saved = [i \in Items |-> NoFile]
  /\ \E c \in [Items -> Versions] :
       data = [n \in Inodes |-> IF dest[n[1]] = n THEN c[n[1]] ELSE Torn]
  /\ dirty = {}
  /\ pc = [p \in Upgraders |-> "idle"]
  /\ todo = [p \in Upgraders |-> {}]
  /\ done = [p \in Upgraders |-> {}]
  /\ \E v \in Versions : want = [p \in Upgraders |-> [i \in Items |-> v]]
  /\ in = [p \in Upgraders |-> NoFile]
  /\ out = [p \in Upgraders |-> NoFile]
  /\ plan = [p \in Upgraders |-> {}]
  /\ before = [p \in Upgraders |-> [i \in Items |-> NoFile]]
  /\ lost = [p \in Upgraders |-> {}]
  /\ ended = [p \in Upgraders |-> "none"]

-----------------------------------------------------------------------------
(* Helpers.                                                                *)

Goto(p, from, to) == pc[p] = from /\ pc' = [pc EXCEPT ![p] = to]

MutDispatcherFirst(p, i) == i \in todo[p] /\ \A j \in todo[p] : i >= j

\* The item a run is at: the first not dealt with.
At(p, i) == i \in todo[p] /\ \A j \in todo[p] : i <= j

\* The item a rollback is at: the last backed up.
Undoing(p, i) == i \in done[p] /\ \A j \in done[p] : i >= j

InUse == {dest[i] : i \in Items} \cup {saved[i] : i \in Items}
           \cup {in[p] : p \in Upgraders} \cup {out[p] : p \in Upgraders}

\* A new file gets an inode nobody refers to: the first, as any will do.
Fresh(i, k) ==
  /\ <<i, k>> \notin InUse
  /\ \A j \in 1..(k - 1) : <<i, j>> \in InUse

-----------------------------------------------------------------------------
(* Each item: Stat, compare, back up, replace.                             *)

\* A call of ReplaceAll.  Suite.Plan passes the regular files there are; other
\* callers may pass any item.  (What free inodes hold is forgotten here.)
Begin(p, w, items) ==
  /\ Goto(p, "idle", "stat")
  /\ items # {}
  /\ todo' = [todo EXCEPT ![p] = items]
  /\ plan' = [plan EXCEPT ![p] = items]
  /\ want' = [want EXCEPT ![p] = w]
  /\ before' = [before EXCEPT ![p] = [i \in Items |-> Content(i)]]
  /\ lost' = [lost EXCEPT ![p] = {}]
  /\ ended' = [ended EXCEPT ![p] = "none"]
  /\ data' = [n \in Inodes |-> IF n \in InUse THEN data[n] ELSE Torn]
  /\ dirty' = dirty \cap InUse
  /\ UNCHANGED <<dest, saved, done, in, out>>

StatAbsent(p, i) ==
  /\ At(p, i) /\ dest[i] = NoFile
  /\ Goto(p, "stat", "temp")
  /\ UNCHANGED <<disk, local, run, lost, ended>>

\* "refusing to replace: not a regular file"
StatRefused(p, i) ==
  /\ At(p, i) /\ dest[i] = NotRegular
  /\ Goto(p, "stat", "undo")
  /\ UNCHANGED <<disk, local, run, lost, ended>>

StatRegular(p, i) ==
  /\ At(p, i) /\ dest[i] \in Inodes
  /\ Goto(p, "stat", "hash")
  /\ UNCHANGED <<disk, local, run, lost, ended>>

MutUnreadableSkipped(p, i) ==
  /\ At(p, i)
  /\ "read" \in Faults \/ Content(i) = want[p][i]
  /\ Goto(p, "hash", "stat")
  /\ todo' = [todo EXCEPT ![p] = @ \ {i}]
  /\ UNCHANGED <<disk, done, in, out, run, lost, ended>>

\* ActionUnchanged: byte for byte the wanted content.
Unchanged(p, i) ==
  /\ At(p, i)
  /\ Content(i) = want[p][i]
  /\ Goto(p, "hash", "stat")
  /\ todo' = [todo EXCEPT ![p] = @ \ {i}]
  /\ UNCHANGED <<disk, done, in, out, run, lost, ended>>

\* It differs, or cannot be read.
Differs(p, i) ==
  /\ At(p, i)
  /\ "read" \in Faults \/ Content(i) # want[p][i]
  /\ Goto(p, "hash", "clear")
  /\ UNCHANGED <<disk, local, run, lost, ended>>

MutStaleBackupKept(p, i) ==
  /\ At(p, i)
  /\ Goto(p, "clear", IF saved[i] = NoFile THEN "link" ELSE "temp")
  /\ done' = [done EXCEPT ![p] = IF saved[i] = NoFile THEN @ ELSE @ \cup {i}]
  /\ UNCHANGED <<disk, todo, in, out, run, lost, ended>>

\* os.Remove(saved): a backup some killed run left behind.
ClearStale(p, i) ==
  /\ At(p, i)
  /\ Goto(p, "clear", "link")
  /\ saved' = [saved EXCEPT ![i] = NoFile]
  /\ UNCHANGED <<dest, data, dirty, local, run, lost, ended>>

MutMoveAside(p, i) ==
  /\ At(p, i)
  /\ saved[i] = NoFile
  /\ Goto(p, "link", "temp")
  /\ saved' = [saved EXCEPT ![i] = dest[i]]
  /\ dest' = [dest EXCEPT ![i] = NoFile]
  /\ done' = [done EXCEPT ![p] = @ \cup {i}]
  /\ UNCHANGED <<data, dirty, todo, in, out, run, lost, ended>>

\* os.Link succeeds.
LinkBackup(p, i) ==
  /\ At(p, i)
  /\ saved[i] = NoFile
  /\ Goto(p, "link", "temp")
  /\ saved' = [saved EXCEPT ![i] = dest[i]]
  /\ done' = [done EXCEPT ![p] = @ \cup {i}]
  /\ UNCHANGED <<dest, data, dirty, todo, in, out, run, lost, ended>>

\* os.Link is refused, by the filesystem or because the name is taken; open
\* the binary, then create or truncate the backup.
OpenCopy(p, i, k) ==
  /\ At(p, i)
  /\ "link" \in Faults \/ saved[i] # NoFile
  /\ IF saved[i] = NoFile THEN Fresh(i, k) ELSE <<i, k>> = saved[i]
  /\ Goto(p, "link", "copy")
  /\ saved' = [saved EXCEPT ![i] = <<i, k>>]
  /\ data' = [data EXCEPT ![<<i, k>>] = Torn]
  /\ dirty' = dirty \cup {<<i, k>>}
  /\ in' = [in EXCEPT ![p] = dest[i]]
  /\ out' = [out EXCEPT ![p] = <<i, k>>]
  /\ UNCHANGED <<dest, todo, done, run, lost, ended>>

\* io.Copy, Close.
CopyBackup(p, i) ==
  /\ At(p, i)
  /\ Goto(p, "copy", "temp")
  /\ data' = [data EXCEPT ![out[p]] = data[in[p]]]
  /\ in' = [in EXCEPT ![p] = NoFile]
  /\ out' = [out EXCEPT ![p] = NoFile]
  /\ done' = [done EXCEPT ![p] = @ \cup {i}]
  /\ UNCHANGED <<dest, saved, dirty, todo, run, lost, ended>>

\* The binary or the backup cannot be opened.
BackupRefused(p, i) ==
  /\ At(p, i)
  /\ "copy" \in Faults
  /\ Goto(p, "link", "undo")
  /\ UNCHANGED <<disk, local, run, lost, ended>>

\* io.Copy fails and the backup is removed, or Close fails and it is not.
CopyFails(p, i) ==
  /\ At(p, i)
  /\ "copy" \in Faults
  /\ Goto(p, "copy", "undo")
  /\ \/ saved' = [saved EXCEPT ![i] = NoFile]
     \/ UNCHANGED saved
  /\ in' = [in EXCEPT ![p] = NoFile]
  /\ out' = [out EXCEPT ![p] = NoFile]
  /\ UNCHANGED <<dest, data, dirty, todo, done, run, lost, ended>>

\* Replace: CreateTemp, under a name no one else uses, and Write.
WriteTemp(p, i, k) ==
  /\ At(p, i)
  /\ Fresh(i, k)
  /\ Goto(p, "temp", "sync")
  /\ data' = [data EXCEPT ![<<i, k>>] = want[p][i]]
  /\ dirty' = dirty \cup {<<i, k>>}
  /\ out' = [out EXCEPT ![p] = <<i, k>>]
  /\ UNCHANGED <<dest, saved, todo, done, in, run, lost, ended>>

MutNoSync(p) ==
  /\ Goto(p, "sync", "rename")
  /\ UNCHANGED <<disk, local, run, lost, ended>>

SyncTemp(p) ==
  /\ Goto(p, "sync", "rename")
  /\ dirty' = dirty \ {out[p]}
  /\ UNCHANGED <<dest, saved, data, local, run, lost, ended>>

MutTempKept(p) ==
  /\ "install" \in Faults
  /\ \E from \in {"temp", "sync", "rename"} : Goto(p, from, "undo")
  /\ UNCHANGED <<disk, local, run, lost, ended>>

\* Any call of Replace fails; its temp file, if any, is removed.
InstallFails(p) ==
  /\ "install" \in Faults
  /\ \E from \in {"temp", "sync", "rename"} : Goto(p, from, "undo")
  /\ out' = [out EXCEPT ![p] = NoFile]
  /\ UNCHANGED <<disk, todo, done, in, run, lost, ended>>

MutBackupDropped(p, i) ==
  /\ At(p, i)
  /\ Goto(p, "rename", "stat")
  /\ dest' = [dest EXCEPT ![i] = out[p]]
  /\ saved' = [saved EXCEPT ![i] = NoFile]
  /\ out' = [out EXCEPT ![p] = NoFile]
  /\ todo' = [todo EXCEPT ![p] = @ \ {i}]
  /\ UNCHANGED <<data, dirty, done, in, run, lost, ended>>

\* os.Rename over the binary: ActionUpdated or ActionInstalled.
Install(p, i) ==
  /\ At(p, i)
  /\ Goto(p, "rename", "stat")
  /\ dest' = [dest EXCEPT ![i] = out[p]]
  /\ out' = [out EXCEPT ![p] = NoFile]
  /\ todo' = [todo EXCEPT ![p] = @ \ {i}]
  /\ UNCHANGED <<saved, data, dirty, done, in, run, lost, ended>>

-----------------------------------------------------------------------------
(* The deferred function.                                                  *)

AllDone(p) ==
  /\ todo[p] = {}
  /\ Goto(p, "stat", "commit")
  /\ UNCHANGED <<disk, local, run, lost, ended>>

\* err == nil: remove every backup.
DropBackup(p, i) ==
  /\ i \in done[p] /\ \A j \in done[p] : i <= j
  /\ pc[p] = "commit"
  /\ saved' = [saved EXCEPT ![i] = NoFile]
  /\ done' = [done EXCEPT ![p] = @ \ {i}]
  /\ UNCHANGED <<dest, data, dirty, pc, todo, in, out, run, lost, ended>>

Succeed(p) ==
  /\ done[p] = {}
  /\ Goto(p, "commit", "idle")
  /\ ended' = [ended EXCEPT ![p] = "ok"]
  /\ UNCHANGED <<disk, local, run, lost>>

\* os.Rename(saved, path); two names of one inode stay as they are, and an
\* error is ignored.
Restore(p, i) ==
  /\ Undoing(p, i)
  /\ Goto(p, "undo", "unsave")
  /\ IF saved[i] = NoFile THEN UNCHANGED <<dest, saved>>
     ELSE /\ dest' = [dest EXCEPT ![i] = saved[i]]
          /\ saved' = [saved EXCEPT ![i] = IF dest[i] = @ THEN @ ELSE NoFile]
  /\ UNCHANGED <<data, dirty, local, run, lost, ended>>

RestoreFails(p, i) ==
  /\ "undo" \in Faults
  /\ Undoing(p, i)
  /\ Goto(p, "undo", "unsave")
  /\ lost' = [lost EXCEPT ![p] = @ \cup {i}]
  /\ UNCHANGED <<disk, local, run, ended>>

\* os.Remove(saved), whether or not the rename took it.
RemoveSaved(p, i) ==
  /\ Undoing(p, i)
  /\ Goto(p, "unsave", "undo")
  /\ saved' = [saved EXCEPT ![i] = NoFile]
  /\ done' = [done EXCEPT ![p] = @ \ {i}]
  /\ UNCHANGED <<dest, data, dirty, todo, in, out, run, lost, ended>>

GiveUp(p) ==
  /\ done[p] = {}
  /\ Goto(p, "undo", "idle")
  /\ todo' = [todo EXCEPT ![p] = {}]
  /\ ended' = [ended EXCEPT ![p] = "failed"]
  /\ UNCHANGED <<disk, done, in, out, run, lost>>

-----------------------------------------------------------------------------
(* The process is killed, or the machine stops: what was not synced may be *)
(* gone when it comes back.  Renames and links are taken as durable in the *)
(* order they were made.                                                   *)

Kill(p) ==
  /\ "kill" \in Faults
  /\ pc[p] # "idle"
  /\ pc' = [pc EXCEPT ![p] = "idle"]
  /\ todo' = [todo EXCEPT ![p] = {}]
  /\ done' = [done EXCEPT ![p] = {}]
  /\ in' = [in EXCEPT ![p] = NoFile]
  /\ out' = [out EXCEPT ![p] = NoFile]
  /\ ended' = [ended EXCEPT ![p] = "killed"]
  /\ UNCHANGED <<disk, run, lost>>

PowerLoss ==
  /\ "power" \in Faults
  /\ \E D \in SUBSET dirty :
       data' = [n \in Inodes |-> IF n \in D THEN Torn ELSE data[n]]
  /\ dirty' = {}
  /\ pc' = [p \in Upgraders |-> "idle"]
  /\ todo' = [p \in Upgraders |-> {}]
  /\ done' = [p \in Upgraders |-> {}]
  /\ in' = [p \in Upgraders |-> NoFile]
  /\ out' = [p \in Upgraders |-> NoFile]
  /\ ended' = [p \in Upgraders |-> IF pc[p] = "idle" THEN ended[p] ELSE "power"]
  /\ UNCHANGED <<dest, saved, run, lost>>

-----------------------------------------------------------------------------
BackUp(p, i) ==
  \/ Differs(p, i) \/ ClearStale(p, i) \/ LinkBackup(p, i)
  \/ \E k \in 1..MaxFiles : OpenCopy(p, i, k)
  \/ CopyBackup(p, i) \/ BackupRefused(p, i) \/ CopyFails(p, i)

Replace(p, i) ==
  \/ \E k \in 1..MaxFiles : WriteTemp(p, i, k)
  \/ Install(p, i)

RollBack(p, i) == Restore(p, i) \/ RestoreFails(p, i) \/ RemoveSaved(p, i)

ReplaceAll(p) ==
  \/ \E i \in Items :
       \/ StatAbsent(p, i) \/ StatRefused(p, i) \/ StatRegular(p, i)
       \/ Unchanged(p, i) \/ BackUp(p, i) \/ Replace(p, i)
       \/ DropBackup(p, i) \/ RollBack(p, i)
  \/ SyncTemp(p) \/ InstallFails(p) \/ AllDone(p) \/ Succeed(p) \/ GiveUp(p)

Next ==
  \/ \E p \in Upgraders :
       \/ \E w \in [Items -> Versions], items \in SUBSET Items : Begin(p, w, items)
       \/ ReplaceAll(p)
       \/ Kill(p)
  \/ PowerLoss

Spec == Init /\ [][Next]_vars

-----------------------------------------------------------------------------
(* Properties.                                                             *)

\* Whatever fails and whenever the process or the machine stops, a binary's
\* name never leads to a truncated or unflushed file: os.Rename is only ever
\* given files written in full and synced.
WholeBinaries == \A i \in Items : dest[i] \in Inodes => Content(i) \in Versions

\* A binary that is installed is there at every moment of an upgrade and of
\* its rollback: a process starting it never finds the name free.
NeverMissing ==
  [][\A i \in Items : dest[i] \in Inodes => dest'[i] \in Inodes]_vars

\* A run that reports success has installed all its items, those it skipped
\* included, and left no backup of those it replaced.
SuccessInstalls ==
  \A p \in Upgraders : ended[p] = "ok" =>
    \A i \in plan[p] :
      /\ Content(i) = want[p][i]
      /\ before[p][i] # want[p][i] => saved[i] = NoFile

\* A run that reports failure has put back what every file held, whatever an
\* earlier run that was killed left beside it, unless the restoring rename
\* itself failed.
FailureRestores ==
  \A p \in Upgraders : ended[p] = "failed" =>
    \A i \in plan[p] \ lost[p] :
      before[p][i] # NoFile => Content(i) = before[p][i]

\* The old version of a binary is in place or in its backup.
OldIsThere(p, i) ==
  \/ Content(i) = before[p][i]
  \/ saved[i] \in Inodes /\ data[saved[i]] = before[p][i]

\* Until a run has installed everything, the replaced version of each binary
\* can be found, also when the run is killed; but for one whose restoring
\* rename failed: its backup is removed even then, and it stays at the new
\* version, whole.
OldVersionSurvives ==
  \A p \in Upgraders :
    pc[p] \in Steps \ {"commit"} \/ ended[p] = "killed" =>
      \/ \A i \in plan[p] : Content(i) = want[p][i]
      \/ \A i \in plan[p] : before[p][i] \in Versions =>
           OldIsThere(p, i) \/ (i \in lost[p] /\ Content(i) = want[p][i])

\* "helpers first, the dispatcher last, so a crash mid-upgrade still leaves a
\* working `orchard`": forward and in rollback, a binary is at the version
\* being installed only while all those before it are; but for one whose
\* restoring rename failed, which stays behind at the new version.
HelpersFirst ==
  \A p \in Upgraders : \A j \in plan[p] \ lost[p] :
    (before[p][j] \in Versions \ {want[p][j]} /\ Content(j) = want[p][j]) =>
      \A i \in plan[p] : i < j => Content(i) = want[p][i]

(* What the comments promise and the code does not keep. *)

\* "rolls the whole set back if any single install fails": also the binaries
\* the failed run itself added.
WholeSetRolledBack ==
  \A p \in Upgraders : ended[p] = "failed" =>
    \A i \in plan[p] \ lost[p] : Content(i) = before[p][i]

\* "a failure renames every backup taken so far back over its original": a
\* backup is only removed once what it holds is back in place.
OldVersionNeverLost ==
  \A p \in Upgraders :
    pc[p] \in Steps \ {"commit"} =>
      \A i \in plan[p] : before[p][i] \in Versions => OldIsThere(p, i)
=============================================================================
