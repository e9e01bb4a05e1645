------------------------ MODULE SuiteReplaceProofs ------------------------
(***************************************************************************)
(* Upgrading the suite, for any number of binaries and any versions.       *)
(* Whatever fails and however many upgraders there are, types are kept and *)
(* an installed binary stays installed.  With one upgrader at a time, and  *)
(* backups that are links wherever the power may fail, no binary is ever   *)
(* torn, a run installs all or puts back what it replaced, and helpers     *)
(* stay ahead of the dispatcher.                                           *)
(***************************************************************************)
EXTENDS SuiteReplace, TLAPS

\* A run that compares or backs up a binary has found it, and copies from it.
Found ==
  \A p \in Upgraders :
    /\ pc[p] \in {"hash", "clear", "link", "copy"} =>
         \A i \in Items : At(p, i) => dest[i] \in Inodes
    /\ pc[p] = "copy" => in[p] \in Inodes

-----------------------------------------------------------------------------
(* Types, for any number of upgraders.                                     *)

\* A free name, or that of a directory, is no inode and no content.
LEMMA NamesApart ==
  /\ NoFile \notin Inodes /\ NotRegular \notin Inodes /\ NoFile # NotRegular
  /\ NoFile \notin Versions \cup {Torn} /\ NotRegular \notin Versions \cup {Torn}
  /\ Torn \notin Versions
<1>1. Inodes \subseteq Nat \X Nat
  BY SizeAssumption DEF SizeAssumption, Inodes, Items
<1>2. QED BY <1>1, NamesAssumption DEF NamesAssumption

\* What a name holds.
LEMMA ContentType ==
  ASSUME TypeOK, NEW i \in Items
  PROVE  Content(i) \in Versions \cup {Torn, NoFile, NotRegular}
BY DEF TypeOK, Content

\* The first state.
LEMMA TypeInit == Init => TypeOK /\ Found
<1> SUFFICES ASSUME Init PROVE TypeOK /\ Found
  OBVIOUS
<1>1. dest \in [Items -> Inodes \cup {NoFile, NotRegular}]
  <2>1. PICK present, blocked \in SUBSET Items :
          dest = [i \in Items |-> IF i \in present THEN <<i, 1>>
                                  ELSE IF i \in blocked THEN NotRegular ELSE NoFile]
    BY DEF Init
  <2>2. \A i \in Items : <<i, 1>> \in Inodes
    BY SizeAssumption DEF SizeAssumption, Inodes
  <2>3. QED BY <2>1, <2>2
<1>2. saved \in [Items -> Inodes \cup {NoFile}]
  BY DEF Init
<1>3. data \in [Inodes -> Versions \cup {Torn}]
  <2>1. PICK c \in [Items -> Versions] :
          data = [n \in Inodes |-> IF dest[n[1]] = n THEN c[n[1]] ELSE Torn]
    BY DEF Init
  <2>2. \A n \in Inodes : n[1] \in Items
    BY DEF Inodes
  <2>3. QED BY <2>1, <2>2
<1>4. /\ pc \in [Upgraders -> Steps \cup {"idle"}]
      /\ todo \in [Upgraders -> SUBSET Items] /\ done \in [Upgraders -> SUBSET Items]
      /\ in \in [Upgraders -> Inodes \cup {NoFile}]
      /\ out \in [Upgraders -> Inodes \cup {NoFile}]
  BY DEF Init
<1>5. /\ plan \in [Upgraders -> SUBSET Items] /\ lost \in [Upgraders -> SUBSET Items]
      /\ ended \in [Upgraders -> {"none", "ok", "failed", "killed", "power"}]
  BY DEF Init
<1>6. want \in [Upgraders -> [Items -> Versions]]
  BY DEF Init
<1>7. before \in [Upgraders -> [Items -> Versions \cup {Torn, NoFile, NotRegular}]]
  BY DEF Init
<1>8. \A p \in Upgraders : pc[p] = "idle" /\ out[p] = NoFile
  BY DEF Init
<1>9. dirty = {}
  BY DEF Init
<1>10. TypeOK
  BY <1>1, <1>2, <1>3, <1>4, <1>5, <1>6, <1>7, <1>8, <1>9 DEF TypeOK
<1>11. QED BY <1>8, <1>10 DEF Found

\* No step frees the name of an installed binary.
LEMMA DestStays ==
  ASSUME TypeOK, [Next]_vars, NEW i \in Items, dest[i] \in Inodes
  PROVE  dest'[i] \in Inodes
<1> USE NamesApart DEF TypeOK, disk
<1>1. ASSUME NEW p \in Upgraders, NEW w, NEW items, Begin(p, w, items) PROVE dest'[i] \in Inodes
  BY <1>1 DEF Begin
<1>2. ASSUME NEW p \in Upgraders, NEW j \in Items,
             \/ StatAbsent(p, j) \/ StatRefused(p, j) \/ StatRegular(p, j)
             \/ Unchanged(p, j) \/ BackUp(p, j) \/ DropBackup(p, j)
      PROVE  dest'[i] \in Inodes
  BY <1>2 DEF StatAbsent, StatRefused, StatRegular, Unchanged, BackUp, Differs, ClearStale,
              LinkBackup, OpenCopy, CopyBackup, BackupRefused, CopyFails, DropBackup
<1>3. ASSUME NEW p \in Upgraders, NEW j \in Items, Replace(p, j) PROVE dest'[i] \in Inodes
  <2>1. CASE Install(p, j)
    <3>1. pc[p] = "rename" /\ dest' = [dest EXCEPT ![j] = out[p]]
      BY <2>1 DEF Install, Goto
    <3>2. QED BY <3>1
  <2>2. CASE \E k \in 1..MaxFiles : WriteTemp(p, j, k)
    BY <2>2 DEF WriteTemp
  <2>3. QED BY <1>3, <2>1, <2>2 DEF Replace
<1>4. ASSUME NEW p \in Upgraders, NEW j \in Items, RollBack(p, j) PROVE dest'[i] \in Inodes
  BY <1>4 DEF RollBack, Restore, RestoreFails, RemoveSaved
<1>5. ASSUME NEW p \in Upgraders,
             \/ SyncTemp(p) \/ InstallFails(p) \/ AllDone(p) \/ Succeed(p) \/ GiveUp(p) \/ Kill(p)
      PROVE  dest'[i] \in Inodes
  BY <1>5 DEF SyncTemp, InstallFails, AllDone, Succeed, GiveUp, Kill
<1>6. CASE PowerLoss \/ UNCHANGED vars
  BY <1>6 DEF PowerLoss, vars
<1>7. QED BY <1>1, <1>2, <1>3, <1>4, <1>5, <1>6 DEF Next, ReplaceAll

\* Starting a run, and the steps that only look.
LEMMA LookType ==
  ASSUME TypeOK, NEW p \in Upgraders,
         \/ \E w \in [Items -> Versions], items \in SUBSET Items : Begin(p, w, items)
         \/ \E i \in Items : \/ StatAbsent(p, i) \/ StatRefused(p, i) \/ StatRegular(p, i)
                            \/ Unchanged(p, i) \/ Differs(p, i) \/ BackupRefused(p, i)
         \/ AllDone(p) \/ Succeed(p) \/ GiveUp(p)
  PROVE  TypeOK'
<1> USE NamesApart DEF TypeOK, disk, local, run, Goto, Steps
<1>1. ASSUME NEW w \in [Items -> Versions], NEW items \in SUBSET Items, Begin(p, w, items)
      PROVE  TypeOK'
  <2>1. before' \in [Upgraders -> [Items -> Versions \cup {Torn, NoFile, NotRegular}]]
    <3>1. [i \in Items |-> Content(i)] \in [Items -> Versions \cup {Torn, NoFile, NotRegular}]
      BY ContentType
    <3>2. QED BY <1>1, <3>1 DEF Begin
  <2>2. data' \in [Inodes -> Versions \cup {Torn}] /\ dirty' \subseteq Inodes
    BY <1>1 DEF Begin
  <2>3. /\ pc' = [pc EXCEPT ![p] = "stat"] /\ pc[p] = "idle" /\ out' = out
        /\ todo' \in [Upgraders -> SUBSET Items] /\ plan' \in [Upgraders -> SUBSET Items]
        /\ want' \in [Upgraders -> [Items -> Versions]] /\ lost' \in [Upgraders -> SUBSET Items]
        /\ ended' \in [Upgraders -> {"none", "ok", "failed", "killed", "power"}]
        /\ UNCHANGED <<dest, saved, done, in>>
    BY <1>1 DEF Begin
  <2>4. QED BY <2>1, <2>2, <2>3
<1>2. ASSUME NEW i \in Items, \/ StatAbsent(p, i) \/ StatRefused(p, i) \/ StatRegular(p, i)
                              \/ Unchanged(p, i) \/ Differs(p, i) \/ BackupRefused(p, i)
      PROVE  TypeOK'
  <2>1. /\ UNCHANGED <<dest, saved, data, dirty, done, in, out, want, plan, before, lost, ended>>
        /\ \E from \in {"stat", "hash", "link"}, to \in {"stat", "temp", "undo", "hash", "clear"} :
             pc[p] = from /\ pc' = [pc EXCEPT ![p] = to]
        /\ todo' = todo \/ todo' = [todo EXCEPT ![p] = @ \ {i}]
    BY <1>2 DEF StatAbsent, StatRefused, StatRegular, Unchanged, Differs, BackupRefused
  <2>2. /\ pc' \in [Upgraders -> Steps \cup {"idle"}]
        /\ todo' \in [Upgraders -> SUBSET Items]
    <3>1. pc' \in [Upgraders -> Steps \cup {"idle"}]
      BY <2>1
    <3>2. CASE todo' = todo
      BY <3>1, <3>2
    <3>3. CASE todo' = [todo EXCEPT ![p] = @ \ {i}]
      <4>1. todo[p] \ {i} \in SUBSET Items
        OBVIOUS
      <4>2. QED BY <3>1, <3>3, <4>1
    <3>4. QED BY <2>1, <3>2, <3>3
  <2>3. \A q \in Upgraders :
          out'[q] # NoFile <=> pc'[q] \in {"copy", "sync", "rename"}
    BY <2>1
  <2>4. QED BY <2>1, <2>2, <2>3
<1>3. CASE AllDone(p) \/ Succeed(p) \/ GiveUp(p)
  <2>1. CASE AllDone(p)
    BY <2>1 DEF AllDone
  <2>2. CASE Succeed(p)
    BY <2>2 DEF Succeed
  <2>3. CASE GiveUp(p)
    BY <2>3 DEF GiveUp
  <2>4. QED BY <1>3, <2>1, <2>2, <2>3
<1>4. QED BY <1>1, <1>2, <1>3

\* Backups.
LEMMA BackUpType ==
  ASSUME TypeOK, Found, NEW p \in Upgraders, NEW i \in Items, BackUp(p, i)
  PROVE  TypeOK'
<1> USE NamesApart DEF TypeOK, disk, local, run, Goto, Steps
<1>1. CASE Differs(p, i) \/ BackupRefused(p, i)
  BY <1>1, LookType
<1>2. CASE ClearStale(p, i)
  BY <1>2 DEF ClearStale
<1>3. CASE LinkBackup(p, i)
  <2>1. dest[i] \in Inodes
    BY <1>3 DEF LinkBackup, Found
  <2>2. QED BY <1>3, <2>1 DEF LinkBackup
<1>4. ASSUME NEW k \in 1..MaxFiles, OpenCopy(p, i, k) PROVE TypeOK'
  <2>1. <<i, k>> \in Inodes /\ dest[i] \in Inodes
    BY <1>4 DEF OpenCopy, Found, Inodes
  <2>2. QED BY <1>4, <2>1 DEF OpenCopy
<1>5. CASE CopyBackup(p, i)
  <2>1. in[p] \in Inodes /\ out[p] \in Inodes
    BY <1>5 DEF CopyBackup, Found
  <2>2. QED BY <1>5, <2>1 DEF CopyBackup
<1>6. CASE CopyFails(p, i)
  BY <1>6 DEF CopyFails
<1>7. QED BY <1>1, <1>2, <1>3, <1>4, <1>5, <1>6 DEF BackUp

\* Installing, rolling back, cleaning up.
LEMMA WriteType ==
  ASSUME TypeOK, NEW p \in Upgraders,
         \/ \E i \in Items : Replace(p, i) \/ DropBackup(p, i) \/ RollBack(p, i)
         \/ SyncTemp(p) \/ InstallFails(p) \/ Kill(p)
  PROVE  TypeOK'
<1> USE NamesApart DEF TypeOK, disk, local, run, Goto, Steps
<1>1. ASSUME NEW i \in Items, NEW k \in 1..MaxFiles, WriteTemp(p, i, k) PROVE TypeOK'
  <2>1. <<i, k>> \in Inodes /\ want[p][i] \in Versions
    BY <1>1 DEF Inodes
  <2>2. QED BY <1>1, <2>1 DEF WriteTemp
<1>2. ASSUME NEW i \in Items, Install(p, i) PROVE TypeOK'
  BY <1>2 DEF Install
<1>3. ASSUME NEW i \in Items, DropBackup(p, i) PROVE TypeOK'
  BY <1>3 DEF DropBackup
<1>4. ASSUME NEW i \in Items, RollBack(p, i) PROVE TypeOK'
  <2>1. CASE Restore(p, i)
    BY <2>1 DEF Restore
  <2>2. CASE RestoreFails(p, i)
    BY <2>2 DEF RestoreFails
  <2>3. CASE RemoveSaved(p, i)
    BY <2>3 DEF RemoveSaved
  <2>4. QED BY <1>4, <2>1, <2>2, <2>3 DEF RollBack
<1>5. CASE SyncTemp(p) \/ InstallFails(p)
  <2>1. CASE SyncTemp(p)
    BY <2>1 DEF SyncTemp
  <2>2. CASE InstallFails(p)
    BY <2>2 DEF InstallFails
  <2>3. QED BY <1>5, <2>1, <2>2
<1>6. CASE Kill(p)
  BY <1>6 DEF Kill
<1>7. QED BY <1>1, <1>2, <1>3, <1>4, <1>5, <1>6 DEF Replace

\* Every step keeps the types.
LEMMA TypeStep == TypeOK /\ Found /\ [Next]_vars => TypeOK'
<1> SUFFICES ASSUME TypeOK, Found, [Next]_vars PROVE TypeOK'
  OBVIOUS
<1>1. CASE PowerLoss
  <2>1. data' \in [Inodes -> Versions \cup {Torn}] /\ dirty' = {}
    BY <1>1 DEF PowerLoss, TypeOK
  <2>2. ended' \in [Upgraders -> {"none", "ok", "failed", "killed", "power"}]
    BY <1>1 DEF PowerLoss, TypeOK
  <2>3. /\ pc' = [p \in Upgraders |-> "idle"] /\ out' = [p \in Upgraders |-> NoFile]
        /\ in' = [p \in Upgraders |-> NoFile]
        /\ todo' = [p \in Upgraders |-> {}] /\ done' = [p \in Upgraders |-> {}]
        /\ UNCHANGED <<dest, saved, run, lost>>
    BY <1>1 DEF PowerLoss
  <2>4. QED BY <2>1, <2>2, <2>3 DEF TypeOK, run
<1>2. CASE UNCHANGED vars
  BY <1>2 DEF TypeOK, vars, disk, local, run
<1>3. QED BY <1>1, <1>2, LookType, BackUpType, WriteType DEF Next, ReplaceAll

\* A run is at one item.
LEMMA OneAt ==
  ASSUME NEW p \in Upgraders, NEW i \in Items, NEW j \in Items, At(p, i), At(p, j)
  PROVE  i = j
BY SizeAssumption DEF SizeAssumption, Items, At

\* What a step does to the progress of one run, as far as Found is concerned.
LEMMA FoundCases ==
  ASSUME TypeOK, [Next]_vars, NEW q \in Upgraders
  PROVE  \/ pc'[q] = pc[q] /\ todo'[q] = todo[q] /\ in'[q] = in[q]
         \/ pc'[q] \notin {"hash", "clear", "link", "copy"}
         \/ \E i \in Items : \/ StatRegular(q, i) \/ Differs(q, i) \/ ClearStale(q, i)
                            \/ \E k \in 1..MaxFiles : OpenCopy(q, i, k)
<1> USE DEF TypeOK, Goto, local
<1>1. ASSUME NEW p \in Upgraders, p # q, \/ \E w \in [Items -> Versions], items \in SUBSET Items : Begin(p, w, items)
                                        \/ Kill(p)
      PROVE  pc'[q] = pc[q] /\ todo'[q] = todo[q] /\ in'[q] = in[q]
  BY <1>1 DEF Begin, Kill
<1>2. ASSUME NEW p \in Upgraders, p # q, NEW i \in Items,
             \/ StatAbsent(p, i) \/ StatRefused(p, i) \/ StatRegular(p, i)
             \/ Unchanged(p, i) \/ BackUp(p, i)
      PROVE  pc'[q] = pc[q] /\ todo'[q] = todo[q] /\ in'[q] = in[q]
  BY <1>2 DEF StatAbsent, StatRefused, StatRegular, Unchanged, BackUp, Differs, ClearStale,
              LinkBackup, OpenCopy, CopyBackup, BackupRefused, CopyFails
<1>3. ASSUME NEW p \in Upgraders, p # q, NEW i \in Items,
             Replace(p, i) \/ DropBackup(p, i) \/ RollBack(p, i)
      PROVE  pc'[q] = pc[q] /\ todo'[q] = todo[q] /\ in'[q] = in[q]
  BY <1>3 DEF Replace, WriteTemp, Install, DropBackup, RollBack, Restore, RestoreFails, RemoveSaved
<1>4. ASSUME NEW p \in Upgraders, p # q,
             SyncTemp(p) \/ InstallFails(p) \/ AllDone(p) \/ Succeed(p) \/ GiveUp(p)
      PROVE  pc'[q] = pc[q] /\ todo'[q] = todo[q] /\ in'[q] = in[q]
  BY <1>4 DEF SyncTemp, InstallFails, AllDone, Succeed, GiveUp
<1>5. ASSUME \/ \E w \in [Items -> Versions], items \in SUBSET Items : Begin(q, w, items)
             \/ Kill(q)
             \/ SyncTemp(q) \/ InstallFails(q) \/ AllDone(q) \/ Succeed(q) \/ GiveUp(q)
      PROVE  pc'[q] \notin {"hash", "clear", "link", "copy"}
  BY <1>5 DEF Begin, Kill, SyncTemp, InstallFails, AllDone, Succeed, GiveUp
<1>6. ASSUME NEW i \in Items,
             \/ StatAbsent(q, i) \/ StatRefused(q, i) \/ Unchanged(q, i)
             \/ LinkBackup(q, i) \/ CopyBackup(q, i) \/ BackupRefused(q, i) \/ CopyFails(q, i)
             \/ Replace(q, i) \/ DropBackup(q, i) \/ RollBack(q, i)
      PROVE  pc'[q] \notin {"hash", "clear", "link", "copy"}
  BY <1>6 DEF StatAbsent, StatRefused, Unchanged, LinkBackup, CopyBackup, BackupRefused, CopyFails,
              Replace, WriteTemp, Install, DropBackup, RollBack, Undoing, Restore, RestoreFails,
              RemoveSaved
<1>7. CASE PowerLoss
  BY <1>7 DEF PowerLoss
<1>8. CASE UNCHANGED vars
  BY <1>8 DEF vars
<1>9. QED
  <2>1. ASSUME NEW p \in Upgraders,
               \/ \E w \in [Items -> Versions], items \in SUBSET Items : Begin(p, w, items)
               \/ ReplaceAll(p)
               \/ Kill(p)
        PROVE  \/ pc'[q] = pc[q] /\ todo'[q] = todo[q] /\ in'[q] = in[q]
               \/ pc'[q] \notin {"hash", "clear", "link", "copy"}
               \/ \E i \in Items : \/ StatRegular(q, i) \/ Differs(q, i) \/ ClearStale(q, i)
                                  \/ \E k \in 1..MaxFiles : OpenCopy(q, i, k)
    <3>1. CASE p # q
      BY <1>1, <1>2, <1>3, <1>4, <2>1, <3>1 DEF ReplaceAll
    <3>2. CASE p = q
      BY <1>5, <1>6, <2>1, <3>2 DEF ReplaceAll, BackUp
    <3>3. QED BY <3>1, <3>2
  <2>2. QED BY <1>7, <1>8, <2>1 DEF Next

\* Every step keeps what a run has found.
LEMMA FoundStep == TypeOK /\ Found /\ [Next]_vars => Found'
<1> SUFFICES ASSUME TypeOK, Found, [Next]_vars, NEW q \in Upgraders,
                    pc'[q] \in {"hash", "clear", "link", "copy"}
             PROVE  /\ \A i \in Items : At(q, i)' => dest'[i] \in Inodes
                    /\ pc'[q] = "copy" => in'[q] \in Inodes
  BY DEF Found
<1>1. \A i \in Items : dest[i] \in Inodes => dest'[i] \in Inodes
  BY DestStays
<1>2. CASE pc'[q] = pc[q] /\ todo'[q] = todo[q] /\ in'[q] = in[q]
  BY <1>1, <1>2 DEF Found, At
<1>3. ASSUME NEW i \in Items,
             \/ StatRegular(q, i) \/ Differs(q, i) \/ ClearStale(q, i)
             \/ \E k \in 1..MaxFiles : OpenCopy(q, i, k)
      PROVE  /\ \A j \in Items : At(q, j)' => dest'[j] \in Inodes
             /\ pc'[q] = "copy" => in'[q] \in Inodes
  <2>1. At(q, i) /\ todo' = todo /\ dest[i] \in Inodes
    BY <1>3 DEF StatRegular, Differs, ClearStale, OpenCopy, Found, Goto, local
  <2>2. \A j \in Items : At(q, j)' => j = i
    BY <2>1, OneAt DEF At
  <2>3. pc'[q] = "copy" => in'[q] \in Inodes
    BY <1>3, <2>1 DEF TypeOK, StatRegular, Differs, ClearStale, OpenCopy, Goto
  <2>4. QED BY <1>1, <2>1, <2>2, <2>3
<1>4. QED BY <1>2, <1>3, FoundCases

-----------------------------------------------------------------------------
(* Theorems for any number of upgraders.                                   *)

\* Types are kept, and what a run has found stays where it is, in every
\* reachable state.
THEOREM SuiteInvariance == Spec => [](TypeOK /\ Found)
<1>1. Init => TypeOK /\ Found
  BY TypeInit
<1>2. TypeOK /\ Found /\ [Next]_vars => (TypeOK /\ Found)'
  BY TypeStep, FoundStep
<1>3. QED BY <1>1, <1>2, PTL DEF Spec

\* The types of replace.go's files and locals, however many runs there are.
THEOREM SuiteTypeCorrect == Spec => []TypeOK
BY SuiteInvariance, PTL

\* Replace and the rollback rename over a binary and never remove it: a
\* process starting it, during any number of upgrades, kills and power losses,
\* never finds its name free.
THEOREM NeverFree == Spec => NeverMissing
<1>1. TypeOK /\ [Next]_vars => [\A i \in Items : dest[i] \in Inodes => dest'[i] \in Inodes]_vars
  BY DestStays
<1>2. QED BY <1>1, SuiteTypeCorrect, PTL DEF Spec, NeverMissing

-----------------------------------------------------------------------------
(* One upgrader, and backups that are links wherever the power may fail.   *)

Forward == Steps \ {"commit", "undo", "unsave"}

\* No name leads to a file that is not whole and, where the power may fail,
\* synced; a backup stands beside a binary.
FilesInv ==
  /\ WholeBinaries
  /\ "power" \in Faults => \A i \in Items : dest[i] \notin dirty /\ saved[i] \notin dirty
  /\ \A i \in Items : saved[i] # NoFile => dest[i] \in Inodes

\* Where a run is in its list, and the file it is writing: no binary yet.
PlaceInv(p) ==
  /\ pc[p] = "idle" => done[p] = {}
  /\ pc[p] \in {"stat", "hash", "clear", "link", "copy"} => done[p] \cap todo[p] = {}
  /\ pc[p] \in {"temp", "sync", "rename"} => \A i \in done[p] \cap todo[p] : At(p, i)
  /\ pc[p] = "link" => \A i \in Items : At(p, i) => saved[i] = NoFile
  /\ pc[p] = "copy" =>
       /\ "power" \notin Faults
       /\ \A i \in Items : At(p, i) => in[p] = dest[i] /\ out[p] = saved[i]
       /\ \A j \in Items : out[p] # dest[j] /\ (out[p] = saved[j] => At(p, j))
  /\ pc[p] \in {"sync", "rename"} =>
       /\ \A j \in Items : out[p] # dest[j] /\ out[p] # saved[j]
       /\ \A i \in Items : At(p, i) => data[out[p]] = want[p][i]
  /\ pc[p] = "rename" /\ "power" \in Faults => out[p] \notin dirty

\* What is not dealt with is as it was.
Untouched(p) ==
  pc[p] \in Steps \ {"commit"} => \A i \in todo[p] : Content(i) = before[p][i]

\* What is backed up can be put back.
BackedUp(p) ==
  pc[p] \in Steps \ {"commit"} =>
    \A i \in done[p] :
      IF pc[p] = "unsave" /\ Undoing(p, i) THEN i \in lost[p] \/ Content(i) = before[p][i]
      ELSE saved[i] \in Inodes /\ data[saved[i]] = before[p][i]

\* What is not backed up need not be put back.
Kept(p) ==
  /\ pc[p] \in Steps \ {"commit"} =>
       \A i \in plan[p] \ (done[p] \cup lost[p]) :
         before[p][i] # NoFile => Content(i) = before[p][i]
  /\ pc[p] \in {"temp", "sync", "rename"} =>
       \A i \in Items : At(p, i) /\ i \notin done[p] =>
         before[p][i] = NoFile /\ saved[i] = NoFile

\* What is dealt with is installed.
Installed(p) ==
  pc[p] \in Forward \cup {"commit"} =>
    /\ \A i \in plan[p] \ todo[p] : Content(i) = want[p][i]
    /\ \A i \in plan[p] \ (todo[p] \cup done[p]) :
         before[p][i] = want[p][i] \/ saved[i] = NoFile

\* A run has not ended, works on its plan, and found no binary torn.
Running(p) ==
  /\ pc[p] # "idle" => ended[p] = "none" /\ todo[p] \subseteq plan[p] /\ done[p] \subseteq plan[p]
  /\ pc[p] = "commit" => todo[p] = {}
  /\ \A i \in Items : before[p][i] # Torn

\* Items are dealt with in order and undone in the opposite order.
Ordered(p) ==
  /\ pc[p] # "idle" => \A i \in todo[p], j \in plan[p] \ todo[p] : j < i
  /\ pc[p] \in {"undo", "unsave"} =>
       \A i \in plan[p] \ todo[p] :
         Content(i) = want[p][i] \/ \A j \in done[p] : j <= i

RunInv(p) ==
  Running(p) /\ Untouched(p) /\ BackedUp(p) /\ Kept(p) /\ Installed(p) /\ Ordered(p)

Inv(p) == FilesInv /\ PlaceInv(p) /\ RunInv(p)

\* What is left of a run: its outcome is as reported.
Outcome == SuccessInstalls /\ FailureRestores /\ OldVersionSurvives /\ HelpersFirst
Ended(p) == pc[p] = "idle" => Outcome

\* The old or the new versions can be found.
Survives(p) ==
  \/ \A i \in plan[p] : Content(i) = want[p][i]
  \/ \A i \in plan[p] : before[p][i] \in Versions =>
       OldIsThere(p, i) \/ (i \in lost[p] /\ Content(i) = want[p][i])

\* A binary of the plan never holds anything but its old and its new version.
NoThird(p) ==
  pc[p] # "idle" => \A i \in plan[p] : Content(i) \in {before[p][i], want[p][i]}

\* The upgrader is alone, and has no power to fear where it copies.
Alone(u) == Upgraders = {u} /\ ("link" \notin Faults \/ "power" \notin Faults)

\* The steps that only look.
LEMMA LookKeeps ==
  ASSUME NEW u, Alone(u), TypeOK, Found, Inv(u),
         \/ \E i \in Items : \/ StatAbsent(u, i) \/ StatRefused(u, i) \/ StatRegular(u, i)
                            \/ Differs(u, i) \/ BackupRefused(u, i)
         \/ AllDone(u)
  PROVE  Inv(u)'
<1> USE NamesApart DEF Alone
<1>1. /\ UNCHANGED <<dest, saved, data, dirty, in, out, want, plan, before, lost, ended, todo, done>>
      /\ \/ pc[u] = "stat" /\ pc'[u] = "hash"
         \/ pc[u] = "hash" /\ pc'[u] = "clear"
         \/ pc[u] \in {"stat", "link"} /\ pc'[u] = "undo"
         \/ pc[u] = "stat" /\ pc'[u] = "commit" /\ todo[u] = {}
         \/ pc[u] = "stat" /\ pc'[u] = "temp" /\ \E i \in Items : At(u, i) /\ dest[i] = NoFile
  BY DEF StatAbsent, StatRefused, StatRegular, Differs, BackupRefused, AllDone, Goto,
         disk, local, run, TypeOK
<1>2. FilesInv'
  BY <1>1 DEF Inv, FilesInv, WholeBinaries, Content
<1>3. PlaceInv(u)'
  BY <1>1 DEF Inv, PlaceInv, At
<1>4. Running(u)' /\ Untouched(u)' /\ Installed(u)'
  BY <1>1 DEF Inv, RunInv, Running, Untouched, Installed, Content, Forward, Steps, TypeOK
<1>5. BackedUp(u)'
  BY <1>1 DEF Inv, RunInv, BackedUp, Content, Undoing, Steps
<1>6. Kept(u)'
  <2>1. \A i \in Items : pc[u] = "stat" /\ At(u, i) /\ dest[i] = NoFile =>
          before[u][i] = NoFile /\ saved[i] = NoFile
    BY DEF Inv, RunInv, Untouched, FilesInv, Content, At, Forward, Steps
  <2>2. \A i, j \in Items : At(u, i) /\ At(u, j) => i = j
    BY OneAt DEF At
  <2>3. QED BY <1>1, <2>1, <2>2 DEF Inv, RunInv, Kept, Content, At, Steps
<1>7. Ordered(u)'
  BY <1>1 DEF Inv, RunInv, Installed, Ordered, Content, Forward, Steps, TypeOK
<1>8. QED BY <1>2, <1>3, <1>4, <1>5, <1>6, <1>7 DEF Inv, RunInv

\* Dealing with the item a run is at keeps the order.
LEMMA NextInOrder ==
  ASSUME TypeOK, NEW u \in Upgraders, NEW i \in Items, At(u, i),
         \A k \in todo[u], j \in plan[u] \ todo[u] : j < k
  PROVE  \A k \in todo[u] \ {i}, j \in plan[u] \ (todo[u] \ {i}) : j < k
BY SizeAssumption DEF SizeAssumption, Items, At, TypeOK

\* A binary that is what it should be.
LEMMA UnchangedKeeps ==
  ASSUME NEW u, Alone(u), TypeOK, Found, Inv(u), NEW i \in Items, Unchanged(u, i)
  PROVE  Inv(u)'
<1> USE NamesApart DEF Alone
<1>1. /\ UNCHANGED <<dest, saved, data, dirty, in, out, want, plan, before, lost, ended, done>>
      /\ pc[u] = "hash" /\ pc'[u] = "stat" /\ todo'[u] = todo[u] \ {i}
      /\ At(u, i) /\ Content(i) = want[u][i]
  BY DEF Unchanged, Goto, disk, run, TypeOK
<1>2. before[u][i] = want[u][i]
  BY <1>1 DEF Inv, RunInv, Untouched, At, Forward, Steps
<1>3. FilesInv' /\ PlaceInv(u)'
  BY <1>1 DEF Inv, FilesInv, WholeBinaries, Content, PlaceInv
<1>4. Running(u)' /\ Untouched(u)' /\ Installed(u)'
  BY <1>1, <1>2 DEF Inv, RunInv, Running, Untouched, Installed, Content, Forward, Steps, TypeOK
<1>5. BackedUp(u)' /\ Kept(u)'
  BY <1>1 DEF Inv, RunInv, BackedUp, Kept, Content, Steps
<1>6. Ordered(u)'
  BY <1>1, NextInOrder DEF Inv, RunInv, Running, Ordered
<1>7. QED BY <1>3, <1>4, <1>5, <1>6 DEF Inv, RunInv

\* A backup by a hard link, once the name is free.
LEMMA LinkKeeps ==
  ASSUME NEW u, Alone(u), TypeOK, Found, Inv(u), NEW i \in Items,
         ClearStale(u, i) \/ LinkBackup(u, i)
  PROVE  Inv(u)'
<1> USE NamesApart DEF Alone
<1>1. /\ UNCHANGED <<dest, data, dirty, in, out, want, plan, before, lost, ended, todo>>
      /\ At(u, i) /\ dest[i] \in Inodes
  BY DEF ClearStale, LinkBackup, Goto, disk, local, run, Found
<1>2. \A j \in Items : At(u, j) => i = j
  BY <1>1, OneAt
<1>3. CASE ClearStale(u, i)
  <2>1. /\ pc[u] = "clear" /\ pc'[u] = "link" /\ done' = done
        /\ saved' = [saved EXCEPT ![i] = NoFile] /\ i \notin done[u]
    BY <1>1, <1>3 DEF ClearStale, Goto, local, TypeOK, Inv, PlaceInv, At
  <2>2. FilesInv' /\ PlaceInv(u)'
    BY <1>1, <1>2, <2>1 DEF Inv, FilesInv, WholeBinaries, Content, PlaceInv, At, TypeOK
  <2>3. Running(u)' /\ Untouched(u)' /\ Installed(u)'
    BY <1>1, <2>1 DEF Inv, RunInv, Running, Untouched, Installed, Content, Forward, Steps, TypeOK
  <2>4. BackedUp(u)' /\ Kept(u)'
    BY <1>1, <2>1 DEF Inv, RunInv, BackedUp, Kept, Content, Steps, TypeOK
  <2>5. Ordered(u)'
    BY <1>1, <2>1 DEF Inv, RunInv, Ordered
  <2>6. QED BY <2>2, <2>3, <2>4, <2>5 DEF Inv, RunInv
<1>4. CASE LinkBackup(u, i)
  <2>1. /\ pc[u] = "link" /\ pc'[u] = "temp" /\ done'[u] = done[u] \cup {i}
        /\ saved' = [saved EXCEPT ![i] = dest[i]] /\ i \in todo[u]
    BY <1>1, <1>4 DEF LinkBackup, Goto, TypeOK, At
  <2>2. data[dest[i]] = before[u][i]
    BY <1>1, <2>1 DEF Inv, RunInv, Untouched, Content, Forward, Steps
  <2>3. FilesInv' /\ PlaceInv(u)'
    BY <1>1, <1>2, <2>1 DEF Inv, FilesInv, WholeBinaries, Content, PlaceInv, At, TypeOK
  <2>4. Running(u)' /\ Untouched(u)' /\ Installed(u)'
    BY <1>1, <2>1 DEF Inv, RunInv, Running, Untouched, Installed, Content, Forward, Steps, TypeOK
  <2>5. BackedUp(u)' /\ Kept(u)'
    BY <1>1, <1>2, <2>1, <2>2 DEF Inv, RunInv, BackedUp, Kept, Content, Steps, TypeOK, At
  <2>6. Ordered(u)'
    BY <1>1, <2>1 DEF Inv, RunInv, Ordered
  <2>7. QED BY <2>3, <2>4, <2>5, <2>6 DEF Inv, RunInv
<1>5. QED BY <1>3, <1>4

\* A backup by copying.
LEMMA CopyKeeps ==
  ASSUME NEW u, Alone(u), TypeOK, Found, Inv(u), NEW i \in Items,
         \/ \E k \in 1..MaxFiles : OpenCopy(u, i, k)
         \/ CopyBackup(u, i) \/ CopyFails(u, i)
  PROVE  Inv(u)'
<1> USE NamesApart DEF Alone
<1>1. /\ UNCHANGED <<dest, want, plan, before, lost, ended, todo>>
      /\ At(u, i) /\ i \in todo[u] /\ i \notin done[u]
      /\ pc[u] \in {"link", "copy"} /\ dest[i] \in Inodes
  BY DEF OpenCopy, CopyBackup, CopyFails, Goto, disk, local, run, Found, Inv, PlaceInv, At
<1>2. \A j \in Items : At(u, j) => i = j
  BY <1>1, OneAt
<1>3. data[dest[i]] = before[u][i]
  BY <1>1 DEF Inv, RunInv, Untouched, Content, Forward, Steps
<1>4. ASSUME NEW k \in 1..MaxFiles, OpenCopy(u, i, k) PROVE Inv(u)'
  <2> DEFINE n == <<i, k>>
  <2>1. /\ pc[u] = "link" /\ pc'[u] = "copy" /\ done' = done
        /\ saved' = [saved EXCEPT ![i] = n] /\ data' = [data EXCEPT ![n] = Torn]
        /\ in'[u] = dest[i] /\ out'[u] = n /\ n \in Inodes
    BY <1>4 DEF OpenCopy, Goto, TypeOK, Inodes
  <2>2. /\ saved[i] = NoFile /\ "link" \in Faults
        /\ \A j \in Items : n # dest[j] /\ n # saved[j]
    BY <1>1, <1>4, <2>1 DEF OpenCopy, Inv, PlaceInv, Fresh, InUse
  <2> HIDE DEF n
  <2>3. FilesInv'
    BY <1>1, <2>1, <2>2 DEF Inv, FilesInv, WholeBinaries, Content, TypeOK
  <2>4. PlaceInv(u)'
    BY <1>1, <1>2, <2>1, <2>2 DEF Inv, PlaceInv, At, TypeOK
  <2>5. Running(u)' /\ Untouched(u)' /\ Installed(u)'
    BY <1>1, <2>1, <2>2 DEF Inv, RunInv, Running, Untouched, Installed, Content, Forward, Steps, TypeOK
  <2>6. BackedUp(u)' /\ Kept(u)'
    BY <1>1, <2>1, <2>2 DEF Inv, RunInv, BackedUp, Kept, Content, Steps, TypeOK
  <2>7. Ordered(u)'
    BY <1>1, <2>1 DEF Inv, RunInv, Ordered
  <2>8. QED BY <2>3, <2>4, <2>5, <2>6, <2>7 DEF Inv, RunInv
<1>5. CASE CopyBackup(u, i)
  <2>1. /\ pc[u] = "copy" /\ pc'[u] = "temp" /\ done'[u] = done[u] \cup {i}
        /\ data' = [data EXCEPT ![out[u]] = data[dest[i]]]
        /\ UNCHANGED <<saved, dirty>>
        /\ out[u] = saved[i] /\ out[u] \in Inodes /\ "power" \notin Faults
    BY <1>1, <1>5 DEF CopyBackup, Goto, TypeOK, Inv, PlaceInv
  <2>2. \A j \in Items : out[u] # dest[j] /\ (out[u] = saved[j] => j = i)
    BY <1>2, <2>1 DEF Inv, PlaceInv
  <2>3. FilesInv'
    BY <1>1, <2>1, <2>2 DEF Inv, FilesInv, WholeBinaries, Content, TypeOK
  <2>4. PlaceInv(u)'
    BY <1>1, <1>2, <2>1, <2>2 DEF Inv, PlaceInv, At, TypeOK
  <2>5. Running(u)' /\ Untouched(u)' /\ Installed(u)'
    BY <1>1, <2>1, <2>2 DEF Inv, RunInv, Running, Untouched, Installed, Content, Forward, Steps, TypeOK
  <2>6. BackedUp(u)' /\ Kept(u)'
    BY <1>1, <1>2, <1>3, <2>1, <2>2 DEF Inv, RunInv, BackedUp, Kept, Content, Steps, TypeOK, At
  <2>7. Ordered(u)'
    BY <1>1, <2>1 DEF Inv, RunInv, Ordered
  <2>8. QED BY <2>3, <2>4, <2>5, <2>6, <2>7 DEF Inv, RunInv
<1>6. CASE CopyFails(u, i)
  <2>1. /\ pc[u] = "copy" /\ pc'[u] = "undo" /\ done' = done
        /\ UNCHANGED <<data, dirty>> /\ "power" \notin Faults
        /\ saved' = saved \/ saved' = [saved EXCEPT ![i] = NoFile]
    BY <1>1, <1>6 DEF CopyFails, Goto, TypeOK, Inv, PlaceInv
  <2>2. FilesInv' /\ PlaceInv(u)'
    BY <1>1, <2>1 DEF Inv, FilesInv, WholeBinaries, Content, PlaceInv, TypeOK
  <2>3. Running(u)' /\ Untouched(u)' /\ Installed(u)'
    BY <1>1, <2>1 DEF Inv, RunInv, Running, Untouched, Installed, Content, Forward, Steps, TypeOK
  <2>4. BackedUp(u)' /\ Kept(u)'
    BY <1>1, <2>1 DEF Inv, RunInv, BackedUp, Kept, Content, Steps, TypeOK
  <2>5. Ordered(u)'
    BY <1>1, <2>1 DEF Inv, RunInv, Installed, Ordered, Content, Forward, Steps, TypeOK
  <2>6. QED BY <2>2, <2>3, <2>4, <2>5 DEF Inv, RunInv
<1>7. QED BY <1>4, <1>5, <1>6

\* Writing the new binary beside the old one.
LEMMA TempKeeps ==
  ASSUME NEW u, Alone(u), TypeOK, Found, Inv(u),
         \/ \E i \in Items, k \in 1..MaxFiles : WriteTemp(u, i, k)
         \/ SyncTemp(u) \/ InstallFails(u)
  PROVE  Inv(u)'
<1> USE NamesApart DEF Alone
<1>1. UNCHANGED <<dest, saved, want, plan, before, lost, ended, todo, done>>
  BY DEF WriteTemp, SyncTemp, InstallFails, disk, local, run
<1>2. ASSUME NEW i \in Items, NEW k \in 1..MaxFiles, WriteTemp(u, i, k) PROVE Inv(u)'
  <2> DEFINE n == <<i, k>>
  <2>1. /\ At(u, i) /\ pc[u] = "temp" /\ pc'[u] = "sync" /\ out'[u] = n /\ n \in Inodes
        /\ data' = [data EXCEPT ![n] = want[u][i]] /\ dirty' = dirty \cup {n}
    BY <1>2 DEF WriteTemp, Goto, TypeOK, Inodes
  <2>2. \A j \in Items : n # dest[j] /\ n # saved[j]
    BY <1>2 DEF WriteTemp, Fresh, InUse
  <2> HIDE DEF n
  <2>3. \A j \in Items : At(u, j) => i = j
    BY <2>1, OneAt
  <2>4. FilesInv'
    BY <1>1, <2>1, <2>2 DEF Inv, FilesInv, WholeBinaries, Content, TypeOK
  <2>5. PlaceInv(u)'
    BY <1>1, <2>1, <2>2, <2>3 DEF Inv, PlaceInv, At, TypeOK
  <2>6. Running(u)' /\ Untouched(u)' /\ Installed(u)'
    BY <1>1, <2>1, <2>2 DEF Inv, RunInv, Running, Untouched, Installed, Content, Forward, Steps, TypeOK
  <2>7. BackedUp(u)' /\ Kept(u)'
    BY <1>1, <2>1, <2>2 DEF Inv, RunInv, BackedUp, Kept, Content, Steps, TypeOK, At
  <2>8. Ordered(u)'
    BY <1>1, <2>1 DEF Inv, RunInv, Ordered
  <2>9. QED BY <2>4, <2>5, <2>6, <2>7, <2>8 DEF Inv, RunInv
<1>3. CASE SyncTemp(u)
  <2>1. /\ pc[u] = "sync" /\ pc'[u] = "rename" /\ out' = out /\ data' = data
        /\ dirty' = dirty \ {out[u]}
    BY <1>3 DEF SyncTemp, Goto, TypeOK, local
  <2>2. FilesInv' /\ PlaceInv(u)'
    BY <1>1, <2>1 DEF Inv, FilesInv, WholeBinaries, Content, PlaceInv, At, TypeOK
  <2>3. Running(u)' /\ Untouched(u)' /\ Installed(u)'
    BY <1>1, <2>1 DEF Inv, RunInv, Running, Untouched, Installed, Content, Forward, Steps, TypeOK
  <2>4. BackedUp(u)' /\ Kept(u)'
    BY <1>1, <2>1 DEF Inv, RunInv, BackedUp, Kept, Content, Steps, TypeOK, At
  <2>5. Ordered(u)'
    BY <1>1, <2>1 DEF Inv, RunInv, Ordered
  <2>6. QED BY <2>2, <2>3, <2>4, <2>5 DEF Inv, RunInv
<1>4. CASE InstallFails(u)
  <2>1. /\ pc[u] \in {"temp", "sync", "rename"} /\ pc'[u] = "undo"
        /\ UNCHANGED <<data, dirty>>
    BY <1>4 DEF InstallFails, Goto, TypeOK, disk
  <2>2. FilesInv' /\ PlaceInv(u)'
    BY <1>1, <2>1 DEF Inv, FilesInv, WholeBinaries, Content, PlaceInv, At, TypeOK
  <2>3. Running(u)' /\ Untouched(u)' /\ Installed(u)'
    BY <1>1, <2>1 DEF Inv, RunInv, Running, Untouched, Installed, Content, Forward, Steps, TypeOK
  <2>4. BackedUp(u)' /\ Kept(u)'
    BY <1>1, <2>1 DEF Inv, RunInv, BackedUp, Kept, Content, Steps, TypeOK, At
  <2>5. Ordered(u)'
    BY <1>1, <2>1 DEF Inv, RunInv, Installed, Ordered, Content, Forward, Steps, TypeOK
  <2>6. QED BY <2>2, <2>3, <2>4, <2>5 DEF Inv, RunInv
<1>5. QED BY <1>2, <1>3, <1>4

\* Renaming it into place.
LEMMA InstallKeeps ==
  ASSUME NEW u, Alone(u), TypeOK, Found, Inv(u), NEW i \in Items, Install(u, i)
  PROVE  Inv(u)'
<1> USE NamesApart DEF Alone
<1>1. /\ UNCHANGED <<saved, data, dirty, want, plan, before, lost, ended, done>>
      /\ At(u, i) /\ i \in todo[u] /\ pc[u] = "rename" /\ pc'[u] = "stat"
      /\ dest' = [dest EXCEPT ![i] = out[u]] /\ todo'[u] = todo[u] \ {i}
      /\ out[u] \in Inodes
  BY DEF Install, Goto, TypeOK, run, At
<1>2. \A j \in Items : At(u, j) => i = j
  BY <1>1, OneAt
<1>3. data[out[u]] = want[u][i] /\ want[u][i] \in Versions
  BY <1>1 DEF Inv, PlaceInv, TypeOK
<1>4. i \notin done[u] => before[u][i] = NoFile /\ saved[i] = NoFile
  BY <1>1 DEF Inv, RunInv, Kept
<1>5. FilesInv'
  BY <1>1, <1>3 DEF Inv, FilesInv, WholeBinaries, Content, PlaceInv, TypeOK
<1>6. PlaceInv(u)'
  BY <1>1, <1>2 DEF Inv, PlaceInv, TypeOK
<1>7. Running(u)' /\ Untouched(u)'
  BY <1>1 DEF Inv, RunInv, Running, Untouched, Content, Forward, Steps, TypeOK
<1>8. Installed(u)'
  BY <1>1, <1>3, <1>4 DEF Inv, RunInv, Installed, Content, Forward, Steps, TypeOK
<1>9. BackedUp(u)' /\ Kept(u)'
  BY <1>1, <1>4 DEF Inv, RunInv, BackedUp, Kept, Content, Steps, TypeOK
<1>10. Ordered(u)'
  BY <1>1, NextInOrder DEF Inv, RunInv, Running, Ordered
<1>11. QED BY <1>5, <1>6, <1>7, <1>8, <1>9, <1>10 DEF Inv, RunInv

\* Removing the backups of a run that went well.
LEMMA CommitKeeps ==
  ASSUME NEW u, Alone(u), TypeOK, Found, Inv(u), NEW i \in Items, DropBackup(u, i)
  PROVE  Inv(u)'
<1> USE NamesApart DEF Alone
<1>1. /\ UNCHANGED <<dest, data, dirty, want, plan, before, lost, ended, todo>>
      /\ pc[u] = "commit" /\ pc'[u] = "commit"
      /\ saved' = [saved EXCEPT ![i] = NoFile] /\ done'[u] = done[u] \ {i}
  BY DEF DropBackup, TypeOK, run
<1>2. FilesInv' /\ PlaceInv(u)'
  BY <1>1 DEF Inv, FilesInv, WholeBinaries, Content, PlaceInv, TypeOK
<1>3. Running(u)' /\ Untouched(u)' /\ BackedUp(u)' /\ Kept(u)'
  BY <1>1 DEF Inv, RunInv, Running, Untouched, BackedUp, Kept, Forward, Steps, TypeOK
<1>4. Installed(u)'
  BY <1>1 DEF Inv, RunInv, Installed, Content, Forward, Steps, TypeOK
<1>5. Ordered(u)'
  BY <1>1 DEF Inv, RunInv, Ordered
<1>6. QED BY <1>2, <1>3, <1>4, <1>5 DEF Inv, RunInv

\* A rollback is at one item.
LEMMA OneUndone ==
  ASSUME NEW u \in Upgraders, NEW i \in Items, NEW j \in Items, Undoing(u, i), Undoing(u, j)
  PROVE  i = j
BY SizeAssumption DEF SizeAssumption, Items, Undoing

\* Rolling back.
LEMMA RollBackKeeps ==
  ASSUME NEW u, Alone(u), TypeOK, Found, Inv(u), NEW i \in Items, RollBack(u, i)
  PROVE  Inv(u)'
<1> USE NamesApart DEF Alone
<1>1. /\ UNCHANGED <<data, dirty, want, plan, before, ended, todo>>
      /\ Undoing(u, i) /\ i \in done[u]
  BY DEF RollBack, Restore, RestoreFails, RemoveSaved, disk, local, run, Undoing
<1>2. \A j \in Items : Undoing(u, j) => i = j
  BY <1>1, OneUndone
<1>3. CASE Restore(u, i)
  <2>1. /\ pc[u] = "undo" /\ pc'[u] = "unsave" /\ UNCHANGED <<done, lost>>
    BY <1>3 DEF Restore, Goto, TypeOK, local
  <2>2. saved[i] \in Inodes /\ data[saved[i]] = before[u][i]
    BY <1>1, <2>1 DEF Inv, RunInv, BackedUp, Steps
  <2>3. /\ dest' = [dest EXCEPT ![i] = saved[i]]
        /\ saved' = saved \/ saved' = [saved EXCEPT ![i] = NoFile]
    BY <1>3, <2>2 DEF Restore, TypeOK
  <2>4. dest[i] \in Inodes /\ data[saved[i]] \in Versions
    <3>1. before[u][i] # Torn /\ dest[i] \in Inodes
      BY <2>2 DEF Inv, FilesInv, RunInv, Running
    <3>2. QED BY <2>2, <3>1 DEF TypeOK
  <2>5. FilesInv'
    BY <1>1, <2>2, <2>3, <2>4 DEF Inv, FilesInv, WholeBinaries, Content, TypeOK
  <2>6. PlaceInv(u)' /\ Running(u)' /\ Untouched(u)' /\ Installed(u)'
    BY <1>1, <2>1, <2>2, <2>3 DEF Inv, RunInv, Running, Untouched, Installed, PlaceInv, Content,
                                  Forward, Steps, TypeOK
  <2>7. BackedUp(u)'
    BY <1>1, <1>2, <2>1, <2>2, <2>3 DEF Inv, RunInv, BackedUp, Undoing, Content, Steps, TypeOK
  <2>8. Kept(u)'
    BY <1>1, <2>1, <2>2, <2>3 DEF Inv, RunInv, Kept, Content, Steps, TypeOK
  <2>9. Ordered(u)'
    BY <1>1, <2>1, <2>3 DEF Inv, RunInv, Ordered, Undoing, Content, TypeOK
  <2>10. QED BY <2>5, <2>6, <2>7, <2>8, <2>9 DEF Inv, RunInv
<1>4. CASE RestoreFails(u, i)
  <2>1. /\ pc[u] = "undo" /\ pc'[u] = "unsave" /\ UNCHANGED <<dest, saved, done>>
        /\ lost'[u] = lost[u] \cup {i}
    BY <1>4 DEF RestoreFails, Goto, TypeOK, local, disk
  <2>2. FilesInv' /\ PlaceInv(u)' /\ Running(u)' /\ Untouched(u)' /\ Installed(u)'
    BY <1>1, <2>1 DEF Inv, FilesInv, WholeBinaries, Content, RunInv, Running, Untouched, Installed,
                      PlaceInv, Forward, Steps, TypeOK
  <2>3. BackedUp(u)' /\ Kept(u)'
    BY <1>1, <1>2, <2>1 DEF Inv, RunInv, BackedUp, Kept, Undoing, Content, Steps, TypeOK
  <2>4. Ordered(u)'
    BY <1>1, <2>1 DEF Inv, RunInv, Ordered, Content
  <2>5. QED BY <2>2, <2>3, <2>4 DEF Inv, RunInv
<1>5. CASE RemoveSaved(u, i)
  <2>1. /\ pc[u] = "unsave" /\ pc'[u] = "undo" /\ UNCHANGED <<dest, lost>>
        /\ done'[u] = done[u] \ {i} /\ saved' = [saved EXCEPT ![i] = NoFile]
    BY <1>5 DEF RemoveSaved, Goto, TypeOK
  <2>2. FilesInv' /\ PlaceInv(u)' /\ Running(u)' /\ Untouched(u)' /\ Installed(u)'
    BY <1>1, <2>1 DEF Inv, FilesInv, WholeBinaries, Content, RunInv, Running, Untouched, Installed,
                      PlaceInv, Forward, Steps, TypeOK
  <2>3. BackedUp(u)'
    BY <1>1, <1>2, <2>1 DEF Inv, RunInv, BackedUp, Undoing, Content, Steps, TypeOK
  <2>4. Kept(u)'
    BY <1>1, <2>1 DEF Inv, RunInv, BackedUp, Kept, Content, Steps, TypeOK
  <2>5. Ordered(u)'
    BY <1>1, <2>1 DEF Inv, RunInv, Ordered, Content
  <2>6. QED BY <2>2, <2>3, <2>4, <2>5 DEF Inv, RunInv
<1>6. QED BY <1>3, <1>4, <1>5 DEF RollBack

\* The first state.
LEMMA AloneInit ==
  ASSUME NEW u, Alone(u), Init
  PROVE  Inv(u) /\ Ended(u)
<1> USE NamesApart DEF Alone
<1>1. /\ u \in Upgraders /\ TypeOK
      /\ saved = [i \in Items |-> NoFile] /\ dirty = {}
      /\ pc[u] = "idle" /\ done[u] = {} /\ ended[u] = "none"
      /\ before[u] = [i \in Items |-> NoFile]
  BY TypeInit DEF Init
<1>2. WholeBinaries
  <2>1. PICK c \in [Items -> Versions] :
          data = [n \in Inodes |-> IF dest[n[1]] = n THEN c[n[1]] ELSE Torn]
    BY DEF Init
  <2>2. \A i \in Items : dest[i] \in Inodes => dest[i] = <<i, 1>>
    BY DEF Init
  <2>3. QED BY <2>1, <2>2 DEF WholeBinaries, Content
<1>3. FilesInv /\ PlaceInv(u)
  BY <1>1, <1>2 DEF FilesInv, PlaceInv, TypeOK
<1>4. RunInv(u)
  BY <1>1 DEF RunInv, Running, Untouched, BackedUp, Kept, Installed, Ordered, Forward, Steps
<1>5. Ended(u)
  <2>1. plan[u] = {}
    BY DEF Init
  <2>2. QED BY <1>1, <2>1 DEF Ended, Outcome, SuccessInstalls, FailureRestores,
                              OldVersionSurvives, HelpersFirst, Steps
<1>6. QED BY <1>3, <1>4, <1>5 DEF Inv

\* A run that begins finds what is there.
LEMMA BeginKeeps ==
  ASSUME NEW u, Alone(u), TypeOK, Found, Inv(u),
         NEW w \in [Items -> Versions], NEW items \in SUBSET Items, Begin(u, w, items)
  PROVE  Inv(u)'
<1> USE NamesApart DEF Alone
<1>1. /\ UNCHANGED <<dest, saved, out>>
      /\ pc[u] = "idle" /\ pc'[u] = "stat" /\ todo'[u] = items /\ done'[u] = {}
      /\ plan'[u] = items /\ lost'[u] = {} /\ ended'[u] = "none"
      /\ dirty' \subseteq dirty
  BY DEF Begin, Goto, TypeOK, Inv, PlaceInv
<1>2. /\ \A i \in Items : dest[i] \in Inodes => data'[dest[i]] = data[dest[i]]
      /\ \A i \in Items : before'[u][i] = Content(i)
  BY DEF Begin, TypeOK, InUse
<1>3. \A i \in Items : Content(i)' = Content(i) /\ Content(i) # Torn
  BY <1>1, <1>2 DEF Content, Inv, FilesInv, WholeBinaries, TypeOK
<1>4. FilesInv'
  BY <1>1, <1>3 DEF Inv, FilesInv, WholeBinaries
<1>5. PlaceInv(u)'
  BY <1>1 DEF PlaceInv
<1>6. RunInv(u)'
  BY <1>1, <1>2, <1>3 DEF RunInv, Running, Untouched, BackedUp, Kept, Installed, Ordered, Forward, Steps
<1>7. QED BY <1>4, <1>5, <1>6 DEF Inv

\* While a run is under way, and when it is cut off, the old versions or the
\* new ones are there.
LEMMA StillThere ==
  ASSUME NEW u, Alone(u), TypeOK, Inv(u), NoThird(u), pc[u] \in Steps
  PROVE  Survives(u)
<1> USE NamesApart DEF Alone
<1>1. CASE pc[u] = "commit"
  BY <1>1 DEF Inv, RunInv, Running, Installed, Survives
<1>2. CASE pc[u] # "commit"
  <2>1. ASSUME NEW i \in plan[u] \ lost[u], before[u][i] \in Versions
        PROVE  OldIsThere(u, i)
    BY <1>2, <2>1 DEF Inv, RunInv, BackedUp, Kept, OldIsThere
  <2>2. ASSUME NEW i \in lost[u] \cap plan[u]
        PROVE  OldIsThere(u, i) \/ (i \in lost[u] /\ Content(i) = want[u][i])
    BY <2>2, NamesApart DEF NoThird, OldIsThere, Steps
  <2>3. QED BY <2>1, <2>2 DEF Survives
<1>3. QED BY <1>1, <1>2

\* At any moment of it, a helper is never behind the dispatcher.
LEMMA HelpersAhead ==
  ASSUME NEW u, Alone(u), TypeOK, Inv(u), pc[u] \in Steps
  PROVE  HelpersFirst
<1> USE NamesApart DEF Alone
<1> SUFFICES ASSUME NEW j \in plan[u] \ lost[u], before[u][j] \in Versions \ {want[u][j]},
                    Content(j) = want[u][j], NEW i \in plan[u], i < j
             PROVE  Content(i) = want[u][i]
  BY DEF HelpersFirst
<1>1. CASE pc[u] = "commit"
  BY <1>1 DEF Inv, RunInv, Running, Installed
<1>2. CASE pc[u] # "commit"
  <2>1. j \notin todo[u]
    BY <1>2 DEF Inv, RunInv, Untouched
  <2>2. i \notin todo[u]
    <3>1. i \in Nat /\ j \in Nat
      BY SizeAssumption DEF TypeOK, Items, SizeAssumption
    <3>2. i \in todo[u] => j < i
      BY <2>1 DEF Inv, RunInv, Ordered, Steps
    <3>3. QED BY <3>1, <3>2
  <2>3. CASE pc[u] \in Forward
    BY <2>2, <2>3 DEF Inv, RunInv, Installed
  <2>4. CASE pc[u] \in {"undo", "unsave"}
    <3>1. j \in done[u]
      BY <2>4 DEF Inv, RunInv, Kept, Steps
    <3>2. i \in Nat /\ j \in Nat
      BY SizeAssumption DEF TypeOK, Items, SizeAssumption
    <3>3. Content(i) = want[u][i] \/ j <= i
      BY <2>2, <2>4, <3>1 DEF Inv, RunInv, Ordered
    <3>4. QED BY <3>2, <3>3
  <2>5. QED BY <1>2, <2>3, <2>4 DEF Forward
<1>3. QED BY <1>1, <1>2

\* The ways a run ends.
LEMMA EndKeeps ==
  ASSUME NEW u, Alone(u), TypeOK, Found, Inv(u), NoThird(u), Succeed(u) \/ GiveUp(u) \/ Kill(u)
  PROVE  Inv(u)' /\ Ended(u)'
<1> USE NamesApart DEF Alone
<1>1. /\ UNCHANGED <<dest, saved, data, dirty, want, plan, before, lost>>
      /\ pc[u] # "idle" /\ pc'[u] = "idle" /\ done'[u] = {}
      /\ \A i \in Items : Content(i)' = Content(i)
  BY DEF Succeed, GiveUp, Kill, Goto, disk, local, run, TypeOK, Content
<1>2. FilesInv' /\ PlaceInv(u)'
  BY <1>1 DEF Inv, FilesInv, WholeBinaries, Content, PlaceInv
<1>3. RunInv(u)'
  BY <1>1 DEF Inv, RunInv, Running, Untouched, BackedUp, Kept, Installed, Ordered, Forward, Steps
<1>4. HelpersFirst'
  <2>1. HelpersFirst
    BY <1>1, HelpersAhead DEF TypeOK
  <2>2. QED BY <1>1, <2>1 DEF HelpersFirst, TypeOK
<1>5. CASE Succeed(u)
  <2>1. pc[u] = "commit" /\ done[u] = {} /\ todo[u] = {} /\ ended'[u] = "ok"
    BY <1>5 DEF Succeed, Goto, TypeOK, Inv, RunInv, Running
  <2>2. SuccessInstalls'
    BY <1>1, <2>1 DEF Inv, RunInv, Installed, SuccessInstalls, TypeOK
  <2>3. QED BY <1>1, <1>2, <1>3, <1>4, <2>1, <2>2
            DEF Inv, Ended, Outcome, FailureRestores, OldVersionSurvives, Steps
<1>6. CASE GiveUp(u)
  <2>1. pc[u] = "undo" /\ done[u] = {} /\ ended'[u] = "failed"
    BY <1>6 DEF GiveUp, Goto, TypeOK
  <2>2. FailureRestores'
    BY <1>1, <2>1 DEF Inv, RunInv, Kept, FailureRestores, Steps, TypeOK
  <2>3. QED BY <1>1, <1>2, <1>3, <1>4, <2>1, <2>2
            DEF Inv, Ended, Outcome, SuccessInstalls, OldVersionSurvives, Steps
<1>7. CASE Kill(u)
  <2>1. ended'[u] = "killed"
    BY <1>7 DEF Kill, TypeOK
  <2>2. Survives(u)
    BY <1>1, StillThere DEF TypeOK
  <2>3. OldVersionSurvives'
    BY <1>1, <2>1, <2>2 DEF OldVersionSurvives, Survives, OldIsThere, TypeOK
  <2>4. QED BY <1>1, <1>2, <1>3, <1>4, <2>1, <2>3
            DEF Inv, Ended, Outcome, SuccessInstalls, FailureRestores
<1>8. QED BY <1>5, <1>6, <1>7

\* No file a name leads to is lost with the power.
LEMMA PowerKeeps ==
  ASSUME NEW u, Alone(u), TypeOK, Found, Inv(u), Ended(u), PowerLoss
  PROVE  Inv(u)' /\ Ended(u)'
<1> USE NamesApart DEF Alone
<1>1. /\ UNCHANGED <<dest, saved, want, plan, before, lost>> /\ dirty' = {}
      /\ pc'[u] = "idle" /\ done'[u] = {}
      /\ ended'[u] = IF pc[u] = "idle" THEN ended[u] ELSE "power"
  BY DEF PowerLoss, run
<1>2. \A n \in Inodes \ dirty : data'[n] = data[n]
  BY DEF PowerLoss
<1>3. \A i \in Items : /\ dest[i] \in Inodes => data'[dest[i]] = data[dest[i]]
                       /\ saved[i] \in Inodes => data'[saved[i]] = data[saved[i]]
  BY <1>2 DEF PowerLoss, Inv, FilesInv
<1>4. \A i \in Items : Content(i)' = Content(i)
  BY <1>1, <1>3 DEF Content
<1>5. FilesInv' /\ PlaceInv(u)'
  BY <1>1, <1>4, NamesApart DEF Inv, FilesInv, WholeBinaries, PlaceInv, TypeOK
<1>6. RunInv(u)'
  BY <1>1 DEF Inv, RunInv, Running, Untouched, BackedUp, Kept, Installed, Ordered, Forward, Steps
<1>7. HelpersFirst'
  <2>1. HelpersFirst
    BY HelpersAhead DEF Ended, Outcome, TypeOK, Alone
  <2>2. QED BY <1>1, <1>4, <2>1 DEF HelpersFirst, TypeOK
<1>8. CASE pc[u] = "idle"
  <2>1. SuccessInstalls' /\ FailureRestores'
    BY <1>1, <1>4, <1>8 DEF Ended, Outcome, SuccessInstalls, FailureRestores, TypeOK
  <2>2. OldVersionSurvives'
    BY <1>1, <1>3, <1>4, <1>8 DEF Ended, Outcome, OldVersionSurvives, OldIsThere, Steps, TypeOK
  <2>3. QED BY <1>5, <1>6, <1>7, <2>1, <2>2 DEF Inv, Ended, Outcome
<1>9. CASE pc[u] # "idle"
  BY <1>1, <1>5, <1>6, <1>7, <1>9
     DEF Inv, Ended, Outcome, SuccessInstalls, FailureRestores, OldVersionSurvives, Steps
<1>10. QED BY <1>8, <1>9

\* Only the end of a run makes it idle.
LEMMA StillRunning ==
  ASSUME NEW u, Alone(u), TypeOK, ReplaceAll(u), ~Succeed(u), ~GiveUp(u)
  PROVE  pc'[u] # "idle"
<1> USE DEF Alone, TypeOK, Goto
<1>1. ASSUME NEW i \in Items, \/ StatAbsent(u, i) \/ StatRefused(u, i) \/ StatRegular(u, i)
                              \/ Unchanged(u, i) \/ BackUp(u, i)
      PROVE  pc'[u] # "idle"
  BY <1>1 DEF StatAbsent, StatRefused, StatRegular, Unchanged, BackUp, Differs, ClearStale,
              LinkBackup, OpenCopy, CopyBackup, BackupRefused, CopyFails
<1>2. ASSUME NEW i \in Items, Replace(u, i) \/ DropBackup(u, i) \/ RollBack(u, i)
      PROVE  pc'[u] # "idle"
  BY <1>2 DEF Replace, WriteTemp, Install, DropBackup, RollBack, Restore, RestoreFails, RemoveSaved
<1>3. CASE SyncTemp(u) \/ InstallFails(u) \/ AllDone(u)
  BY <1>3 DEF SyncTemp, InstallFails, AllDone
<1>4. QED BY <1>1, <1>2, <1>3 DEF ReplaceAll

\* Every step keeps all of it.
LEMMA AloneStep ==
  ASSUME NEW u, Alone(u), TypeOK, Found, Inv(u), NoThird(u), Ended(u), [Next]_vars
  PROVE  Inv(u)' /\ Ended(u)'
<1>1. ASSUME NEW w \in [Items -> Versions], NEW items \in SUBSET Items, Begin(u, w, items)
      PROVE  Inv(u)' /\ Ended(u)'
  <2>1. pc'[u] # "idle"
    BY <1>1 DEF Begin, Goto, TypeOK, Alone
  <2>2. QED BY <1>1, <2>1, BeginKeeps DEF Ended
<1>2. CASE ReplaceAll(u)
  <2>1. CASE Succeed(u) \/ GiveUp(u)
    BY <2>1, EndKeeps
  <2>2. CASE ~Succeed(u) /\ ~GiveUp(u)
    <3>1. pc'[u] # "idle"
      BY <1>2, <2>2, StillRunning
    <3>2. Inv(u)'
      BY <1>2, <2>2, LookKeeps, UnchangedKeeps, LinkKeeps, CopyKeeps, TempKeeps, InstallKeeps,
         CommitKeeps, RollBackKeeps DEF ReplaceAll, BackUp, Replace
    <3>3. QED BY <3>1, <3>2 DEF Ended
  <2>3. QED BY <2>1, <2>2
<1>3. CASE Kill(u)
  BY <1>3, EndKeeps
<1>4. CASE PowerLoss
  BY <1>4, PowerKeeps
<1>5. CASE UNCHANGED vars
  <2>1. Inv(u)'
    BY <1>5 DEF vars, disk, local, run, Inv, FilesInv, WholeBinaries, Content, PlaceInv, At, RunInv,
                Running, Untouched, BackedUp, Undoing, Kept, Installed, Ordered
  <2>2. Ended(u)'
    BY <1>5 DEF vars, disk, local, run, Ended, Outcome, SuccessInstalls, FailureRestores,
                OldVersionSurvives, OldIsThere, HelpersFirst, Content
  <2>3. QED BY <2>1, <2>2
<1>6. QED BY <1>1, <1>2, <1>3, <1>4, <1>5 DEF Next, Alone

\* The steps that leave alone what the binaries' names lead to.
LEMMA ContentStays ==
  ASSUME NEW u, Alone(u), TypeOK, Found, Inv(u), ReplaceAll(u) \/ Kill(u),
         \A i \in Items : ~Install(u, i) /\ ~Restore(u, i)
  PROVE  \A i \in Items : Content(i)' = Content(i)
<1> USE NamesApart DEF Alone
<1>1. ASSUME UNCHANGED <<dest, data>> PROVE \A i \in Items : Content(i)' = Content(i)
  BY <1>1 DEF Content
<1>2. ASSUME NEW n, \A j \in Items : n # dest[j], dest' = dest,
             \E d : data' = [data EXCEPT ![n] = d]
      PROVE  \A i \in Items : Content(i)' = Content(i)
  BY <1>2 DEF Content, TypeOK
<1>3. ASSUME NEW i \in Items,
             \/ StatAbsent(u, i) \/ StatRefused(u, i) \/ StatRegular(u, i)
             \/ Unchanged(u, i) \/ Differs(u, i) \/ ClearStale(u, i) \/ LinkBackup(u, i)
             \/ BackupRefused(u, i) \/ CopyFails(u, i) \/ DropBackup(u, i)
             \/ RestoreFails(u, i) \/ RemoveSaved(u, i)
      PROVE  UNCHANGED <<dest, data>>
  BY <1>3 DEF StatAbsent, StatRefused, StatRegular, Unchanged, Differs, ClearStale,
              LinkBackup, BackupRefused, CopyFails, DropBackup, RestoreFails, RemoveSaved, disk
<1>4. CASE SyncTemp(u) \/ InstallFails(u) \/ AllDone(u) \/ Succeed(u) \/ GiveUp(u) \/ Kill(u)
  BY <1>1, <1>4 DEF SyncTemp, InstallFails, AllDone, Succeed, GiveUp, Kill, disk
<1>5. ASSUME NEW i \in Items, NEW k \in 1..MaxFiles, OpenCopy(u, i, k) \/ WriteTemp(u, i, k)
      PROVE  \A j \in Items : Content(j)' = Content(j)
  <2> DEFINE n == <<i, k>>
  <2>1. pc[u] = "link" => saved[i] = NoFile \/ ~At(u, i)
    BY DEF Inv, PlaceInv
  <2>2. \A j \in Items : n # dest[j]
    BY <1>5, <2>1 DEF OpenCopy, WriteTemp, Goto, Fresh, InUse
  <2>3. dest' = dest /\ \E d : data' = [data EXCEPT ![n] = d]
    BY <1>5 DEF OpenCopy, WriteTemp
  <2> HIDE DEF n
  <2>4. QED BY <1>2, <2>2, <2>3
<1>6. ASSUME NEW i \in Items, CopyBackup(u, i) PROVE \A j \in Items : Content(j)' = Content(j)
  <2>1. pc[u] = "copy" /\ dest' = dest /\ data' = [data EXCEPT ![out[u]] = data[in[u]]]
    BY <1>6 DEF CopyBackup, Goto
  <2>2. \A j \in Items : out[u] # dest[j]
    BY <2>1 DEF Inv, PlaceInv
  <2>3. QED BY <1>2, <2>1, <2>2
<1>7. QED BY <1>1, <1>3, <1>4, <1>5, <1>6 DEF ReplaceAll, BackUp, Replace, RollBack

\* A run keeps to its plan.
LEMMA RunStays ==
  ASSUME NEW u, Alone(u), TypeOK, ReplaceAll(u) \/ Kill(u)
  PROVE  UNCHANGED run /\ pc[u] # "idle"
<1> USE DEF Goto
<1>1. ASSUME NEW i \in Items,
             \/ StatAbsent(u, i) \/ StatRefused(u, i) \/ StatRegular(u, i)
             \/ Unchanged(u, i) \/ BackUp(u, i)
      PROVE  UNCHANGED run /\ pc[u] # "idle"
  BY <1>1 DEF StatAbsent, StatRefused, StatRegular, Unchanged, BackUp, Differs, ClearStale,
              LinkBackup, OpenCopy, CopyBackup, BackupRefused, CopyFails
<1>2. ASSUME NEW i \in Items, Replace(u, i) \/ DropBackup(u, i) \/ RollBack(u, i)
      PROVE  UNCHANGED run /\ pc[u] # "idle"
  BY <1>2 DEF Replace, WriteTemp, Install, DropBackup, RollBack, Restore, RestoreFails, RemoveSaved
<1>3. CASE SyncTemp(u) \/ InstallFails(u) \/ AllDone(u) \/ Succeed(u) \/ GiveUp(u) \/ Kill(u)
  BY <1>3 DEF SyncTemp, InstallFails, AllDone, Succeed, GiveUp, Kill
<1>4. QED BY <1>1, <1>2, <1>3 DEF ReplaceAll

\* A binary changes hands between its old and its new version only.
LEMMA NoThirdStep ==
  ASSUME NEW u, Alone(u), TypeOK, Found, Inv(u), NoThird(u), [Next]_vars
  PROVE  NoThird(u)'
<1> USE NamesApart DEF Alone
<1>1. ASSUME NEW w \in [Items -> Versions], NEW items \in SUBSET Items, Begin(u, w, items)
      PROVE  NoThird(u)'
  <2>1. plan'[u] = items /\ UNCHANGED dest
    BY <1>1 DEF Begin, TypeOK
  <2>2. \A i \in Items : before'[u][i] = Content(i)
    BY <1>1 DEF Begin, TypeOK
  <2>3. \A i \in Items : dest[i] \in Inodes => data'[dest[i]] = data[dest[i]]
    BY <1>1 DEF Begin, InUse
  <2>4. \A i \in Items : Content(i)' = Content(i)
    BY <2>1, <2>3 DEF Content
  <2>5. QED BY <2>1, <2>2, <2>4 DEF NoThird
<1>2. CASE (ReplaceAll(u) \/ Kill(u)) /\ \A i \in Items : ~Install(u, i) /\ ~Restore(u, i)
  <2>1. \A i \in Items : Content(i)' = Content(i)
    BY <1>2, ContentStays
  <2>2. UNCHANGED <<plan, want, before>> /\ (pc[u] = "idle" => pc'[u] = "idle")
    BY <1>2, RunStays DEF run
  <2>3. QED BY <2>1, <2>2 DEF NoThird, TypeOK
<1>3. ASSUME NEW i \in Items, Install(u, i) PROVE NoThird(u)'
  <2>1. /\ dest' = [dest EXCEPT ![i] = out[u]] /\ out[u] \in Inodes
        /\ data[out[u]] = want[u][i] /\ UNCHANGED <<data, plan, want, before>>
        /\ pc[u] # "idle"
    BY <1>3 DEF Install, Goto, TypeOK, run, Inv, PlaceInv
  <2>2. QED BY <2>1 DEF NoThird, Content, TypeOK
<1>4. ASSUME NEW i \in Items, Restore(u, i) PROVE NoThird(u)'
  <2>1. /\ pc[u] = "undo" /\ i \in done[u] /\ UNCHANGED <<data, plan, want, before>>
    BY <1>4 DEF Restore, Undoing, Goto, run
  <2>2. saved[i] \in Inodes /\ data[saved[i]] = before[u][i]
    BY <2>1 DEF Inv, RunInv, BackedUp, Steps
  <2>3. dest' = [dest EXCEPT ![i] = saved[i]]
    BY <1>4, <2>2 DEF Restore
  <2>4. QED BY <2>1, <2>2, <2>3 DEF NoThird, Content, TypeOK
<1>5. CASE PowerLoss
  BY <1>5 DEF PowerLoss, NoThird
<1>6. CASE UNCHANGED vars
  BY <1>6 DEF vars, disk, local, run, NoThird, Content
<1>7. QED BY <1>1, <1>2, <1>3, <1>4, <1>5, <1>6 DEF Next

-----------------------------------------------------------------------------
(* Theorems for one upgrader at a time.                                    *)

\* The invariants above hold in every reachable state.
THEOREM AloneInvariance ==
  ASSUME NEW u, Alone(u)
  PROVE  Spec => [](TypeOK /\ Found /\ Inv(u) /\ NoThird(u) /\ Ended(u))
<1>1. Init => TypeOK /\ Found /\ Inv(u) /\ NoThird(u) /\ Ended(u)
  BY TypeInit, AloneInit DEF Init, NoThird, Alone
<1>2. TypeOK /\ Found /\ Inv(u) /\ NoThird(u) /\ Ended(u) /\ [Next]_vars
        => (TypeOK /\ Found /\ Inv(u) /\ NoThird(u) /\ Ended(u))'
  BY TypeStep, FoundStep, AloneStep, NoThirdStep
<1>3. QED BY <1>1, <1>2, PTL DEF Spec

\* Replace is atomic: whatever fails and whenever the process or the machine
\* stops, no binary is ever truncated or unflushed.
THEOREM AlwaysWhole ==
  ASSUME NEW u, Alone(u)
  PROVE  Spec => []WholeBinaries
<1>1. Inv(u) => WholeBinaries
  BY DEF Inv, FilesInv
<1>2. QED BY <1>1, AloneInvariance, PTL

\* When ReplaceAll reports success, everything is installed and no backup left.
THEOREM SuccessIsTrue ==
  ASSUME NEW u, Alone(u)
  PROVE  Spec => []SuccessInstalls
<1>1. TypeOK /\ Inv(u) /\ Ended(u) => SuccessInstalls
  BY DEF Alone, Inv, RunInv, Running, Ended, Outcome, SuccessInstalls
<1>2. QED BY <1>1, AloneInvariance, PTL

\* When it reports failure, what it replaced is back, but for the items whose
\* restoring rename failed.
THEOREM FailureIsUndone ==
  ASSUME NEW u, Alone(u)
  PROVE  Spec => []FailureRestores
<1>1. TypeOK /\ Inv(u) /\ Ended(u) => FailureRestores
  BY DEF Alone, Inv, RunInv, Running, Ended, Outcome, FailureRestores
<1>2. QED BY <1>1, AloneInvariance, PTL

\* The deferred rollback has what it needs: until everything is installed, and
\* also when the run is killed, each replaced version is in place or beside it.
THEOREM OldVersionKept ==
  ASSUME NEW u, Alone(u)
  PROVE  Spec => []OldVersionSurvives
<1>1. TypeOK /\ Inv(u) /\ NoThird(u) /\ Ended(u) => OldVersionSurvives
  <2>1. ASSUME pc[u] # "idle", TypeOK, Inv(u), NoThird(u) PROVE OldVersionSurvives
    <3>1. pc[u] \in Steps
      BY <2>1 DEF Alone, TypeOK
    <3>2. Survives(u)
      BY <2>1, <3>1, StillThere
    <3>3. QED BY <3>2 DEF Alone, Survives, OldVersionSurvives
  <2>2. QED BY <2>1 DEF Ended, Outcome
<1>2. QED BY <1>1, AloneInvariance, PTL

\* The order of SuiteBinaries: at every moment, forward, in rollback and after
\* a crash, a binary is at the new version only while those before it are.
THEOREM HelpersStayAhead ==
  ASSUME NEW u, Alone(u)
  PROVE  Spec => []HelpersFirst
<1>1. TypeOK /\ Inv(u) /\ Ended(u) => HelpersFirst
  BY HelpersAhead DEF Ended, Outcome, TypeOK, Alone
<1>2. QED BY <1>1, AloneInvariance, PTL
=============================================================================
