-------------------------- MODULE LocalFilesProofs --------------------------
(***************************************************************************)
(* Programs that meet in files.                                            *)
(*                                                                         *)
(* Pane recovery for any panes, any crash-loop bound and any number of     *)
(* recoveries.  The bound on restarts needs to know what a hook that has   *)
(* decided to respawn saw: its decision may be old when it is logged.      *)
(* Only logged restarts are seen, so the bound is on these; the others     *)
(* come on top.                                                            *)
(*                                                                         *)
(* The subscription file under rewrites that do not overlap, for any       *)
(* subscriptions and processes: wherever one is killed, the file holds     *)
(* what the last that ended meant to write.                                *)
(***************************************************************************)
EXTENDS PaneRecovery, WatchSubscriptions, FiniteSetTheorems, TLAPS

-----------------------------------------------------------------------------
(* Pane recovery.                                                          *)

\* The hooks' restarts of p in the window that recovery.log shows.
Logged(p) == {i \in Of(p) : i > old /\ log[i].act = "respawn" /\ log[i].by = "hook"}
LoggedBounded == \A p \in Names : Cardinality(Logged(p)) <= CrashBound + 1

\* A hook that is about to respawn, or to log that it has, decided so when the
\* log showed no more events of its pane in the window than the bound; only
\* hooks log hook restarts, and they run one after the other (decideRecovery).
DecidedWithin ==
  step["hook"] \in {"act", "log"} /\ verdict["hook"] = "respawn"
    => Cardinality(Logged(whom["hook"])) <= CrashBound

IInv == TypeOK /\ DecidedWithin /\ LoggedBounded

-----------------------------------------------------------------------------
(* Types.                                                                  *)

\* The panes are named, and both actors are there.
LEMMA NamesThere ==
  /\ Panes[1] \in Names /\ CrashBound \in Nat
  /\ "hook" \in Actors /\ "retry" \in Actors
  BY RecoveryAssumption DEF RecoveryAssumption, Names, Actors

\* The types hold at first.
LEMMA TypeInit == Init => TypeOK
<1> SUFFICES ASSUME Init PROVE TypeOK
  OBVIOUS
<1>1. died \in Seq(Names) /\ log \in Seq(Events) /\ calm \in 0..Len(log) /\ old \in 0..calm
  BY DEF Init
<1>2. QED BY <1>1, NamesThere DEF Init, TypeOK

\* An actor that starts takes a pane and nothing else.
LEMMA StartTypes ==
  ASSUME TypeOK, NEW a \in Actors, NEW p \in Names, Starts(a, p), died' \in Seq(Names)
  PROVE  TypeOK'
  BY DEF TypeOK, Starts

\* Every step keeps the types.
LEMMA TypeStep == TypeOK /\ [Next]_vars => TypeOK'
<1> SUFFICES ASSUME TypeOK, [Next]_vars PROVE TypeOK'
  OBVIOUS
<1> USE NamesThere
<1>1. CASE Hook
  <2>1. Head(died) \in Names /\ Tail(died) \in Seq(Names)
    BY <1>1 DEF TypeOK, Hook
  <2>2. QED BY <1>1, <2>1, StartTypes DEF Hook
<1>2. CASE Retry
  <2>1. PICK p \in Names : Starts("retry", p)
    BY <1>2 DEF Retry, Names, Dead
  <2>2. died' \in Seq(Names)
    BY <1>2 DEF Retry, TypeOK
  <2>3. QED BY <2>1, <2>2, StartTypes
<1>3. CASE TimePasses
  BY <1>3 DEF TimePasses, TypeOK
<1>4. ASSUME NEW p \in Names, Dies(p) PROVE TypeOK'
  BY <1>4 DEF Dies, TypeOK
<1>5. ASSUME NEW a \in Actors, Decide(a) \/ QuitsEarly(a) PROVE TypeOK'
  <2>1. UNCHANGED <<pane, died, log, calm, old>> /\ whom[a] \in Names
    BY <1>5 DEF Decide, QuitsEarly, TypeOK
  <2>2. CASE Ends(a) /\ Abandons(whom[a])
    <3>1. unhandled' \subseteq {p \in Names : pane[p] = "dead"}
      BY <2>1, <2>2 DEF Abandons, TypeOK
    <3>2. /\ step' \in [Actors -> {"idle", "decide", "act", "log"}]
          /\ whom' \in [Actors -> Names] /\ verdict' \in [Actors -> {"respawn", "halt"}]
      BY <2>2 DEF Ends, TypeOK
    <3>3. QED BY <2>1, <3>1, <3>2 DEF TypeOK
  <2>3. CASE ~(Ends(a) /\ Abandons(whom[a]))
    <3>1. UNCHANGED <<whom, unhandled>>
      BY <1>5, <2>3 DEF Decide, QuitsEarly
    <3>2. step' = [step EXCEPT ![a] = "act"]
      BY <1>5, <2>3 DEF Decide, QuitsEarly
    <3>3. verdict' \in [Actors -> {"respawn", "halt"}]
      <4>1. \E v \in {"respawn", "halt"} : verdict' = [verdict EXCEPT ![a] = v]
        BY <1>5, <2>3 DEF Decide, QuitsEarly
      <4>2. QED BY <4>1 DEF TypeOK
    <3>4. QED BY <2>1, <3>1, <3>2, <3>3 DEF TypeOK
  <2>4. QED BY <2>2, <2>3
<1>6. ASSUME NEW a \in Actors, Act(a) PROVE TypeOK'
  BY <1>6 DEF Act, Abandons, Becomes, TypeOK
<1>7. ASSUME NEW a \in Actors, Log(a) PROVE TypeOK'
  <2>1. PICK w \in BOOLEAN :
          log' = Append(log, [pane |-> whom[a], act |-> verdict[a], by |-> a, written |-> w])
    BY <1>7 DEF Log
  <2>2. log' \in Seq(Events) /\ Len(log') = Len(log) + 1
    <3>1. [pane |-> whom[a], act |-> verdict[a], by |-> a, written |-> w] \in Events
      BY DEF TypeOK, Events
    <3>2. QED BY <2>1, <3>1 DEF TypeOK
  <2>3. calm' \in 0..Len(log')
    BY <1>7, <2>2 DEF Log, TypeOK
  <2>4. QED BY <1>7, <2>2, <2>3 DEF Log, Ends, TypeOK
<1>8. CASE UNCHANGED vars
  BY <1>8 DEF vars, TypeOK
<1>9. QED BY <1>1, <1>2, <1>3, <1>4, <1>5, <1>6, <1>7, <1>8 DEF Next

-----------------------------------------------------------------------------
(* Logged restarts in the window.                                          *)

\* They are finitely many, and no more than the pane's events in the window.
LEMMA LoggedFinite ==
  ASSUME TypeOK, NEW p \in Names
  PROVE  /\ IsFiniteSet(Logged(p)) /\ Cardinality(Logged(p)) \in Nat
         /\ Recent(p) \in Nat /\ Cardinality(Logged(p)) <= Recent(p)
<1> DEFINE W == {i \in Of(p) : i > old}
<1>1. Len(log) \in Nat /\ W \in SUBSET (1..Len(log))
  BY DEF TypeOK, Of
<1>2. IsFiniteSet(1..Len(log))
  BY <1>1, FS_Interval
<1>3. IsFiniteSet(W)
  BY <1>1, <1>2, FS_Subset
<1>4. Logged(p) \in SUBSET W
  BY DEF Logged
<1>5. IsFiniteSet(Logged(p)) /\ Cardinality(Logged(p)) <= Cardinality(W)
  BY <1>3, <1>4, FS_Subset
<1>6. QED BY <1>3, <1>5, FS_CardinalityType DEF Recent

\* While the log stands and the window only moves on, they grow fewer.
LEMMA LoggedShrink ==
  ASSUME TypeOK, NEW p \in Names, log' = log, old' \in Nat, old' >= old
  PROVE  Cardinality(Logged(p)') <= Cardinality(Logged(p))
<1>1. old \in Nat
  BY DEF TypeOK
<1>2. Logged(p)' \in SUBSET Logged(p)
  BY <1>1 DEF Logged, Of, TypeOK
<1>3. QED BY <1>2, LoggedFinite, FS_Subset

\* A new event of the log is one more of them at most, and only if a hook
\* has restarted that pane.
LEMMA LoggedGrow ==
  ASSUME TypeOK, NEW p \in Names, NEW a \in Actors, Log(a)
  PROVE  /\ Cardinality(Logged(p)') <= Cardinality(Logged(p)) + 1
         /\ ~(a = "hook" /\ verdict[a] = "respawn" /\ whom[a] = p)
              => Cardinality(Logged(p)') <= Cardinality(Logged(p))
<1> PICK w \in BOOLEAN :
          log' = Append(log, [pane |-> whom[a], act |-> verdict[a], by |-> a, written |-> w])
  BY DEF Log
<1> DEFINE e == [pane |-> whom[a], act |-> verdict[a], by |-> a, written |-> w]
           n == Len(log) + 1
<1>1. /\ log' = Append(log, e) /\ old' = old /\ log \in Seq(Events) /\ e \in Events
      /\ Len(log) \in Nat
  BY DEF Log, TypeOK, Events
<1>2. /\ DOMAIN log' = 1..n /\ DOMAIN log = 1..Len(log) /\ log'[n] = e
      /\ \A i \in DOMAIN log : log'[i] = log[i]
  BY <1>1
<1>3. \A i \in DOMAIN log' : i # n => i \in DOMAIN log
  BY <1>1, <1>2
<1>4. Logged(p)' \in SUBSET (Logged(p) \cup {n})
  BY <1>1, <1>2, <1>3 DEF Logged, Of
<1>5. ~(a = "hook" /\ verdict[a] = "respawn" /\ whom[a] = p)
        => Logged(p)' \in SUBSET Logged(p)
  BY <1>1, <1>2, <1>3, <1>4 DEF Logged, Of
<1>6. IsFiniteSet(Logged(p) \cup {n})
      /\ Cardinality(Logged(p) \cup {n}) <= Cardinality(Logged(p)) + 1
  <2> HIDE DEF n
  <2>1. IsFiniteSet(Logged(p)) /\ Cardinality(Logged(p)) \in Nat
    BY LoggedFinite
  <2>2. /\ IsFiniteSet(Logged(p) \cup {n})
        /\ Cardinality(Logged(p) \cup {n}) =
             IF n \in Logged(p) THEN Cardinality(Logged(p))
                                  ELSE Cardinality(Logged(p)) + 1
    BY <2>1, FS_AddElement
  <2>3. QED BY <2>1, <2>2
<1>7. Cardinality(Logged(p)') <= Cardinality(Logged(p) \cup {n})
  BY <1>4, <1>6, FS_Subset
<1>8. Cardinality(Logged(p) \cup {n}) \in Nat /\ Cardinality(Logged(p)) \in Nat
  BY <1>6, LoggedFinite, FS_CardinalityType
<1>9. IsFiniteSet(Logged(p)') /\ Cardinality(Logged(p)') \in Nat
  BY <1>4, <1>6, FS_Subset, FS_CardinalityType
<1>10. QED BY <1>5, <1>6, <1>7, <1>8, <1>9, LoggedFinite, FS_Subset

-----------------------------------------------------------------------------
(* The bound.                                                              *)

\* What makes both parts of the invariant survive a step that leaves the log
\* alone: no new decision of the hook, or one within the bound.
LEMMA QuietStep ==
  ASSUME IInv, TypeOK', log' = log, old' >= old,
         \/ UNCHANGED <<whom, verdict>> /\ step'["hook"] \in {"act", "log"}
              /\ step["hook"] \in {"act", "log"}
         \/ step'["hook"] \notin {"act", "log"}
         \/ Recent(whom["hook"]) <= CrashBound /\ whom' = whom
         \/ verdict'["hook"] = "halt"
         \/ /\ step'["hook"] = step["hook"] /\ verdict'["hook"] = verdict["hook"]
            /\ whom'["hook"] = whom["hook"]
  PROVE  DecidedWithin' /\ LoggedBounded'
<1>1. whom["hook"] \in Names /\ whom'["hook"] \in Names /\ old' \in Nat
  BY NamesThere DEF IInv, TypeOK
<1>2. \A p \in Names :
        /\ Cardinality(Logged(p)') <= Cardinality(Logged(p))
        /\ Cardinality(Logged(p)) \in Nat /\ Cardinality(Logged(p)') \in Nat
        /\ Cardinality(Logged(p)) <= Recent(p) /\ Recent(p) \in Nat
  <2>1. ASSUME NEW p \in Names
        PROVE  Cardinality(Logged(p)') <= Cardinality(Logged(p))
    BY <1>1, LoggedShrink DEF IInv
  <2>2. ASSUME NEW p \in Names PROVE Cardinality(Logged(p)') \in Nat
    <3>1. Logged(p)' \in SUBSET Logged(p)
      BY <1>1 DEF IInv, TypeOK, Logged, Of
    <3>2. QED BY <3>1, LoggedFinite, FS_Subset, FS_CardinalityType DEF IInv
  <2>3. QED BY <2>1, <2>2, LoggedFinite DEF IInv
<1>3. LoggedBounded'
  <2>1. \A p \in Names : Cardinality(Logged(p)') <= CrashBound + 1
    BY <1>2, NamesThere DEF IInv, LoggedBounded
  <2>2. QED BY <2>1 DEF LoggedBounded
<1>4. DecidedWithin'
  <2> SUFFICES ASSUME step'["hook"] \in {"act", "log"}, verdict'["hook"] = "respawn",
                      NEW p \in Names, p = whom'["hook"]
               PROVE  Cardinality(Logged(p)') <= CrashBound
    BY <1>1 DEF DecidedWithin, Restarts, Of
  <2>1. p = whom["hook"]
    OBVIOUS
  <2>2. Cardinality(Logged(p)) <= CrashBound
    <3>1. CASE Recent(whom["hook"]) <= CrashBound
      BY <1>2, <2>1, <3>1, NamesThere
    <3>2. CASE step["hook"] \in {"act", "log"} /\ verdict["hook"] = "respawn"
      BY <2>1, <3>2 DEF IInv, DecidedWithin
    <3>3. QED BY <3>1, <3>2
  <2>3. QED BY <1>2, <2>2, NamesThere
<1>5. QED BY <1>3, <1>4

\* Logging keeps it: what the hook logs it had decided within the bound, and
\* it is then done; M-r's events are not counted.
LEMMA LogStep ==
  ASSUME IInv, TypeOK', NEW a \in Actors, Log(a)
  PROVE  DecidedWithin' /\ LoggedBounded'
<1>1. a \in {"hook", "retry"}
  BY DEF Actors
<1>2. ASSUME NEW p \in Names
      PROVE  /\ Cardinality(Logged(p)) \in Nat /\ Cardinality(Logged(p)') \in Nat
             /\ Cardinality(Logged(p)') <= Cardinality(Logged(p)) + 1
             /\ ~(a = "hook" /\ verdict[a] = "respawn" /\ whom[a] = p)
                  => Cardinality(Logged(p)') <= Cardinality(Logged(p))
  <2>1. Cardinality(Logged(p)') \in Nat
    <3>1. Len(log') \in Nat /\ Logged(p)' \in SUBSET (1..Len(log'))
      BY DEF TypeOK, Logged, Of
    <3>2. IsFiniteSet(1..Len(log'))
      BY <3>1, FS_Interval
    <3>3. IsFiniteSet(Logged(p)')
      BY <3>1, <3>2, FS_Subset
    <3>4. QED BY <3>3, FS_CardinalityType
  <2>2. QED BY <2>1, LoggedFinite, LoggedGrow DEF IInv
<1>3. LoggedBounded'
  <2>1. ASSUME NEW p \in Names PROVE Cardinality(Logged(p)') <= CrashBound + 1
    <3>1. CASE a = "hook" /\ verdict[a] = "respawn" /\ whom[a] = p
      <4>1. Cardinality(Logged(p)) <= CrashBound
        BY <3>1 DEF IInv, DecidedWithin, Log
      <4>2. QED BY <1>2, <4>1, NamesThere
    <3>2. CASE ~(a = "hook" /\ verdict[a] = "respawn" /\ whom[a] = p)
      <4>1. Cardinality(Logged(p)) <= CrashBound + 1
        BY DEF IInv, LoggedBounded
      <4>2. QED BY <1>2, <3>2, <4>1, NamesThere
    <3>3. QED BY <3>1, <3>2
  <2>2. QED BY <2>1 DEF LoggedBounded
<1>4. DecidedWithin'
  <2>1. CASE a = "hook"
    BY <2>1, NamesThere DEF IInv, TypeOK, Log, Ends, DecidedWithin
  <2>2. CASE a = "retry"
    <3>1. /\ step'["hook"] = step["hook"] /\ verdict'["hook"] = verdict["hook"]
          /\ whom'["hook"] = whom["hook"] /\ whom["hook"] \in Names
      BY <2>2, NamesThere DEF IInv, TypeOK, Log, Ends
    <3> SUFFICES ASSUME step'["hook"] \in {"act", "log"}, verdict'["hook"] = "respawn",
                        NEW p \in Names, p = whom'["hook"]
                 PROVE  Cardinality(Logged(p)') <= CrashBound
      BY <3>1 DEF DecidedWithin, Restarts, Of
    <3>2. Cardinality(Logged(p)) <= CrashBound
      BY <3>1 DEF IInv, DecidedWithin
    <3>3. QED BY <1>2, <2>2, <3>2, NamesThere
  <2>3. QED BY <1>1, <2>1, <2>2
<1>5. QED BY <1>3, <1>4

\* Every step preserves the invariant.
LEMMA BoundStep == IInv /\ [Next]_vars => IInv'
<1> SUFFICES ASSUME IInv, [Next]_vars PROVE IInv'
  OBVIOUS
<1>1. TypeOK'
  BY TypeStep DEF IInv
<1>2. old \in Nat /\ calm \in Nat
  BY DEF IInv, TypeOK
<1> USE NamesThere
<1>3. CASE Hook
  <2>1. log' = log /\ old' >= old /\ step'["hook"] \notin {"act", "log"}
    BY <1>2, <1>3 DEF Hook, Starts, IInv, TypeOK
  <2>2. QED BY <1>1, <2>1, QuietStep DEF IInv
<1>4. CASE Retry \/ TimePasses \/ (\E p \in Names : Dies(p)) \/ UNCHANGED vars
  <2>1. log' = log /\ old' >= old
    BY <1>2, <1>4 DEF Retry, Starts, TimePasses, Dies, vars
  <2>2. /\ step'["hook"] = step["hook"] /\ verdict'["hook"] = verdict["hook"]
        /\ whom'["hook"] = whom["hook"]
    BY <1>4 DEF Retry, Starts, TimePasses, Dies, vars, IInv, TypeOK
  <2>3. QED BY <1>1, <2>1, <2>2, QuietStep DEF IInv
<1>5. ASSUME NEW a \in Actors, Decide(a) PROVE IInv'
  <2>1. log' = log /\ old' >= old
    BY <1>2, <1>5 DEF Decide
  <2>2. CASE a = "retry"
    <3>1. /\ step'["hook"] = step["hook"] /\ verdict'["hook"] = verdict["hook"]
          /\ whom'["hook"] = whom["hook"]
      BY <1>5, <2>2 DEF Decide, Ends, IInv, TypeOK
    <3>2. QED BY <1>1, <2>1, <3>1, QuietStep DEF IInv
  <2>3. CASE a = "hook" /\ Debounced(whom[a])
    <3>1. step'["hook"] \notin {"act", "log"}
      BY <1>5, <2>3 DEF Decide, Ends, IInv, TypeOK
    <3>2. QED BY <1>1, <2>1, <3>1, QuietStep DEF IInv
  <2>4. CASE a = "hook" /\ ~Debounced(whom[a])
    <3>1. whom[a] \in Names /\ Recent(whom[a]) \in Nat /\ CrashBound \in Nat
      BY LoggedFinite DEF IInv, TypeOK
    <3>2. \/ Recent(whom["hook"]) <= CrashBound /\ whom' = whom
          \/ verdict'["hook"] = "halt"
      BY <1>5, <2>4, <3>1 DEF Decide, IInv, TypeOK
    <3>3. QED BY <1>1, <2>1, <3>2, QuietStep DEF IInv
  <2>5. QED BY <2>2, <2>3, <2>4 DEF Actors
<1>6. ASSUME NEW a \in Actors, Act(a) PROVE IInv'
  <2>1. /\ log' = log /\ old' >= old /\ UNCHANGED <<whom, verdict>>
        /\ step[a] = "act" /\ step'[a] = "log"
        /\ a # "hook" => step'["hook"] = step["hook"]
    BY <1>2, <1>6 DEF Act, IInv, TypeOK
  <2>2. QED BY <1>1, <2>1, QuietStep DEF IInv
<1>7. ASSUME NEW a \in Actors, Log(a) PROVE IInv'
  BY <1>1, <1>7, LogStep DEF IInv
<1>8. ASSUME NEW a \in Actors, QuitsEarly(a) PROVE IInv'
  <2>1. log' = log /\ old' >= old
    BY <1>2, <1>8 DEF QuitsEarly
  <2>2. \/ step'["hook"] = "idle"
        \/ /\ step'["hook"] = step["hook"] /\ verdict'["hook"] = verdict["hook"]
           /\ whom'["hook"] = whom["hook"]
    BY <1>8 DEF QuitsEarly, Ends, IInv, TypeOK
  <2>3. QED BY <1>1, <2>1, <2>2, QuietStep DEF IInv
<1>9. QED BY <1>3, <1>4, <1>5, <1>6, <1>7, <1>8 DEF Next

\* Nothing has been restarted at first.
LEMMA BoundInit == Init => IInv
<1> SUFFICES ASSUME Init PROVE IInv
  OBVIOUS
<1>1. TypeOK
  BY TypeInit
<1>2. \A p \in Names : Logged(p) = {}
  BY DEF Init, Logged, Of
<1>3. Cardinality({}) = 0
  BY FS_EmptySet
<1>4. LoggedBounded
  BY <1>2, <1>3, NamesThere DEF LoggedBounded
<1>5. DecidedWithin
  BY NamesThere DEF Init, DecidedWithin
<1>6. QED BY <1>1, <1>4, <1>5 DEF IInv

-----------------------------------------------------------------------------
\* Type correctness of pane recovery.
THEOREM RecoveryTypeCorrect == Spec => []TypeOK
<1>1. Init => TypeOK
  BY TypeInit
<1>2. TypeOK /\ [Next]_vars => TypeOK'
  BY TypeStep
<1>3. QED BY <1>1, <1>2, PTL DEF Spec

\* Every restart in the window is logged or is not.
LEMMA RestartsSplit == TypeOK /\ LoggedBounded => RestartsBounded
<1> SUFFICES ASSUME TypeOK, LoggedBounded, NEW p \in Names
             PROVE  Cardinality(Restarts(p)) <= CrashBound + 1 + Cardinality(Unlogged(p))
  BY DEF RestartsBounded
<1>1. IsFiniteSet(Restarts(p))
  <2>1. Len(log) \in Nat /\ Restarts(p) \in SUBSET (1..Len(log))
    BY DEF TypeOK, Restarts
  <2>2. IsFiniteSet(1..Len(log))
    BY <2>1, FS_Interval
  <2>3. QED BY <2>1, <2>2, FS_Subset
<1>2. Restarts(p) = Logged(p) \cup Unlogged(p)
  BY DEF Restarts, Logged, Unlogged, Of, TypeOK, Events
<1>3. /\ IsFiniteSet(Logged(p)) /\ Cardinality(Logged(p)) \in Nat
      /\ IsFiniteSet(Unlogged(p)) /\ Cardinality(Unlogged(p)) \in Nat
      /\ Cardinality(Restarts(p)) \in Nat
  <2>1. Logged(p) \in SUBSET Restarts(p) /\ Unlogged(p) \in SUBSET Restarts(p)
    BY <1>2
  <2>2. QED BY <1>1, <2>1, FS_Subset, FS_CardinalityType
<1>4. Cardinality(Restarts(p)) <= Cardinality(Logged(p)) + Cardinality(Unlogged(p))
  <2>1. Logged(p) \cap Unlogged(p) = {}
    BY DEF Logged, Unlogged, Of
  <2>2. Cardinality(Logged(p) \cup Unlogged(p)) =
          Cardinality(Logged(p)) + Cardinality(Unlogged(p))
            - Cardinality(Logged(p) \cap Unlogged(p))
    BY <1>3, FS_Union
  <2>3. QED BY <1>2, <1>3, <2>1, <2>2, FS_EmptySet
<1>5. QED BY <1>3, <1>4, NamesThere DEF LoggedBounded

\* Within one window the hooks restart a pane at most once more than the crash
\* bound, and once again for each restart that recovery.log misses, for any
\* bound, any number of those, and however M-r runs beside the hooks.
THEOREM RestartsStop == Spec => []RestartsBounded
<1>1. Init => IInv
  BY BoundInit
<1>2. IInv /\ [Next]_vars => IInv'
  BY BoundStep
<1>3. IInv => RestartsBounded
  BY RestartsSplit DEF IInv
<1>4. QED BY <1>1, <1>2, <1>3, PTL DEF Spec

-----------------------------------------------------------------------------
(* Dead panes.                                                             *)

\* The ways in which the death of p is attended to.
Queued(p) == \E i \in DOMAIN died : died[i] = p
Attended(p) == \E a \in Actors : whom[a] = p /\ step[a] \in {"decide", "act"}

\* A step that kills no pane and takes no attention away keeps it.
LEMMA StillAttended ==
  ASSUME DeadIsAttended,
         \A p \in Names : pane'[p] = "dead" =>
           \/ Queued(p)' \/ Attended(p)' \/ p \in unhandled'
           \/ /\ pane[p] = "dead"
              /\ Queued(p) => Queued(p)'
              /\ Attended(p) => Attended(p)'
              /\ p \in unhandled => p \in unhandled'
  PROVE  DeadIsAttended'
<1> SUFFICES ASSUME NEW p \in Names, pane'[p] = "dead"
             PROVE  Queued(p)' \/ Attended(p)' \/ p \in unhandled'
  BY Zenon DEF DeadIsAttended, Queued, Attended
<1>1. CASE pane[p] = "dead"
  <2>1. Queued(p) \/ Attended(p) \/ p \in unhandled
    BY <1>1, Zenon DEF DeadIsAttended, Queued, Attended
  <2>2. QED BY <2>1
<1>2. QED BY <1>1

\* Every step keeps it.
LEMMA AttendedStep == TypeOK /\ DeadIsAttended /\ [Next]_vars => DeadIsAttended'
<1> SUFFICES ASSUME TypeOK, DeadIsAttended, [Next]_vars PROVE DeadIsAttended'
  OBVIOUS
<1> USE NamesThere
<1>1. CASE Hook
  <2>1. ASSUME NEW p \in Names, Queued(p), p # Head(died) PROVE Queued(p)'
    <3>1. PICK i \in DOMAIN died : died[i] = p
      BY <2>1 DEF Queued
    <3>2. i # 1 /\ i - 1 \in DOMAIN Tail(died) /\ Tail(died)[i - 1] = p
      BY <1>1, <2>1, <3>1 DEF Hook, TypeOK
    <3>3. QED BY <1>1, <3>2 DEF Hook, Queued
  <2>2. ASSUME NEW p \in Names, p = Head(died) PROVE Attended(p)'
    BY <1>1, <2>2 DEF Hook, Starts, Attended, TypeOK
  <2>3. ASSUME NEW p \in Names, Attended(p) PROVE Attended(p)'
    BY <1>1, <2>3 DEF Hook, Starts, Attended, TypeOK
  <2>4. UNCHANGED <<pane, unhandled>>
    BY <1>1 DEF Hook, Starts
  <2>5. QED BY <2>1, <2>2, <2>3, <2>4, StillAttended
<1>2. CASE Retry
  <2>1. UNCHANGED <<pane, unhandled, died>>
    BY <1>2 DEF Retry, Starts
  <2>2. ASSUME NEW p \in Names, Attended(p) PROVE Attended(p)'
    BY <1>2, <2>2 DEF Retry, Starts, Attended, TypeOK
  <2>3. QED BY <2>1, <2>2, StillAttended DEF Queued
<1>3. CASE TimePasses
  BY <1>3 DEF TimePasses, DeadIsAttended
<1>4. ASSUME NEW q \in Names, Dies(q) PROVE DeadIsAttended'
  <2>1. /\ died' = Append(died, q) /\ died \in Seq(Names)
        /\ UNCHANGED <<step, whom, unhandled>>
        /\ \A p \in Names \ {q} : pane'[p] = pane[p]
    BY <1>4 DEF Dies, TypeOK
  <2>2. Queued(q)'
    <3>1. Len(died) + 1 \in DOMAIN died' /\ died'[Len(died) + 1] = q
      BY <2>1
    <3>2. QED BY <3>1 DEF Queued
  <2>3. ASSUME NEW p \in Names, Queued(p) PROVE Queued(p)'
    <3>1. PICK i \in DOMAIN died : died[i] = p
      BY <2>3 DEF Queued
    <3>2. i \in DOMAIN died' /\ died'[i] = p
      BY <2>1, <3>1
    <3>3. QED BY <3>2 DEF Queued
  <2>4. QED BY <2>1, <2>2, <2>3, StillAttended DEF Attended
<1>5. ASSUME NEW a \in Actors, Decide(a) \/ QuitsEarly(a) PROVE DeadIsAttended'
  <2>1. UNCHANGED <<pane, died>>
    BY <1>5 DEF Decide, QuitsEarly
  <2>2. ASSUME NEW p \in Names, Attended(p), pane[p] = "dead"
        PROVE  Attended(p)' \/ p \in unhandled'
    BY <1>5, <2>2 DEF Decide, QuitsEarly, Abandons, Ends, Attended, TypeOK
  <2>3. unhandled \subseteq unhandled'
    BY <1>5 DEF Decide, QuitsEarly, Abandons
  <2>4. QED BY <2>1, <2>2, <2>3, StillAttended DEF Queued
<1>6. ASSUME NEW a \in Actors, Act(a) PROVE DeadIsAttended'
  <2>1. died' = died /\ whom[a] \in Names
    BY <1>6 DEF Act, TypeOK
  <2>2. ASSUME NEW p \in Names, p # whom[a]
        PROVE  /\ pane'[p] = pane[p]
               /\ p \in unhandled => p \in unhandled'
               /\ Attended(p) => Attended(p)'
    BY <1>6, <2>2 DEF Act, Abandons, TypeOK, Attended
  <2>3. pane'[whom[a]] = "dead" => whom[a] \in unhandled'
    BY <1>6, <2>1 DEF Act, Abandons, Becomes, TypeOK
  <2>4. QED BY <2>1, <2>2, <2>3, StillAttended DEF Queued
<1>7. ASSUME NEW a \in Actors, Log(a) PROVE DeadIsAttended'
  <2>1. UNCHANGED <<pane, died, unhandled>>
    BY <1>7 DEF Log
  <2>2. ASSUME NEW p \in Names, Attended(p) PROVE Attended(p)'
    BY <1>7, <2>2 DEF Log, Ends, Attended, TypeOK
  <2>3. QED BY <2>1, <2>2, StillAttended DEF Queued
<1>8. CASE UNCHANGED vars
  BY <1>8 DEF vars, DeadIsAttended
<1>9. QED BY <1>1, <1>2, <1>3, <1>4, <1>5, <1>6, <1>7, <1>8 DEF Next

\* No pane stays dead with nobody to attend to it, unless the debounce or tmux
\* itself refused its recovery, or recover-pane ended before it acted.
THEOREM DeadSeen == Spec => []DeadIsAttended
<1>1. Init => DeadIsAttended
  BY DEF Init, DeadIsAttended
<1>2. TypeOK /\ DeadIsAttended /\ [Next]_vars => DeadIsAttended'
  BY AttendedStep
<1>3. QED BY <1>1, <1>2, RecoveryTypeCorrect, PTL DEF Spec

-----------------------------------------------------------------------------
(* The subscription file.                                                  *)

\* As long as no two rewrites have met, at most one process is busy: the file
\* it writes has the temporary name, and nobody else sees it.
Alone ==
  ~overlap =>
    /\ \A a, b \in Processes : pc[a] # "idle" /\ pc[b] # "idle" => a = b
    /\ \A a \in Processes :
         /\ pc[a] = "write" => opened[a] = tmp /\ tmp # 0 /\ content[tmp] = Torn
         /\ pc[a] = "rename" => tmp # 0 /\ content[tmp] = list[a]
    /\ Parsed = meant

FileInv == FileTypeOK /\ Alone

-----------------------------------------------------------------------------
(* Types.                                                                  *)

\* Inode numbers start at 1: 0 is none.
LEMMA NoInodeZero == 0 \notin Inodes
<1>1. Cardinality(Clis) \in Nat
  BY SubscriptionsAssumption, FS_CardinalityType DEF SubscriptionsAssumption
<1>2. QED BY <1>1 DEF Inodes

\* Nobody is busy at first and there is no file.
LEMMA InitHolds == FileInit => FileInv
<1> SUFFICES ASSUME FileInit PROVE FileInv
  OBVIOUS
<1>1. FileTypeOK
  <2>1. /\ content \in [Inodes -> (SUBSET Subs) \cup {Torn}]
        /\ list \in [Processes -> SUBSET Subs]
    BY DEF FileInit
  <2>2. pc \in [Processes -> {"idle", "open", "write", "rename"}]
    BY DEF FileInit
  <2>3. opened \in [Processes -> {0} \cup Inodes] /\ writes \in 0..MaxWrites
    BY SubscriptionsAssumption DEF FileInit, SubscriptionsAssumption
  <2>4. QED BY <2>1, <2>2, <2>3 DEF FileInit, FileTypeOK
<1>2. Alone
  BY DEF FileInit, Alone, Parsed
<1>3. QED BY <1>1, <1>2 DEF FileInv

\* Every step keeps the types; the two names never share an inode.
LEMMA FileTypeStep == FileTypeOK /\ [FileNext]_fileVars => FileTypeOK'
<1> SUFFICES ASSUME FileTypeOK, [FileNext]_fileVars PROVE FileTypeOK'
  OBVIOUS
<1> USE NoInodeZero DEF FileTypeOK
<1>1. Parsed \subseteq Subs
  BY DEF Parsed
<1>2. ASSUME NEW a \in Processes, NEW new \in SUBSET Subs, Rewrites(a, new)
      PROVE  FileTypeOK'
  <2>1. writes' \in 0..MaxWrites
    BY <1>2, SubscriptionsAssumption DEF Rewrites, SubscriptionsAssumption
  <2>2. QED BY <1>2, <2>1 DEF Rewrites
<1>3. CASE Prune
  BY <1>1, <1>2, <1>3 DEF Prune, Processes
<1>4. ASSUME NEW s \in Subs, SessionFlips(s) PROVE FileTypeOK'
  BY <1>4 DEF SessionFlips
<1>5. ASSUME NEW a \in Processes, NEW s \in Subs, Register(a, s) \/ Unregister(a, s)
      PROVE  FileTypeOK'
  BY <1>1, <1>2, <1>5 DEF Register, Unregister
<1>6. ASSUME NEW a \in Processes, OpenTmp(a) PROVE FileTypeOK'
  <2>1. PICK i \in Temporary :
          /\ opened' = [opened EXCEPT ![a] = i]
          /\ content' = [content EXCEPT ![i] = Torn] /\ tmp' = i
    BY <1>6 DEF OpenTmp
  <2>2. i \in Inodes /\ i # name
    BY <2>1 DEF Temporary, Unused
  <2>3. QED BY <1>6, <2>1, <2>2 DEF OpenTmp, Step
<1>7. ASSUME NEW a \in Processes, Write(a) PROVE FileTypeOK'
  BY <1>7 DEF Write, Step
<1>8. ASSUME NEW a \in Processes, Rename(a) PROVE FileTypeOK'
  BY <1>8 DEF Rename, Moved, Step
<1>9. ASSUME NEW a \in Processes, Fails(a) PROVE FileTypeOK'
  BY <1>9 DEF Fails, GivesUp
<1>10. CASE UNCHANGED fileVars
  BY <1>10 DEF fileVars
<1>11. QED BY <1>3, <1>4, <1>5, <1>6, <1>7, <1>8, <1>9, <1>10 DEF FileNext

-----------------------------------------------------------------------------
(* A rewrite alone.                                                        *)

\* One that begins while another is under way is an overlap.
LEMMA BeginKeepsAlone ==
  ASSUME FileInv, NEW a \in Processes, NEW new \in SUBSET Subs, Rewrites(a, new)
  PROVE  Alone'
<1> SUFFICES ASSUME ~overlap' PROVE Alone'
  BY DEF Alone
<1>1. ~overlap /\ \A b \in Processes : pc[b] = "idle"
  BY DEF FileInv, FileTypeOK, Rewrites
<1>2. /\ pc' = [pc EXCEPT ![a] = "open"] /\ DOMAIN pc = Processes
      /\ UNCHANGED <<content, name, tmp, opened, meant>>
  BY DEF FileInv, FileTypeOK, Rewrites
<1>3. Parsed' = Parsed
  BY <1>2 DEF Parsed
<1>4. QED BY <1>1, <1>2, <1>3 DEF FileInv, Alone

\* Another process that is between two rewrites leaves the one busy alone.
LEMMA StepKeepsAlone ==
  ASSUME FileInv, NEW a \in Processes, pc[a] # "idle", ~overlap,
         OpenTmp(a) \/ Write(a) \/ Rename(a) \/ Fails(a)
  PROVE  Alone'
<1> USE NoInodeZero DEF FileInv, FileTypeOK
<1>1. \A b \in Processes \ {a} : pc[b] = "idle" /\ pc'[b] = "idle"
  BY DEF Alone, OpenTmp, Write, Rename, Fails, Step
<1>2. Parsed = meant /\ UNCHANGED <<overlap, list>>
  BY DEF Alone, OpenTmp, Write, Rename, Fails
<1>3. CASE OpenTmp(a)
  <2>1. PICK i \in Temporary :
          /\ opened' = [opened EXCEPT ![a] = i]
          /\ content' = [content EXCEPT ![i] = Torn] /\ tmp' = i
    BY <1>3 DEF OpenTmp
  <2>2. i \in Inodes /\ i # name
    BY <2>1 DEF Temporary, Unused
  <2>3. Parsed' = Parsed /\ meant' = meant
    BY <1>3, <2>1, <2>2 DEF OpenTmp, Parsed
  <2>4. pc'[a] = "write" /\ opened'[a] = tmp' /\ tmp' # 0 /\ content'[tmp'] = Torn
    BY <1>3, <2>1, <2>2 DEF OpenTmp, Step
  <2>5. QED BY <1>1, <1>2, <2>3, <2>4 DEF Alone
<1>4. CASE Write(a)
  <2>1. pc[a] = "write" /\ opened[a] = tmp /\ tmp \in Inodes /\ content[tmp] = Torn
    BY <1>4 DEF Alone, Write, Step
  <2>2. content' = [content EXCEPT ![tmp] = list[a]] /\ UNCHANGED <<name, tmp, meant>>
    BY <1>4, <2>1 DEF Write
  <2>3. Parsed' = Parsed
    BY <2>1, <2>2 DEF Parsed
  <2>4. pc'[a] = "rename" /\ tmp' # 0 /\ content'[tmp'] = list[a]
    BY <1>4, <2>1, <2>2 DEF Write, Step
  <2>5. QED BY <1>1, <1>2, <2>2, <2>3, <2>4 DEF Alone
<1>5. CASE Rename(a)
  <2>1. tmp \in Inodes /\ content[tmp] = list[a] /\ list[a] \in SUBSET Subs
    BY <1>5 DEF Alone, Rename, Step
  <2>2. name' = tmp /\ content' = content /\ meant' = list[a] /\ pc'[a] = "idle"
    BY <1>5, <2>1 DEF Rename, Moved, Step
  <2>3. Parsed' = meant'
    BY <2>1, <2>2, SubscriptionsAssumption DEF Parsed, SubscriptionsAssumption
  <2>4. QED BY <1>1, <1>2, <2>2, <2>3 DEF Alone
<1>6. CASE Fails(a)
  <2>1. UNCHANGED <<content, name, tmp, meant>> /\ pc'[a] = "idle"
    BY <1>6 DEF Fails, GivesUp
  <2>2. Parsed' = Parsed
    BY <2>1 DEF Parsed
  <2>3. QED BY <1>1, <1>2, <2>1, <2>2 DEF Alone
<1>7. QED BY <1>3, <1>4, <1>5, <1>6

\* Every step preserves the invariant.
LEMMA StepKeeps == FileInv /\ [FileNext]_fileVars => FileInv'
<1> SUFFICES ASSUME FileInv, [FileNext]_fileVars PROVE FileInv'
  OBVIOUS
<1>1. FileTypeOK'
  BY FileTypeStep DEF FileInv
<1>2. Parsed \subseteq Subs
  BY DEF Parsed, FileInv, FileTypeOK
<1>3. ASSUME NEW a \in Processes, OpenTmp(a) \/ Write(a) \/ Rename(a) \/ Fails(a)
      PROVE  Alone'
  <2>1. CASE overlap
    BY <1>3, <2>1 DEF Alone, OpenTmp, Write, Rename, Fails
  <2>2. CASE ~overlap
    <3>1. pc[a] # "idle"
      BY <1>3 DEF OpenTmp, Write, Rename, Fails, Step
    <3>2. QED BY <1>3, <2>2, <3>1, StepKeepsAlone
  <2>3. QED BY <2>1, <2>2
<1>4. ASSUME NEW a \in Processes, NEW s \in Subs, Register(a, s) \/ Unregister(a, s)
      PROVE  Alone'
  BY <1>2, <1>4, BeginKeepsAlone DEF Register, Unregister
<1>5. ASSUME Prune PROVE Alone'
  BY <1>2, <1>5, BeginKeepsAlone DEF Prune, Processes
<1>6. ASSUME UNCHANGED <<content, name, tmp, pc, opened, list, meant, overlap>>
      PROVE  Alone'
  <2>1. Parsed' = Parsed
    BY <1>6 DEF Parsed
  <2>2. QED BY <1>6, <2>1 DEF FileInv, Alone
<1>7. ASSUME NEW s \in Subs, SessionFlips(s) PROVE Alone'
  BY <1>6, <1>7 DEF SessionFlips
<1>8. ASSUME UNCHANGED fileVars PROVE Alone'
  BY <1>6, <1>8 DEF fileVars
<1>9. QED BY <1>1, <1>3, <1>4, <1>5, <1>7, <1>8 DEF FileNext, FileInv

-----------------------------------------------------------------------------
\* The invariant holds in every reachable state.
THEOREM FileInvariance == FileSpec => []FileInv
<1>1. QED BY InitHolds, StepKeeps, PTL DEF FileSpec

\* Type correctness; the file and its temporary never share an inode.
THEOREM FileTypeCorrect == FileSpec => []FileTypeOK
<1>1. FileInv => FileTypeOK
  BY DEF FileInv
<1>2. QED BY <1>1, FileInvariance, PTL

\* A rewrite that meets no other is atomic, for any number of processes and
\* subscriptions and wherever a process is killed.
THEOREM FileAloneAtomic == FileSpec => []AloneAtomic
<1>1. FileInv => AloneAtomic
  BY DEF FileInv, Alone, AloneAtomic
<1>2. QED BY <1>1, FileInvariance, PTL
=============================================================================
