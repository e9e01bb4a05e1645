------------------------ MODULE PeerSupervisorProofs ------------------------
(***************************************************************************)
(* However the config is edited and the daemon is stopped, a peer has one  *)
(* worker that may go on: for any peers, addresses and configurations and  *)
(* any number of workers that suffices to start with.                      *)
(***************************************************************************)
EXTENDS PeerSupervisor, TLAPS

\* Nobody works before the provider is started, and nobody watches before it
\* is; a reload that is under way has parsed its file.
Phases ==
  /\ main = "boot" => \A w \in Workers : at[w] = "free"
  /\ main = "boot" => \A p \in Peers : listed[p] = Absent
  /\ main \in {"boot", "watch", "serve"} => closing = {}
  /\ main \in {"boot", "watch"} => watcher = "off"
  /\ watcher \in {"cancel", "close"} <=> victim # Absent
  /\ watcher \in {"apply", "cancel", "close"} => want \in Configs

\* Whoever works has a peer to work for.
Assigned == \A w \in Workers : ~Gone(w) => who[w] \in Peers \X Addrs

IInv == TypeOK /\ Phases /\ Assigned /\ OneWorkerPerPeer

-----------------------------------------------------------------------------
(* The start.                                                              *)

\* It holds before anything has started.
LEMMA InitHolds == Init => IInv
<1> SUFFICES ASSUME Init PROVE IInv
  OBVIOUS
<1>1. TypeOK
  <2>1. edits \in 0..MaxEdits
    BY SupervisorAssumption DEF Init, SupervisorAssumption
  <2>2. /\ listed \in [Peers -> Workers \cup {Absent}]
        /\ who \in [Workers -> (Peers \X Addrs) \cup {Absent}]
    BY DEF Init
  <2>3. at \in [Workers -> {"free", "probe", "subscribe", "retry", "stream", "done"}]
    BY DEF Init
  <2>4. QED BY <2>1, <2>2, <2>3 DEF Init, TypeOK
<1>2. Phases /\ Assigned /\ OneWorkerPerPeer
  BY DEF Init, Phases, Assigned, OneWorkerPerPeer, Gone
<1>3. QED BY <1>1, <1>2 DEF IInv

-----------------------------------------------------------------------------
(* Starting workers.                                                       *)

\* The names chosen for S are spare, one each, if there are enough.
LEMMA NamesFit ==
  ASSUME NEW S, \E f \in [S -> Spare] : \A p, q \in S : p # q => f[p] # f[q]
  PROVE  /\ Names(S) \in [S -> Spare]
         /\ \A p, q \in S : p # q => Names(S)[p] # Names(S)[q]
BY DEF Names

\* There are enough for all configured peers when the daemon boots.
LEMMA NamesAtBoot ==
  ASSUME TypeOK, Phases, main = "boot", NEW S \in SUBSET Peers
  PROVE  /\ Names(S) \in [S -> Workers]
         /\ \A p, q \in S : p # q => Names(S)[p] # Names(S)[q]
<1>1. Spare = Workers
  BY SupervisorAssumption DEF Phases, Spare, Gone, SupervisorAssumption
<1>2. PICK f \in [Peers -> Workers] : \A p, q \in Peers : p # q => f[p] # f[q]
  BY SupervisorAssumption DEF SupervisorAssumption
<1> DEFINE g == [p \in S |-> f[p]]
<1>3. g \in [S -> Spare] /\ \A p, q \in S : p # q => g[p] # g[q]
  BY <1>1, <1>2
<1>4. QED BY <1>1, <1>3, NamesFit

\* There is one for one peer as soon as any worker is spare.
LEMMA NameForOne ==
  ASSUME NEW p \in Peers, Spare # {}
  PROVE  Names({p}) \in [{p} -> Spare]
<1>1. PICK w \in Spare : TRUE
  OBVIOUS
<1> DEFINE f == [q \in {p} |-> w]
<1>2. f \in [{p} -> Spare] /\ \A q, r \in {p} : q # r => f[q] # f[r]
  OBVIOUS
<1>3. QED BY <1>2, NamesFit

\* What startPeer leaves: a worker of f for each name of S, listed and under a
\* context of its own; nothing changes for the others.
Started(S, f, c) ==
  /\ listed' \in [Peers -> Workers \cup {Absent}]
  /\ who' \in [Workers -> (Peers \X Addrs) \cup {Absent}]
  /\ at' \in [Workers -> {"free", "probe", "subscribe", "retry", "stream", "done"}]
  /\ cut' \subseteq Workers /\ shut' \subseteq Workers
  /\ seen' \subseteq Workers /\ ticked' \subseteq Workers
  /\ \A p \in S : /\ f[p] \in Workers /\ listed'[p] = f[p]
                  /\ who'[f[p]] = <<p, c[p]>> /\ c[p] \in Addrs
  /\ \A w \in Workers : w \notin {f[p] : p \in S} =>
       who'[w] = who[w] /\ at'[w] = at[w] /\ (w \in cut' <=> w \in cut)
  /\ \A p \in Peers \ S : listed'[p] = listed[p]

\* The model's way of starting workers comes to that.
LEMMA SpawnedType ==
  ASSUME TypeOK, NEW S \in SUBSET Peers, NEW f \in [S -> Workers],
         \A p, q \in S : p # q => f[p] # f[q],
         NEW c \in Configs, \A p \in S : c[p] # Absent,
         Spawned(f, c)
  PROVE  Started(S, f, c)
<1> DEFINE of(w) == CHOOSE p \in DOMAIN f : f[p] = w
           new == {f[p] : p \in DOMAIN f}
<1>1. \A w \in new : of(w) \in S /\ f[of(w)] = w
  OBVIOUS
<1>2. \A w : w \in new <=> \E p \in S : w = f[p]
  OBVIOUS
<1>3. c \in [Peers -> Addrs \cup {Absent}]
  BY SupervisorAssumption DEF SupervisorAssumption
<1>4. listed' = [p \in Peers |-> IF p \in S THEN f[p] ELSE listed[p]]
  BY DEF Spawned
<1>5. /\ who' = [w \in Workers |-> IF w \in new THEN <<of(w), c[of(w)]>> ELSE who[w]]
      /\ at' = [w \in Workers |-> IF w \in new THEN "probe" ELSE at[w]]
      /\ cut' = cut \ new /\ shut' = shut \ new /\ seen' = seen \ new
      /\ ticked' = ticked \ new
  BY DEF Spawned
<1> HIDE DEF of, new
<1>6. \A w \in new : of(w) \in Peers /\ c[of(w)] \in Addrs
  BY <1>1, <1>3
<1>7. /\ listed' \in [Peers -> Workers \cup {Absent}]
      /\ who' \in [Workers -> (Peers \X Addrs) \cup {Absent}]
  BY <1>2, <1>4, <1>5, <1>6 DEF TypeOK
<1>8. /\ at' \in [Workers -> {"free", "probe", "subscribe", "retry", "stream", "done"}]
      /\ cut' \subseteq Workers /\ shut' \subseteq Workers
      /\ seen' \subseteq Workers /\ ticked' \subseteq Workers
  BY <1>5 DEF TypeOK
<1>9. ASSUME NEW p \in S
      PROVE  /\ f[p] \in Workers /\ listed'[p] = f[p]
             /\ who'[f[p]] = <<p, c[p]>> /\ c[p] \in Addrs
  <2>1. f[p] \in new /\ f[p] \in Workers
    BY <1>2, <1>9
  <2>2. of(f[p]) = p
    BY <1>1, <2>1
  <2>3. QED BY <1>4, <1>5, <1>6, <1>9, <2>1, <2>2
<1>10. ASSUME NEW w \in Workers, w \notin new
       PROVE  who'[w] = who[w] /\ at'[w] = at[w] /\ (w \in cut' <=> w \in cut)
  BY <1>5, <1>10
<1>11. \A p \in Peers \ S : listed'[p] = listed[p]
  BY <1>4
<1>12. QED BY <1>7, <1>8, <1>9, <1>10, <1>11, <1>2 DEF Started

-----------------------------------------------------------------------------
(* Types.                                                                  *)

\* The file, the watcher and the main goroutine.
LEMMA QuietType ==
  ASSUME TypeOK, Phases,
         \/ Edit \/ (\E a \in Addrs : Flip(a)) \/ Watching \/ Overflow
         \/ RemoveCancels \/ RemoveCloses
         \/ BootFails \/ StartWatcher \/ Interrupt \/ Stop \/ Stopping
  PROVE  TypeOK'
<1> USE DEF TypeOK, confVars, reloadVars, workVars
<1>1. CASE Edit
  <2>1. edits' \in 0..MaxEdits
    BY <1>1, SupervisorAssumption DEF Edit, SupervisorAssumption
  <2>2. event' \in BOOLEAN /\ unseen' \in BOOLEAN
    BY <1>1 DEF Edit
  <2>3. QED BY <1>1, <2>1, <2>2 DEF Edit
<1>2. CASE \E a \in Addrs : Flip(a)
  BY <1>2 DEF Flip
<1>3. CASE Watching
  <2>1. CASE Event
    BY <2>1 DEF Event
  <2>2. CASE TimerFires
    BY <2>2 DEF TimerFires
  <2>3. CASE Reload
    <3>1. loose' \in BOOLEAN
      BY <2>3 DEF Reload
    <3>2. QED BY <2>3, <3>1 DEF Reload
  <2>4. CASE Applied \/ WatcherEnds
    BY <2>4 DEF Applied, WatcherEnds
  <2>5. QED BY <1>3, <2>1, <2>2, <2>3, <2>4 DEF Watching
<1>4. CASE RemoveCancels \/ RemoveCloses
  <2>1. cut' \subseteq Workers /\ shut' \subseteq Workers
    BY <1>4 DEF RemoveCancels, RemoveCloses, CancelVictim, Phases
  <2>2. QED BY <1>4, <2>1 DEF RemoveCancels, RemoveCloses, CancelVictim
<1>5. CASE BootFails \/ StartWatcher \/ Interrupt
  BY <1>5 DEF BootFails, StartWatcher, Interrupt, MainMoves
<1>6. CASE Stop \/ Stopping
  BY <1>6 DEF Stop, Stopping, Drained, StopCloses, CloseWatcher, Clients, MainMoves
<1>7. CASE Overflow
  BY <1>7 DEF Overflow
<1>8. QED BY <1>1, <1>2, <1>3, <1>4, <1>5, <1>6, <1>7

\* A worker's step moves it on, from where it is to where runPeer goes next.
LEMMA WorkMoves ==
  ASSUME TypeOK, NEW w \in Workers, Working(w)
  PROVE  /\ UNCHANGED <<confVars, reloadVars, who, cut, shut, listed, up, main, closing, cancelled>>
         /\ ~Gone(w)
         /\ at' \in [Workers -> {"free", "probe", "subscribe", "retry", "stream", "done"}]
         /\ \A v \in Workers : v # w => at'[v] = at[v]
         /\ seen' \subseteq Workers /\ ticked' \subseteq Workers
<1>1. CASE Tick(w) \/ ProbeTick(w)
  BY <1>1 DEF TypeOK, Tick, ProbeTick, Probed, WorkUnchanged, Gone
<1>2. CASE FirstProbe(w) \/ RetryDelay(w)
  BY <1>2 DEF TypeOK, FirstProbe, RetryDelay, Moves, Probed, WorkUnchanged, Gone
<1>3. CASE Answered(w)
  BY <1>3 DEF TypeOK, Answered, Refused, Opened, TickWaits, StreamLost, Moves,
              WorkUnchanged, Gone
<1>4. CASE WorkerEnds(w)
  BY <1>4 DEF TypeOK, WorkerEnds, Moves, WorkUnchanged, Gone
<1>5. QED BY <1>1, <1>2, <1>3, <1>4 DEF Working

\* The daemon boots: every configured peer gets its worker.
LEMMA BootStarts ==
  ASSUME TypeOK, Phases, Boot
  PROVE  \E f : Started({p \in Peers : file[p] # Absent}, f, file)
<1> DEFINE S == {p \in Peers : file[p] # Absent}
<1>1. file \in Configs /\ Spawned(Names(S), file)
  BY DEF Boot, TypeOK
<1>2. S \in SUBSET Peers /\ \A p \in S : file[p] # Absent
  OBVIOUS
<1>3. main = "boot"
  BY DEF Boot, MainMoves
<1> HIDE DEF S
<1>4. Names(S) \in [S -> Workers] /\ \A p, q \in S : p # q => Names(S)[p] # Names(S)[q]
  BY <1>2, <1>3, NamesAtBoot
<1>5. Started(S, Names(S), file)
  BY <1>1, <1>2, <1>4, SpawnedType
<1>6. QED BY <1>5 DEF S

\* A peer is added: it gets a spare worker.
LEMMA AddStarts ==
  ASSUME TypeOK, Phases, NEW p \in Peers, AddPeer(p)
  PROVE  \E f : Started({p}, f, want) /\ \A q \in Peers : listed[q] # f[p]
<1> DEFINE S == {p}
<1>1. want \in Configs /\ Spawned(Names(S), want)
  BY DEF AddPeer, Phases
<1>2. S \in SUBSET Peers /\ \A q \in S : want[q] # Absent
  BY DEF AddPeer
<1>3. Names(S) \in [S -> Workers] /\ \A q, r \in S : q # r => Names(S)[q] # Names(S)[r]
  BY NameForOne DEF AddPeer, Spare
<1> HIDE DEF S
<1>4. Started(S, Names(S), want)
  BY <1>1, <1>2, <1>3, SpawnedType
<1>5. Names({p})[p] \in Spare
  BY NameForOne DEF AddPeer
<1>6. QED BY <1>4, <1>5 DEF S, Spare

\* Every step keeps the types.
LEMMA TypeStep == TypeOK /\ Phases /\ [Next]_vars => TypeOK'
<1> SUFFICES ASSUME TypeOK, Phases, [Next]_vars PROVE TypeOK'
  OBVIOUS
<1>1. ASSUME NEW w \in Workers, Working(w)
      PROVE  TypeOK'
  BY <1>1, WorkMoves DEF TypeOK, confVars, reloadVars
<1>2. CASE Boot
  <2>1. /\ UNCHANGED <<confVars, reloadVars, up, closing, cancelled>>
        /\ main' = "watch"
    BY <1>2 DEF Boot, MainMoves
  <2>2. PICK f : Started({p \in Peers : file[p] # Absent}, f, file)
    BY <1>2, BootStarts
  <2>3. QED BY <2>1, <2>2 DEF Started, TypeOK, confVars, reloadVars
<1>3. ASSUME NEW p \in Peers, AddPeer(p) PROVE TypeOK'
  <2>1. /\ UNCHANGED <<confVars, timer, loose, signal, watcher, want, victim, up,
                       main, closing, cancelled>>
        /\ left' \subseteq left
    BY <1>3 DEF AddPeer
  <2>2. PICK f : Started({p}, f, want)
    BY <1>3, AddStarts
  <2>3. QED BY <2>1, <2>2 DEF Started, TypeOK, confVars
<1>4. ASSUME NEW p \in Peers, RemovePeer(p) PROVE TypeOK'
  BY <1>4 DEF RemovePeer, TypeOK, confVars, workVars
<1>5. CASE UNCHANGED vars
  BY <1>5 DEF TypeOK, vars, confVars, reloadVars, workVars
<1>6. QED BY <1>1, <1>2, <1>3, <1>4, <1>5, QuietType DEF Next, Applying

\* The phases of the daemon, of the watcher and of a removal stay in step.
LEMMA PhasesStep == TypeOK /\ Phases /\ [Next]_vars => Phases'
<1> SUFFICES ASSUME TypeOK, Phases, [Next]_vars PROVE Phases'
  OBVIOUS
<1> USE DEF Phases, confVars, reloadVars, workVars
<1>1. CASE Edit \/ Overflow \/ (\E a \in Addrs : Flip(a)) \/ UNCHANGED vars
  BY <1>1 DEF Edit, Overflow, Flip, vars
<1>2. CASE Watching
  BY <1>2 DEF Watching, Event, TimerFires, Reload, Applied, WatcherEnds, TypeOK
<1>3. ASSUME NEW p \in Peers, AddPeer(p) PROVE Phases'
  BY <1>3 DEF AddPeer, TypeOK
<1>4. ASSUME NEW p \in Peers, RemovePeer(p) PROVE Phases'
  BY <1>4 DEF RemovePeer, TypeOK
<1>5. CASE RemoveCancels \/ RemoveCloses
  BY <1>5 DEF RemoveCancels, RemoveCloses, TypeOK
<1>6. ASSUME NEW w \in Workers, Working(w)
      PROVE  Phases'
  BY <1>6, WorkMoves DEF Gone
<1>7. CASE Boot \/ BootFails \/ StartWatcher \/ Interrupt
  BY <1>7 DEF Boot, BootFails, StartWatcher, Interrupt, MainMoves
<1>8. CASE Stop \/ Stopping
  BY <1>8 DEF Stop, Stopping, Drained, StopCloses, CloseWatcher, MainMoves
<1>9. QED BY <1>1, <1>2, <1>3, <1>4, <1>5, <1>6, <1>7, <1>8 DEF Next, Applying

-----------------------------------------------------------------------------
(* One worker per peer.                                                    *)

\* What starts is what is listed.
LEMMA StartKeepsOne ==
  ASSUME Assigned, OneWorkerPerPeer, NEW S \in SUBSET Peers, NEW f, NEW c, Started(S, f, c),
         \A p \in S : listed[p] = Absent,
         UNCHANGED <<victim, watcher, cancelled>>
  PROVE  Assigned' /\ OneWorkerPerPeer'
<1>0. Assigned'
  <2> SUFFICES ASSUME NEW w \in Workers, ~Gone(w)' PROVE who'[w] \in Peers \X Addrs
    BY DEF Assigned
  <2>1. CASE w \in {f[p] : p \in S}
    BY <2>1, SMTT(30) DEF Started
  <2>2. CASE w \notin {f[p] : p \in S}
    BY <2>2 DEF Started, Assigned, Gone
  <2>3. QED BY <2>1, <2>2
<1> SUFFICES ASSUME NEW w \in Workers, ~Gone(w)', ~Done(w)'
             PROVE  listed'[who'[w][1]] = w \/ (w = victim /\ watcher = "cancel")
  BY <1>0 DEF OneWorkerPerPeer
<1>1. CASE w \in {f[p] : p \in S}
  BY <1>1 DEF Started
<1>2. CASE w \notin {f[p] : p \in S}
  <2>1. who'[w] = who[w] /\ ~Gone(w) /\ ~Done(w)
    BY <1>2 DEF Started, Gone, Done
  <2>2. who[w][1] \in Peers /\ Absent \notin Workers
    BY <2>1, SupervisorAssumption DEF Assigned, SupervisorAssumption
  <2>3. CASE listed[who[w][1]] = w
    <3>1. who[w][1] \notin S
      BY <2>2, <2>3
    <3>2. QED BY <2>1, <2>2, <2>3, <3>1 DEF Started
  <2>4. QED BY <2>1, <2>3 DEF OneWorkerPerPeer
<1>3. QED BY <1>1, <1>2

\* A step that touches no worker, or moves one on, keeps both.
LEMMA OthersKeepOne ==
  ASSUME Assigned, OneWorkerPerPeer, UNCHANGED <<who, listed>>,
         \A w \in Workers : Gone(w) => Gone(w)',
         cut \subseteq cut', cancelled => cancelled',
         watcher = "cancel" => victim \in cut' \/ UNCHANGED <<victim, watcher>>
  PROVE  Assigned' /\ OneWorkerPerPeer'
BY DEF Assigned, OneWorkerPerPeer, Done

\* Every step keeps one worker per peer.
LEMMA OneStep == IInv /\ [Next]_vars => Assigned' /\ OneWorkerPerPeer'
<1> SUFFICES ASSUME IInv, [Next]_vars PROVE Assigned' /\ OneWorkerPerPeer'
  OBVIOUS
<1> USE DEF IInv, confVars, reloadVars, workVars
<1>1. CASE Boot
  <2> DEFINE S == {p \in Peers : file[p] # Absent}
  <2>1. PICK f : Started(S, f, file)
    BY <1>1, BootStarts
  <2>2. UNCHANGED <<victim, watcher, cancelled>> /\ main = "boot"
    BY <1>1 DEF Boot, MainMoves
  <2>3. \A p \in S : listed[p] = Absent
    BY <2>2 DEF Phases
  <2>4. QED BY <2>1, <2>2, <2>3, StartKeepsOne
<1>2. ASSUME NEW p \in Peers, AddPeer(p) PROVE Assigned' /\ OneWorkerPerPeer'
  <2>1. PICK f : Started({p}, f, want)
    BY <1>2, AddStarts
  <2>2. UNCHANGED <<victim, watcher, cancelled>> /\ listed[p] = Absent
    BY <1>2 DEF AddPeer
  <2>3. QED BY <2>1, <2>2, StartKeepsOne
<1>3. ASSUME NEW p \in Peers, RemovePeer(p) PROVE Assigned' /\ OneWorkerPerPeer'
  <2>1. /\ listed' = [listed EXCEPT ![p] = Absent]
        /\ victim' = listed[p] /\ watcher = "apply" /\ watcher' = "cancel"
        /\ UNCHANGED <<who, at, cut, cancelled>>
    BY <1>3 DEF RemovePeer
  <2>2. Assigned'
    BY <2>1 DEF Assigned, Gone
  <2>3. ASSUME NEW w \in Workers, ~Gone(w)', ~Done(w)'
        PROVE  listed'[who'[w][1]] = w \/ (w = victim' /\ watcher' = "cancel")
    <3>1. ~Gone(w) /\ ~Done(w)
      BY <2>1, <2>3 DEF Gone, Done
    <3>2. listed[who[w][1]] = w /\ who[w][1] \in Peers
      BY <2>1, <3>1 DEF Assigned, OneWorkerPerPeer
    <3>3. QED BY <2>1, <3>2 DEF TypeOK
  <2>4. QED BY <2>2, <2>3 DEF OneWorkerPerPeer
<1>4. CASE RemoveCancels \/ RemoveCloses
  BY <1>4, OthersKeepOne DEF RemoveCancels, RemoveCloses, CancelVictim, Gone
<1>5. ASSUME NEW w \in Workers, Working(w)
      PROVE  Assigned' /\ OneWorkerPerPeer'
  <2>1. /\ UNCHANGED <<who, cut, listed, cancelled, victim, watcher>>
        /\ \A v \in Workers : Gone(v) => Gone(v)'
    BY <1>5, WorkMoves DEF Gone
  <2>2. QED BY <2>1, OthersKeepOne
<1>6. CASE Edit \/ Overflow \/ (\E a \in Addrs : Flip(a)) \/ UNCHANGED vars
  BY <1>6, OthersKeepOne DEF Edit, Overflow, Flip, vars, Gone
<1>7. CASE Watching
  BY <1>7, OthersKeepOne DEF Watching, Event, TimerFires, Reload, Applied, WatcherEnds, Gone
<1>8. CASE BootFails \/ StartWatcher \/ Interrupt
  BY <1>8, OthersKeepOne DEF BootFails, StartWatcher, Interrupt, MainMoves, Gone, Phases
<1>9. CASE Stop \/ Stopping
  BY <1>9, OthersKeepOne DEF Stop, Stopping, Drained, StopCloses, CloseWatcher, MainMoves, Gone
<1>10. QED BY <1>1, <1>2, <1>3, <1>4, <1>5, <1>6, <1>7, <1>8, <1>9 DEF Next, Applying


-----------------------------------------------------------------------------
(* No edit is forgotten.                                                   *)

\* What the watcher is bringing about: between the boot and the watch nobody
\* but unseen knows of an edit; in ApplyPeers the peers done so far are those
\* of want, and want is the file unless an event waits or was lost.
Reloading == watcher \in {"apply", "cancel", "close"}

Coming ==
  /\ main = "watch" /\ ~unseen => Running = file
  /\ Reloading => \A p \in Peers \ left : Running[p] = want[p]
  /\ Reloading => event \/ unseen \/ want = file
  /\ EditIsComing

\* A step that leaves the peers alone leaves what runs alone.
LEMMA SameRunning == UNCHANGED <<listed, who>> => UNCHANGED Running
BY DEF Running, Address

\* What starts runs where its configuration says, and what ran goes on.
LEMMA StartedRuns ==
  ASSUME TypeOK, NEW S \in SUBSET Peers, NEW f, NEW c, Started(S, f, c),
         \A p \in S, q \in Peers \ S : listed[q] # f[p]
  PROVE  /\ \A p \in S : (Running')[p] = c[p]
         /\ \A p \in Peers \ S : (Running')[p] = Running[p]
<1>0. Absent \notin Workers
  BY SupervisorAssumption DEF SupervisorAssumption
<1>1. ASSUME NEW p \in S PROVE (Running')[p] = c[p]
  BY <1>0, <1>1 DEF Started, Running, Address
<1>2. ASSUME NEW p \in Peers \ S PROVE (Running')[p] = Running[p]
  <2>1. listed'[p] = listed[p] /\ listed[p] \in Workers \cup {Absent}
    BY <1>2 DEF Started, TypeOK
  <2>2. CASE listed[p] = Absent
    BY <2>1, <2>2 DEF Running
  <2>3. CASE listed[p] \in Workers
    <3>1. who'[listed[p]] = who[listed[p]]
      BY <1>2, <2>3 DEF Started
    <3>2. QED BY <2>1, <3>1 DEF Running, Address
  <2>4. QED BY <2>1, <2>2, <2>3
<1>3. QED BY <1>1, <1>2

\* Before anything is edited nothing is forgotten.
LEMMA InitComing == Init => Coming
BY DEF Init, Coming, EditIsComing, Reloading

\* The watcher's own steps.
LEMMA WatcherComing ==
  ASSUME TypeOK, Phases, Coming, Watching
  PROVE  Coming'
<1>0. UNCHANGED <<listed, who, main, file>> /\ Running' = Running
  BY SameRunning DEF Watching, Event, TimerFires, Reload, Applied, WatcherEnds,
                     confVars, workVars
<1> USE DEF Coming, EditIsComing, Reloading, confVars
<1>1. CASE Event
  BY <1>0, <1>1 DEF Event
<1>2. CASE TimerFires
  BY <1>0, <1>2 DEF TimerFires
<1>3. CASE Reload
  <2>1. CASE file = Torn
    BY <1>0, <1>3, <2>1 DEF Reload, Phases
  <2>2. CASE file # Torn
    <3>1. /\ watcher' = "apply" /\ want' = file /\ ~unseen'
          /\ left' = {p \in Peers : file[p] # Running[p]}
      BY <1>3, <2>2 DEF Reload, Differs
    <3>2. main' # "watch"
      BY <1>0, <1>3 DEF Reload, Phases
    <3>3. QED BY <1>0, <3>1, <3>2
  <2>3. QED BY <2>1, <2>2
<1>4. CASE Applied
  <2>1. want \in [Peers -> Addrs \cup {Absent}]
    BY <1>4, SupervisorAssumption DEF Applied, Phases, SupervisorAssumption
  <2>2. \A p \in Peers : Running[p] = want[p]
    BY <1>4 DEF Applied
  <2>3. Running = want
    BY <2>1, <2>2 DEF Running
  <2>4. QED BY <1>0, <1>4, <2>3 DEF Applied
<1>5. CASE WatcherEnds
  BY <1>0, <1>5 DEF WatcherEnds, Phases
<1>6. QED BY <1>1, <1>2, <1>3, <1>4, <1>5 DEF Watching

\* ApplyPeers brings one peer after the other to want.
LEMMA ApplyComing ==
  ASSUME TypeOK, Phases, Coming, Applying
  PROVE  Coming'
<1> USE DEF Coming, EditIsComing, Reloading, confVars
<1>0. /\ Reloading /\ Reloading' /\ watcher # "off" /\ watcher # "loop" /\ watcher' # "loop"
      /\ UNCHANGED <<file, event, unseen, timer, loose, signal, want, main>>
  BY DEF Applying, AddPeer, RemovePeer, RemoveCancels, RemoveCloses
<1>1. main # "watch" /\ (event \/ unseen \/ want = file)
  BY <1>0 DEF Phases
<1> SUFFICES ASSUME NEW p \in Peers \ left' PROVE (Running')[p] = want[p]
  BY <1>0, <1>1
<1>2. CASE RemoveCancels \/ RemoveCloses
  <2>1. Running' = Running /\ left' = left
    BY <1>2, SameRunning DEF RemoveCancels, RemoveCloses
  <2>2. QED BY <1>0, <2>1
<1>3. ASSUME NEW q \in Peers, AddPeer(q) PROVE (Running')[p] = want[p]
  <2>1. PICK f : Started({q}, f, want) /\ \A r \in Peers : listed[r] # f[q]
    BY <1>3, AddStarts
  <2> DEFINE S == {q}
  <2>2. S \in SUBSET Peers /\ \A r \in S, t \in Peers \ S : listed[t] # f[r]
    BY <2>1
  <2>3. Started(S, f, want)
    BY <2>1
  <2> HIDE DEF S
  <2>4. /\ \A r \in S : (Running')[r] = want[r]
        /\ \A r \in Peers \ S : (Running')[r] = Running[r]
    BY <2>2, <2>3, StartedRuns
  <2>5. left' = left \ {q}
    BY <1>3 DEF AddPeer
  <2>6. QED BY <1>0, <2>4, <2>5 DEF S
<1>4. ASSUME NEW q \in Peers, RemovePeer(q) PROVE (Running')[p] = want[p]
  <2>1. /\ listed' = [listed EXCEPT ![q] = Absent] /\ who' = who
        /\ left' = IF want[q] = Absent THEN left \ {q} ELSE left
        /\ q \in left
    BY <1>4 DEF RemovePeer, workVars
  <2>2. CASE p = q
    BY <2>1, <2>2 DEF Running, TypeOK
  <2>3. CASE p # q
    <3>1. (Running')[p] = Running[p] /\ p \notin left
      BY <2>1, <2>3 DEF Running, Address, TypeOK
    <3>2. QED BY <1>0, <3>1
  <2>4. QED BY <2>2, <2>3
<1>5. QED BY <1>2, <1>3, <1>4 DEF Applying

\* Booting lists what the file says.
LEMMA BootComing ==
  ASSUME TypeOK, Phases, Coming, Boot
  PROVE  Coming'
<1> DEFINE S == {p \in Peers : file[p] # Absent}
<1>1. /\ main = "boot" /\ file \in Configs
      /\ UNCHANGED <<file, unseen, event, timer, loose, signal, watcher, want, left>>
  BY DEF Boot, MainMoves, TypeOK, confVars, reloadVars
<1>2. PICK f : Started(S, f, file)
  BY BootStarts
<1>3. watcher = "off" /\ \A p \in Peers : listed[p] = Absent
  BY <1>1 DEF Phases
<1>4. \A p \in S : f[p] \in Workers /\ Absent \notin Workers
  BY <1>2, SupervisorAssumption DEF Started, SupervisorAssumption
<1>5. /\ \A p \in S : (Running')[p] = file[p]
      /\ \A p \in Peers \ S : (Running')[p] = Running[p]
  <2>1. S \in SUBSET Peers /\ \A p \in S, q \in Peers \ S : listed[q] # f[p]
    BY <1>3, <1>4
  <2> HIDE DEF S
  <2>2. QED BY <1>2, <2>1, StartedRuns
<1>6. \A p \in Peers : (Running')[p] = file[p]
  BY <1>3, <1>5 DEF Running
<1>7. file \in [Peers -> Addrs \cup {Absent}]
  BY <1>1, SupervisorAssumption DEF SupervisorAssumption
<1>8. Running' = file
  BY <1>6, <1>7 DEF Running
<1>9. QED BY <1>1, <1>3, <1>8 DEF Coming, EditIsComing, Reloading

\* Every step keeps the account of what is to come.
LEMMA ComingStep == IInv /\ Coming /\ [Next]_vars => Coming'
<1> SUFFICES ASSUME TypeOK, Phases, Coming, [Next]_vars PROVE Coming'
  BY DEF IInv
<1> USE DEF confVars, reloadVars, workVars
<1>1. ASSUME UNCHANGED <<listed, who>>, UNCHANGED <<confVars, reloadVars, main>>
      PROVE  Coming'
  BY <1>1, SameRunning DEF Coming, EditIsComing, Reloading
<1>2. ASSUME UNCHANGED <<listed, who>>, UNCHANGED <<confVars, reloadVars>>, main' # "watch"
      PROVE  Coming'
  BY <1>2, SameRunning DEF Coming, EditIsComing, Reloading
<1>3. CASE Edit
  <2>1. UNCHANGED <<listed, who, reloadVars, main>> /\ Running' = Running
    BY <1>3, SameRunning DEF Edit
  <2>2. /\ event' = (watcher # "off")
        /\ unseen' = (watcher = "off" /\ main # "boot")
    BY <1>3 DEF Edit
  <2>3. QED BY <2>1, <2>2 DEF Coming, EditIsComing, Reloading, Phases
<1>4. CASE Overflow
  <2>1. UNCHANGED <<listed, who, reloadVars, main, file>> /\ Running' = Running /\ unseen'
    BY <1>4, SameRunning DEF Overflow
  <2>2. QED BY <2>1 DEF Coming, EditIsComing, Reloading
<1>5. CASE StartWatcher
  <2>1. UNCHANGED <<listed, who, confVars, timer, loose, signal>> /\ Running' = Running
    BY <1>5, SameRunning DEF StartWatcher
  <2>2. main = "watch" /\ main' = "serve" /\ watcher' \in {"loop", "off"}
    BY <1>5 DEF StartWatcher, MainMoves
  <2>3. QED BY <2>1, <2>2 DEF Coming, EditIsComing, Reloading
<1>6. CASE (\E a \in Addrs : Flip(a)) \/ Interrupt \/ UNCHANGED vars
  BY <1>1, <1>6 DEF Flip, Interrupt, vars
<1>7. ASSUME NEW w \in Workers, Working(w) PROVE Coming'
  BY <1>1, <1>7, WorkMoves
<1>8. CASE BootFails \/ Stop \/ Stopping
  BY <1>2, <1>8 DEF BootFails, Stop, Stopping, Drained, StopCloses, CloseWatcher, MainMoves
<1>9. QED BY <1>3, <1>4, <1>5, <1>6, <1>7, <1>8, WatcherComing, ApplyComing, BootComing
          DEF Next

-----------------------------------------------------------------------------
\* The invariant holds in every reachable state.
THEOREM SupervisorInvariance == Spec => []IInv
<1>1. IInv /\ [Next]_vars => IInv'
  BY TypeStep, PhasesStep, OneStep DEF IInv
<1>2. QED BY InitHolds, <1>1, PTL DEF Spec

\* Type correctness of the provider, its workers and the watcher.
THEOREM SupervisorTypeCorrect == Spec => []TypeOK
<1>1. IInv => TypeOK
  BY DEF IInv
<1>2. QED BY <1>1, SupervisorInvariance, PTL

\* A peer has one worker that may go on, whatever is edited while the daemon
\* runs, boots or stops, for any peers, addresses and configurations.
THEOREM OnePerPeer == Spec => []OneWorkerPerPeer
<1>1. IInv => OneWorkerPerPeer
  BY DEF IInv
<1>2. QED BY <1>1, SupervisorInvariance, PTL

\* However often the file is edited and torn, and whatever the watcher is doing
\* when that happens: while the peers are not those of the file, an event, a
\* timer, the reload signal or the apply under way is about to bring them there,
\* unless the kernel lost the event or nobody was watching.
THEOREM EditNeverForgotten == Spec => []EditIsComing
<1>1. Coming => EditIsComing
  BY DEF Coming
<1>2. QED BY InitComing, ComingStep, <1>1, SupervisorInvariance, PTL DEF Spec
=============================================================================
