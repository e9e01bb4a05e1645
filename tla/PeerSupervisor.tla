--------------------------- MODULE PeerSupervisor ---------------------------
(***************************************************************************)
(* Federation: which peers the daemon talks to and which it shows as       *)
(* reachable.  Three kinds of process: the daemon's main goroutine (boot,  *)
(* serve, stop), the config watcher, which debounces edits of the config   *)
(* file and diffs it against the peers (ApplyPeers), and one worker per    *)
(* peer (runPeer), which probes it and keeps a subscription open.  A       *)
(* worker sees of its Client what PeerStream promises: Subscribe is        *)
(* refused or opens a stream, and an open stream ends.                     *)
(***************************************************************************)
EXTENDS Naturals, FiniteSets

CONSTANTS
  Peers, Addrs,  \* names in the config file; addresses they may stand for
  Absent,        \* no such peer, no such worker
  Torn,          \* a file that does not parse
  Configs,       \* contents the file may have: Peers -> Addrs \cup {Absent}
  Workers,       \* names for adapter + client + goroutine, reused when gone
  MaxEdits       \* bound on edits of the file

ASSUME SupervisorAssumption ==
  /\ Configs \subseteq [Peers -> Addrs \cup {Absent}]
  /\ Absent \notin Addrs \cup Workers /\ Torn \notin Configs
  /\ MaxEdits \in Nat
  /\ \E f \in [Peers -> Workers] : \A p, q \in Peers : p # q => f[p] # f[q]

VARIABLES
  file, edits,  \* the config file, and how often it was edited
  event,        \* fsnotify events wait for the watcher
  timer,        \* run's pendingTimer: nil, running or already fired
  loose,        \* a running timer pendingTimer no longer points at
  signal,       \* reloadCh holds a signal
  watcher,      \* where the watcher goroutine is
  want, left,   \* ApplyPeers: the new config, peers it has yet to process
  victim,       \* RemovePeer: taken off the list, not closed yet
  listed,       \* p.adapters and p.clients: the worker of each name
  who,          \* each worker's PeerConfig: name and address
  at,           \* where each worker's goroutine is
  cut,          \* workers whose own context RemovePeer cancelled
  shut,         \* workers whose client was closed
  seen,         \* workers whose adapter says reachable
  ticked,       \* workers whose probeTicker channel holds a tick
  up,           \* addresses where a daemon answers
  main,         \* the daemon's main goroutine
  closing,      \* the clients Stop has found listed
  cancelled,    \* startCtx is done
  unseen        \* history: nobody is told of the file's last edit

confVars   == <<file, edits, event, unseen>>
reloadVars == <<timer, loose, signal, watcher, want, left, victim>>
workVars   == <<who, at, cut, shut, seen, ticked>>
vars == <<confVars, reloadVars, workVars, listed, up, main, closing, cancelled>>

TypeOK ==
  /\ file \in Configs \cup {Torn} /\ edits \in 0..MaxEdits
  /\ timer \in {"nil", "running", "fired"}
  /\ {event, loose, signal, cancelled, unseen} \subseteq BOOLEAN
  /\ watcher \in {"off", "loop", "apply", "cancel", "close", "over"}
  /\ want \in Configs \cup {Torn} /\ left \subseteq Peers
  /\ victim \in Workers \cup {Absent}
  /\ listed \in [Peers -> Workers \cup {Absent}]
  /\ who \in [Workers -> (Peers \X Addrs) \cup {Absent}]
  /\ at \in [Workers -> {"free", "probe", "subscribe", "retry", "stream", "done"}]
  /\ cut \subseteq Workers /\ shut \subseteq Workers
  /\ seen \subseteq Workers /\ ticked \subseteq Workers
  /\ up \subseteq Addrs
  /\ main \in {"boot", "watch", "serve", "drain", "close", "await", "over"}
  /\ closing \subseteq Workers

Init ==
  /\ file \in Configs /\ edits = 0 /\ event = FALSE /\ unseen = FALSE
  /\ timer = "nil" /\ loose = FALSE /\ signal = FALSE
  /\ watcher = "off" /\ want = Torn /\ left = {} /\ victim = Absent
  /\ listed = [p \in Peers |-> Absent]
  /\ who = [w \in Workers |-> Absent] /\ at = [w \in Workers |-> "free"]
  /\ cut = {} /\ shut = {} /\ seen = {} /\ ticked = {}
  /\ up = {} /\ main = "boot" /\ closing = {} /\ cancelled = FALSE

Gone(w) == at[w] \in {"free", "done"}
Done(w) == cancelled \/ w \in cut            \* <-ctx.Done() of runPeer
Address(w) == who[w][2]

\* The config the provider runs, as Peers() would report it.
Running == [p \in Peers |-> IF listed[p] = Absent THEN Absent ELSE Address(listed[p])]

-----------------------------------------------------------------------------
(* The file and the machines behind the addresses.                         *)

\* An editor saves: in place (torn for a moment) or by an atomic rename.
\* The event reaches whoever watches the directory.
Edit ==
  /\ edits < MaxEdits
  /\ \E c \in (Configs \cup {Torn}) \ {file} :
       /\ file' = c
       /\ edits' = IF c = Torn THEN edits ELSE edits + 1
  /\ event' = (watcher # "off")
  /\ unseen' = (watcher = "off" /\ main # "boot")
  /\ UNCHANGED <<reloadVars, workVars, listed, up, main, closing, cancelled>>

Flip(a) ==
  /\ up' = (up \ {a}) \cup ({a} \ up)
  /\ UNCHANGED <<confVars, reloadVars, workVars, listed, main, closing, cancelled>>

-----------------------------------------------------------------------------
(* run: the watcher's loop.  Closed and cancelled loops return at the next *)
(* select, which picks any ready case.                                     *)

\* The kernel's queue overflows: an error that is logged, and the event is lost.
Overflow ==
  /\ watcher # "off" /\ event
  /\ event' = FALSE /\ unseen' = TRUE
  /\ UNCHANGED <<file, edits, reloadVars, workVars, listed, up, main, closing,
                 cancelled>>

Event ==
  /\ watcher = "loop" /\ event
  /\ event' = FALSE
  /\ timer' = "running"
  /\ UNCHANGED <<file, edits, unseen, loose, signal, watcher, want, left,
                 victim, workVars, listed, up, main, closing, cancelled>>

TimerFires ==
  /\ \/ timer = "running" /\ timer' = "fired" /\ UNCHANGED loose
     \/ loose /\ loose' = FALSE /\ UNCHANGED timer
  /\ signal' = TRUE
  /\ UNCHANGED <<confVars, watcher, want, left, victim, workVars, listed, up,
                 main, closing, cancelled>>

MutNameOnly(p, c) == (c[p] = Absent) # (Running[p] = Absent)

\* ApplyPeers has something to do about p: not peerConfigEqual, or one-sided.
Differs(p, c) == c[p] # Running[p]

\* <-reloadCh: LoadFederationConfig; a file that does not parse is skipped.
Reload ==
  /\ watcher = "loop" /\ signal
  /\ signal' = FALSE /\ timer' = "nil" /\ loose' = (loose \/ timer = "running")
  /\ IF file = Torn
     THEN UNCHANGED <<watcher, want, left, unseen>>
     ELSE /\ watcher' = "apply" /\ want' = file /\ unseen' = FALSE
          /\ left' = {p \in Peers : Differs(p, file)}
  /\ UNCHANGED <<file, edits, event, victim, workVars, listed, up, main,
                 closing, cancelled>>

Applied ==
  /\ watcher = "apply" /\ left = {}
  /\ watcher' = "loop" /\ want' = Torn
  /\ UNCHANGED <<confVars, timer, loose, signal, left, victim, workVars,
                 listed, up, main, closing, cancelled>>

WatcherEnds ==
  /\ watcher = "loop" /\ (cancelled \/ main = "await")
  /\ watcher' = "over" /\ timer' = "nil"
  /\ UNCHANGED <<confVars, loose, signal, want, left, victim, workVars, listed,
                 up, main, closing, cancelled>>

-----------------------------------------------------------------------------
(* ApplyPeers, one AddPeer or RemovePeer after the other: first the peers  *)
(* of the new config, a changed one removed and added, then the others.    *)

\* A worker for each name of S, as startPeer leaves them.
Spawned(f, c) ==
  /\ listed' = [p \in Peers |-> IF p \in DOMAIN f THEN f[p] ELSE listed[p]]
  /\ LET of(w) == CHOOSE p \in DOMAIN f : f[p] = w
         new == {f[p] : p \in DOMAIN f}
     IN /\ who' = [w \in Workers |-> IF w \in new THEN <<of(w), c[of(w)]>> ELSE who[w]]
        /\ at' = [w \in Workers |-> IF w \in new THEN "probe" ELSE at[w]]
        /\ cut' = cut \ new /\ shut' = shut \ new /\ seen' = seen \ new
        /\ ticked' = ticked \ new

\* Names nobody refers to any more.
Spare == {w \in Workers \ closing : Gone(w) /\ w # victim
                          /\ \A p \in Peers : listed[p] # w}

\* One injective choice of spare names for the peers of S (it does not
\* matter which).
Names(S) == CHOOSE f \in [S -> Spare] : \A p, q \in S : p # q => f[p] # f[q]

AddPeer(p) ==
  /\ watcher = "apply" /\ p \in left /\ want[p] # Absent /\ listed[p] = Absent
  /\ Spare # {}
  /\ Spawned(Names({p}), want)
  /\ left' = left \ {p}
  /\ UNCHANGED <<confVars, timer, loose, signal, watcher, want, victim, up,
                 main, closing, cancelled>>

\* RemovePeer, under the lock ...
RemovePeer(p) ==
  /\ watcher = "apply" /\ p \in left /\ listed[p] # Absent
  /\ want[p] = Absent => \A q \in left : want[q] = Absent
  /\ listed' = [listed EXCEPT ![p] = Absent]
  /\ victim' = listed[p] /\ watcher' = "cancel"
  /\ left' = IF want[p] = Absent THEN left \ {p} ELSE left
  /\ UNCHANGED <<confVars, timer, loose, signal, want, workVars, up, main,
                 closing, cancelled>>

MutForgetCancel == cut' = cut

CancelVictim == cut' = cut \cup {victim}

\* ... then cancel() ...
RemoveCancels ==
  /\ watcher = "cancel" /\ watcher' = "close"
  /\ CancelVictim
  /\ UNCHANGED <<confVars, timer, loose, signal, want, left, victim, who, at,
                 shut, seen, ticked, listed, up, main, closing, cancelled>>

\* ... then client.Close().
RemoveCloses ==
  /\ watcher = "close" /\ watcher' = "apply"
  /\ shut' = shut \cup {victim} /\ victim' = Absent
  /\ UNCHANGED <<confVars, timer, loose, signal, want, left, who, at, cut,
                 seen, ticked, listed, up, main, closing, cancelled>>

-----------------------------------------------------------------------------
(* runPeer.                                                                *)

Moves(w, from, to) == at[w] = from /\ at' = [at EXCEPT ![w] = to]

WorkUnchanged ==
  UNCHANGED <<confVars, reloadVars, who, cut, shut, listed, up, main, closing, cancelled>>

\* PeerAdapter.Probe: the health query, refused at once under a dead context.
Probed(w) ==
  seen' = IF Address(w) \in up /\ ~Done(w) THEN seen \cup {w} ELSE seen \ {w}

FirstProbe(w) ==
  /\ Moves(w, "probe", "subscribe") /\ Probed(w)
  /\ UNCHANGED ticked /\ WorkUnchanged

\* Subscribe fails: whatever goes wrong between the dial and the subscribe
\* frame, with a peer that is up too.
Refused(w) ==
  /\ Moves(w, "subscribe", "retry")
  /\ UNCHANGED <<seen, ticked>> /\ WorkUnchanged

\* The ticker is made anew for each stream.
MutTickDropped(w) == ticked' = ticked \ {w}

\* It is made once, before the loop: a tick that has come waits in its channel.
TickWaits(w) == UNCHANGED ticked

\* A connection that is already open serves even a dead context.
Opened(w) ==
  /\ Moves(w, "subscribe", "stream")
  /\ Address(w) \in up /\ w \notin shut
  /\ TickWaits(w)
  /\ UNCHANGED seen /\ WorkUnchanged

RetryDelay(w) ==
  Moves(w, "retry", "subscribe") /\ UNCHANGED <<seen, ticked>> /\ WorkUnchanged

\* probeTicker: its channel keeps one tick until somebody reads it.
Tick(w) ==
  /\ at[w] \in {"subscribe", "retry", "stream"}
  /\ ticked' = ticked \cup {w}
  /\ UNCHANGED <<at, seen>> /\ WorkUnchanged

\* <-probeTicker.C, read only while a stream is open.
ProbeTick(w) ==
  /\ at[w] = "stream" /\ w \in ticked
  /\ Probed(w) /\ ticked' = ticked \ {w}
  /\ UNCHANGED at /\ WorkUnchanged

\* The stream's channel is closed: the peer or the client ended it, or the
\* connection failed.
StreamLost(w) ==
  /\ Moves(w, "stream", "subscribe")
  /\ UNCHANGED <<seen, ticked>> /\ WorkUnchanged

MutRetryDeaf(w) ==
  /\ Moves(w, "stream", "done") /\ Done(w)
  /\ ticked' = ticked \ {w}
  /\ UNCHANGED seen /\ WorkUnchanged

WorkerEnds(w) ==
  /\ \E from \in {"retry", "stream"} : Moves(w, from, "done")
  /\ Done(w)
  /\ ticked' = ticked \ {w}
  /\ UNCHANGED seen /\ WorkUnchanged

-----------------------------------------------------------------------------
(* The daemon: load the config and start the provider, start the watcher,  *)
(* serve, Stop the provider (Server.Run's defer), Close the watcher.       *)

MainMoves(from, to) == main = from /\ main' = to

Boot ==
  /\ MainMoves("boot", "watch")
  /\ file # Torn
  /\ Spawned(Names({p \in Peers : file[p] # Absent}), file)
  /\ UNCHANGED <<confVars, reloadVars, up, closing, cancelled>>

\* A config that does not parse is fatal at boot, not later.
BootFails ==
  /\ MainMoves("boot", "over")
  /\ file = Torn
  /\ UNCHANGED <<confVars, reloadVars, workVars, listed, up, closing, cancelled>>

\* fsnotify may be unavailable: no hot reload then, and the daemon goes on.
StartWatcher ==
  /\ MainMoves("watch", "serve")
  /\ watcher' \in {"loop", "off"}
  /\ UNCHANGED <<confVars, timer, loose, signal, want, left, victim, workVars,
                 listed, up, closing, cancelled>>

Interrupt ==
  /\ main \in {"boot", "watch", "serve"} /\ ~cancelled
  /\ cancelled' = TRUE
  /\ UNCHANGED <<confVars, reloadVars, workVars, listed, up, main, closing>>

MutNilClient == {listed[p] : p \in Peers}

Clients == {listed[p] : p \in Peers} \ {Absent}

\* The context is done, or the server could not listen: Provider.Stop takes
\* note of the clients ...
Stop ==
  /\ MainMoves("serve", "drain")
  /\ cancelled' = TRUE
  /\ closing' = Clients
  /\ UNCHANGED <<confVars, reloadVars, workVars, listed, up>>

\* ... waits for the workers (p.wg.Wait) ...
Drained ==
  /\ MainMoves("drain", "close")
  /\ \A w \in Workers : Gone(w)
  /\ UNCHANGED <<confVars, reloadVars, workVars, listed, up, closing, cancelled>>

\* ... and closes those clients.
StopCloses ==
  /\ MainMoves("close", "await")
  /\ shut' = shut \cup closing /\ closing' = {}
  /\ UNCHANGED <<confVars, reloadVars, who, at, cut, seen, ticked, listed, up,
                 cancelled>>

\* ConfigWatcher.Close waits for the run goroutine, if one was started.
CloseWatcher ==
  /\ MainMoves("await", "over")
  /\ watcher \in {"off", "over"}
  /\ UNCHANGED <<confVars, reloadVars, workVars, listed, up, closing, cancelled>>

-----------------------------------------------------------------------------
Watching == Event \/ TimerFires \/ Reload \/ Applied \/ WatcherEnds
Applying == RemoveCancels \/ RemoveCloses \/ \E p \in Peers : AddPeer(p) \/ RemovePeer(p)
Answered(w) == Opened(w) \/ Refused(w) \/ StreamLost(w)
Working(w) ==
  \/ FirstProbe(w) \/ Answered(w) \/ RetryDelay(w)
  \/ Tick(w) \/ ProbeTick(w) \/ WorkerEnds(w)
Stopping == Drained \/ StopCloses \/ CloseWatcher

Next ==
  \/ Edit \/ \E a \in Addrs : Flip(a)
  \/ Watching \/ Overflow \/ Applying
  \/ \E w \in Workers : Working(w)
  \/ Boot \/ BootFails \/ StartWatcher \/ Interrupt \/ Stop \/ Stopping

Spec == Init /\ [][Next]_vars

(* Goroutines run; timers and probes are bounded.  An attempt to subscribe  *)
(* and a stream end if the peer is down, a stream also if its client is     *)
(* closed; while the peer is up, how they end is for the peer to say, and    *)
(* nothing is asked of it.  A select with several ready cases picks one at   *)
(* random, so a case that is ready again and again is taken: strong          *)
(* fairness for ctx.Done, the tick and each case of the watcher's select.    *)
Severed(w) ==
  \/ at[w] \in {"subscribe", "stream"} /\ Address(w) \notin up
  \/ at[w] = "stream" /\ w \in shut

\* Fairness of the boot and of the watcher's work ...
ReloadFair ==
  /\ WF_vars(Boot) /\ WF_vars(StartWatcher)
  /\ SF_vars(Event) /\ SF_vars(Reload)
  /\ WF_vars(TimerFires) /\ WF_vars(Applied) /\ WF_vars(Applying)

\* ... and of the workers and of the end.
Driven(w) == FirstProbe(w) \/ RetryDelay(w) \/ (Severed(w) /\ Answered(w))

PeersFair ==
  /\ SF_vars(WatcherEnds) /\ WF_vars(Stopping)
  /\ \A w \in Workers : /\ WF_vars(Driven(w)) /\ WF_vars(Tick(w))
                        /\ SF_vars(ProbeTick(w)) /\ SF_vars(WorkerEnds(w))

FairSpec == Spec /\ ReloadFair /\ PeersFair

-----------------------------------------------------------------------------
(* Properties.                                                             *)

\* A peer has one worker that may go on: every goroutine whose context is
\* not cancelled is the one listed under its name, or RemovePeer is about to
\* cancel it.  (RemovePeer does not wait for the goroutine it cancels.)
OneWorkerPerPeer ==
  \A w \in Workers : ~Gone(w) /\ ~Done(w) =>
    listed[who[w][1]] = w \/ (w = victim /\ watcher = "cancel")

\* No edit is forgotten: while the peers are not those of a valid file that was
\* edited under the watcher's eyes, an event, a timer, the reload signal or the
\* apply under way is about to bring them there.
EditIsComing ==
  watcher \in {"loop", "apply", "cancel", "close"} /\ file # Torn /\ ~unseen =>
    \/ event \/ timer = "running" \/ loose \/ signal
    \/ watcher # "loop" /\ want = file
    \/ Running = file

\* Hot reload converges on the last edit: if the file eventually stays valid,
\* its last event was not lost (made before the watch, or in an overflow), and
\* the watcher lives, then the peers are those of the file for good.
ConfigApplied ==
  <>[](watcher \in {"loop", "apply", "cancel", "close"} /\ ~cancelled
        /\ file # Torn /\ ~unseen)
    => <>[](Running = file)

\* A peer that stays configured and up, and whose streams open again and
\* again, comes to be shown as reachable, however soon each of them ends.
UpIsShown ==
  \A p \in Peers :
    (/\ <>[](listed[p] # Absent /\ Address(listed[p]) \in up /\ ~cancelled)
     /\ []<>(listed[p] # Absent /\ at[listed[p]] = "stream"))
      => []<>(listed[p] # Absent /\ listed[p] \in seen)

\* A peer that is up and neither acks nor fails keeps Subscribe (SubscribeReturns
\* of PeerClient), and so its worker, where it is.
HeldOpen == \E w \in Workers : <>[](at[w] = "subscribe")

\* Stop returns and the daemon ends, however the workers are parked and
\* whatever the watcher is in the middle of, unless a peer holds an
\* attempt to subscribe open.
StopReturns == HeldOpen \/ (main = "drain" ~> main = "over")

(* What the comments promise and the code does not keep. *)

\* doc.go: "A failed websocket open marks the peer unreachable, the next
\* dashboard query reflects `reachable: false`".
DownIsShown ==
  \A p \in Peers :
    <>[](listed[p] # Absent /\ Address(listed[p]) \notin up /\ ~cancelled)
      => []<>(listed[p] # Absent /\ listed[p] \notin seen)

\* provider.go: "Stop cancels the start context, waits for goroutines to
\* drain, and closes every transport client."
StopDrains ==
  main = "await" => /\ \A w \in Workers : Gone(w)
                    /\ \A p \in Peers : listed[p] # Absent => listed[p] \in shut
=============================================================================
