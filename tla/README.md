# Orchardist in TLA+

A verification development for [orchardist](../src): TLA+ models of the parts
whose behaviour depends on interleaving, failure and crashes, TLC runs over small
instances, and TLAPS proofs that hold for all of them. Paths are relative to the
repository root.

## The system

Orchardist shows and drives coding-agent sessions that run in tmux on one or more
machines. One Go daemon per host (`cmd/orchard-daemon`, `internal/server`,
`daemon/`) watches tmux, git, GitHub, processes and conversation files, caches
what it finds and serves it as one GraphQL graph with subscriptions; daemons
federate by proxying one another. Clients are a sidebar (`cmd/orchard-sidebar`),
a shell that hosts it (`cmd/orchard-shell`), a Rust TUI with a watch daemon
(`crates/orchard`), small CLIs and a web GUI. `orchard upgrade` replaces the
whole set of binaries.

| Part | State it keeps | Operations | Interacts with | What makes it correct |
|---|---|---|---|---|
| **Peer client** `internal/server/providers/peerproxy/client.go` | current connection, `sync.Once` of the open, subscriptions and their channels, closed flag | Subscribe, teardown on ctx, read loop, failAll, Close | one remote daemon; its callers' goroutines | every stream ends, once, for a cause; a lost peer is redialled; no socket is forgotten |
| **Peer supervision** `peerproxy/{provider,adapter,watcher}.go` | adapters, cancels, reachability, subscribers | Start, Stop, AddPeer, RemovePeer, ApplyPeers, runPeer, broadcast, file watcher | a client per peer; resolvers | exactly one worker per configured peer; reachability follows the peer; the last edit of the config is applied |
| **Suite upgrade** `internal/release/replace.go`, `cmd/orchard-upgrade` | binaries, their backups, temp files | ReplaceAll, Replace, rollback | running binaries, a second upgrade, crashes | no torn or missing binary; a failed run changes nothing; helpers before dispatcher |
| **Update check** `internal/release/check.go` | cached answer on disk | Load, Refresh, Invalidate | sidebar, doctor, upgrade | never shows an answer of the replaced binary |
| **GitHub provider** `providers/gh` | REST cache, enrichment times, cooldown, subscribers | list/get, enrich, batch enrich, webhook invalidation | GitHub; resolvers | enrichment never outlives the data it describes; the cooldown is obeyed |
| **tmux provider and store** `providers/tmux`, `store` | four stores, subscribers | refresh, poll loop, poke, fan-out | tmux; resolvers, sidebar | what is read belongs together; each change is announced |
| **Conversation provider** `providers/claudeprojects` | cache by id and UUID | Get, reload, watcher events, Stop | files of the agent | the cache follows the files |
| **Subscriptions** `resolvers/subscription.resolvers.go` | one relay per subscriber | relayInvalidations | providers, websocket | the last state reaches the subscriber |
| **Pane recovery** `cmd/orchard-shell/recover*.go` | recovery log on disk | pane-died hook, M-r | tmux hooks, concurrently | a crash loop is halted; a halted pane is parked, not dead |
| **Sidebar** `cmd/orchard-sidebar` | rows and their flags, hook states, the bar, the row menu, generations | fast poll, push lane, state-dir lane, client lane; select, close, rename | daemon or supergraph; tmux, through processes it starts | the screen never goes back and ends up current; the bar is on the session the client is on; a close takes nobody's terminal down |
| **Watch daemon** `crates/orchard/src/watch` | previous state, debounce, subscription file | poll, diff, deliver | tmux, notifications | one event per real change; registrations are kept |
| **Webhook receiver** `crates/orchard/src/webhook` | events log, tail offset | append, poll | GitHub, watch daemon | every complete line is read once |
| Remaining providers, `daemon/` modules, Rust federation, chat store, CLIs, GUI, generated code | | | | see the components in `PROJECT.json` |

What is hard here: the client's channels are looked up under a lock and used
outside it; goroutines act on connections that have been replaced; deadlines race
answers; caches are written by fetches that started before the last
invalidation; fan-outs drop; a screen is painted from answers that overtake one
another; files are read, changed and written back by several
processes; an upgrade may be cut off between any two system calls. `PROJECT.json`
lists each hazard at its line, with the properties that cover it or why none does.

## Modules

| Module | Models | Extends |
|---|---|---|
| `PeerClient` | the websocket client of one peer | instantiates `PeerStream` |
| `PeerStream` | what `Subscribe` promises: the abstract specification `PeerClient` implements | |
| `PeerClientProofs`, `PeerStreamProofs` | safety of the client; that it implements `PeerStream` | |
| `PeerSupervisor` | `Provider`, `runPeer`, the adapter and the config watcher, from boot to stop | |
| `PeerSupervisorProofs` | theorems about it | |
| `SuiteReplace` | `ReplaceAll`, `Replace`, `backupFile` | |
| `SuiteReplaceProofs` | theorems about it | |
| `GhCache` | the GitHub provider's cache of one pull request | |
| `ConversationCache` | the conversation provider's cache, its watcher and its readers | |
| `Invalidation` | tmux poll loop, the four stores, fan-out, the relay of `nodeChanged` | |
| `ProvidersProofs` | theorems about these three, each alone and together | `MCProviders` |
| `PaneRecovery` | `recover-pane`, as a pane-died hook and as M-r | |
| `WebhookTail` | `append_line`, rotation and the `Tailer` | |
| `WatchSubscriptions` | rewrites of the subscription file | |
| `LocalFilesProofs` | theorems about `PaneRecovery` and `WatchSubscriptions` | both |
| `EventLogProofs` | theorems about `WebhookTail`, and about the three files together | `MCLocalFiles`, `LocalFilesProofs` |
| `SidebarSelection` | the sidebar's bar, its row menu and the client lane | |
| `SidebarLanes` | the sidebar's fast poll, push lane and state-dir lane | |
| `SidebarProofs` | theorems about both, each alone and together | `MCSidebar` |
| `MCPeerClient`, `MCPeerSupervisor` | instances for TLC | the module of that name |
| `MCSuiteReplace` | the upgrade on a filesystem with hard links and on one without | `SuiteReplace`, twice |
| `MCProviders` | the three caches of the daemon | `GhCache`, `ConversationCache`; instantiates `Invalidation` |
| `MCLocalFiles` | the three files shared by programs | `PaneRecovery`, `WatchSubscriptions`; instantiates `WebhookTail` |
| `MCSidebar` | the two halves of the sidebar | `SidebarSelection`; instantiates `SidebarLanes` |

In each model an operator named `Mut...` sits before the operator it is a broken
version of. None is used in the specification: each shows, put in the other's
place, that the property it is paired with notices that mistake in the code.

### PeerClient and PeerStream

A *call* stands for one call of `Subscribe` with its subscription id, its channel
and the teardown goroutine it leaves; a *generation* for one `sync.Once`, the
connection its attempt opens and the read loop of that connection. `Closer` runs
`Close`. `pc[p]` says where each goroutine is, and one action takes it from one
point where others can interfere to the next: a critical section of `Client.mu` is
one action; a channel send, a channel close, a socket close and a frame written
are each their own.

| Code | Actions |
|---|---|
| `ensureConn` | `TakeOnce`, `RunOnce` or `AwaitOnce`, `DialConnects`/`DialFails`, `InitSent`/`InitFails`, `AckArrives`, `AckFails` or `AckRefused`, `OpenReady`/`OpenFailed` |
| `failOpen` | `FailOpen` (inside the failing actions) |
| `Subscribe` | `Register`/`RegisterRefused`, `SubscribeSent`, `WriteFails` |
| teardown goroutine | `CtxDone`, `CompleteSent`, `WriteFails`, `RemoveSub` |
| `readLoop`, `deliver`, `failOne` | `ReadResult`, `Deliver`, `ReadComplete`, `ReadPing`, `PongSent`, `ReadFails` |
| `failAll` | `FailAll` (lock), `Hangup`, `SendFinal`, `CloseChan`, `Drained`; `FailAllSuperseded` when the connection is not current |
| `removeSub` | `RemoveSub` (lock), `CloseChan`, `Removed` |
| `Close` | `Close` (lock), `CloseChan`, `Hangup` |
| `writeJSON`, deadlines | `SendOk`, `SendFails`, `SendParks`; a deadline is a failure that may come at any time; that of a read, the ack's too, only on a connection that went silent, as every ping re-arms it |
| the peer, the consumer | `Break`; `Receive` |

Go's run-time panics are part of the model: a second close sets `panic` to
"close", a send on a closed channel to "send", and nothing runs after either.
Payloads are left out. A frame names a subscription made on its connection, as a
peer that follows graphql-transport-ws does.

`PeerStream` is the same seen by a caller: a subscription is idle, asked for,
refused, open or ended, and holds some results. `StreamOf` maps a call to it from
the call's position and its channel; `ImplementsStream` is `PeerStream`'s
specification under that mapping. It says what no invariant does: a stream ends
once and for good, a refusal is final, results come only while it is open.

### PeerSupervisor

Three kinds of process. `main` boots the daemon (`Boot`, `BootFails`,
`StartWatcher`), serves until `Interrupt` and stops the provider (`Stop`,
`Drained`, `StopCloses`, `CloseWatcher`). The config watcher takes fsnotify
events (`Event`), debounces them with a Go timer that may be reset after it fired
(`TimerFires`, `loose`), loads the file (`Reload`) and applies it step by step
(`AddPeer`, `RemovePeer`, then `RemoveCancels` and `RemoveCloses`, because
`RemovePeer` cancels and closes outside the lock). A worker is an adapter, its
client and its `runPeer` goroutine: `FirstProbe`, `Opened` or `Refused`,
`RetryDelay`, `Tick`, `ProbeTick`, `StreamLost`, `WorkerEnds`. What it knows of its
client is what `PeerStream` promises: an attempt is refused or opens, and an open
stream ends, either with the peer up or down. `ticked` is the channel of
`probeTicker`, made once before the loop: it keeps one tick until a stream is open.
`Overflow` is an fsnotify error: it is logged, and the event is gone. Worker names are reused when a worker is gone. `Edit` saves the file, torn
for a moment or at once; `Flip` starts or stops the daemon behind an address.
`broadcast`, the peers' subscribers and `Query` are left out.

### SuiteReplace

Names refer to inodes, so a hard link and its original share bytes. One action per
system call. `dest` and `saved` are the two names of a binary, `out` the file being
written, `dirty` the inodes not synced. `Faults` names what may go wrong in an
instance: an unreadable binary, a refused link, a failed copy, a failed step of
`Replace`, a failed restoring rename, a kill, a power loss. `Kill` ends an upgrader
anywhere and a new upgrade may begin; `PowerLoss` also tears any unsynced file.
`plan`, `before`, `lost` and `ended` only record the last run, for the properties.
`Init` is any install directory: each binary present in some version, absent, or
shadowed by a directory. `Begin` offers any selection of the binaries, a superset
of what `Suite.Plan` selects, as the tests call `ReplaceAll` directly. Renames and
links are taken to be durable in the order they were made. File modes, and the
random temp names a kill leaves behind, are left out.

### GhCache

One pull request, its entry, the time stamp of its enrichment, the list payload
and the rate-limit cooldown. A caller is in one of four calls (list, get, enrich,
batch) and at one of the points between critical sections: it missed the cache,
it was answered, it wrote the list and has yet to seed the entries. GitHub
(`Change`, `Compute`, `Answer`) and the webhook handler's two drops go on
meanwhile. Ages are abstracted: whatever has one may become old (`Age`). A
revision stands for `UpdatedAt`; the enrichment remembers the revision it was
computed from, which the code does not know.

### ConversationCache

A transcript is a value, 0 when the file is gone. `Start` walks the files, reads
them one by one and only then watches (`Watch`); `run` takes keys from a bounded
channel that the watcher's `Emit` drops on when full, reads the file (`ReadKey`)
and writes the cache (`PutKey`), or walks everything for a key it does not know.
A reader of a GraphQL request fetches through the cache on a miss (`Get`,
`Fetch`, `Put`). `missed` records the changes no event will tell of: made before
the watch, in a directory it is not on, dropped, or overtaken by a read-through.

### Invalidation

`Fetch` takes a snapshot of tmux, `ReplaceAll` swaps one store at a time and
collects the changed keys, `FanOut` copies the subscribers of the next key under
the lock and `Send` writes to each outside it, dropping when the channel is full.
`Subscribe` and `Teardown` come and go meanwhile. A relay takes a key, resolves
its node from the stores as they are then, and hands it to the client's
transport, waiting when that is full.

### PaneRecovery

tmux runs pane-died hooks one after the other; M-r runs beside them. Both read
the log, decide (`Decide`), act on the pane (`Act`) and append (`Log`). `log` holds
every recovery that was acted on; only those `written` are in the file and seen by
the next one, as the append may fail, have no path or never be reached.
`QuitsEarly` ends a recovery before it acts. A parked pane dies when its hold
command does. Instead of times the log has two marks: events before `calm` are out
of the 5 s halt debounce, those before `old` out of the crash-loop window too. Split panes, which
are only closed, and the log's rotation at 1 MB are left out.

### WebhookTail

Each file that ever had the log's name is a sequence of cells; a webhook line is
two cells, since a reader may find it half written. `append_line` checks the size,
rotates and opens in separate steps, so that two writers may both rotate. The
tailer's `Stat` and `Read` are separate too; it follows the file by size and
modification time only.

### WatchSubscriptions

Each rewrite reads the list (`Register`, `Unregister`, `Prune`), truncates or
creates the one temporary name (`OpenTmp`), writes it and renames it; any step may
be a process' last (`Fails`, `GivesUp`). Inodes are modelled, because two processes
may have the temporary file open at once.

### SidebarSelection

bubbletea handles one message at a time on one goroutine; commands run beside it
and come back as messages. An action is one message, or one step of what runs
beside the loop.

| Code | Actions |
|---|---|
| `Update`: `clientTickMsg`, `clientSessMsg`; `fetchClientSession` | `ReadStarts`; `ReadLands`; `ReadRuns`, `ReadFails` |
| `selectRow` | `Select`, with `NewGeneration` |
| `openRowMenu`; `rightClick`, `menuClick` | `MenuOpens`; `MenuCloses` |
| `commitClose` | `Close` (`StepAside` when it is the bar's session), `KillRuns` or `TimesOut`, `Returns` |
| `commitRename` | `Rename`, `RenameRuns` or `TimesOut`, `Returns` |
| `switchClient` | a process in `switches` that was only started; `SwitchRuns` when tmux serves it |
| `rebuild` with other sessions | `RowsLand` |
| tmux and its other users | `ElsewhereSwitched`, `ElsewhereCreated`, `ElsewhereKilled`, `Die` |

While a close or a rename waits for tmux (`op`), the loop handles nothing else:
every other action of the loop has `op = "none"` as a guard. `ReadLands` covers a
read that is stale, one that failed and one without a client: each re-arms the
timer. A read also carries `at`, when it started; only `StaleReadIgnored` looks at
it. `RowsLand` shows the sessions there are; how old an answer may be is the
subject of `SidebarLanes`.

### SidebarLanes

Everything an answer may tell apart is the number of changes it has seen. `Change`
makes one; the push lane (`Dial`, `Push`, `Drop`, and in the loop `SnapshotLands`,
`EventLands`, `SubFails`) carries numbers in order or loses them; a fast fetch
(`FastTick` or `EventLands` by `Dispatch`, then `FetchRuns`, `FetchLands`) and a
read of the state dir (`HookRuns`, `HookLands`) land in any order. `backend` is
chosen at the start: a daemon's snapshots are applied to the screen and outrank
the poll's attach flags (`PushOwnsAttach`); the supergraph's events only make the
loop fetch again. Clocks are abstracted: a push lane without news may get old
(`PushAges`, `subFresh`), and so may the last good poll (`FastAges`,
`daemonGone`). `attach` stands for the attach flags and the map from panes to
sessions, which the code replaces together.

## Runs

| Run | Instance | Shows |
|---|---|---|
| `client_safety` | 2 calls, 2 generations, buffer 1, all events, symmetry | `TypeOK` and the eight safety properties, `StreamsEndForCause` among them as an action property, and that every step is a step of `PeerStream` |
| `client_liveness` | the same, only pings from the peer, no symmetry, `FairSpec` | `SubscribeReturns`, `LossEndsStreams`, `CancelEndsStream` |
| `client_send_race` | as safety | **violated** `NoSendAfterClose`: `deliver` sends on a channel another goroutine closed |
| `client_close_leak` | as safety | **violated** `CloseTearsDown`: a dial in flight outlives `Close` |
| `suite` | 2 binaries, 2 versions; with hard links, every fault but those of copies; without, copies for backups and no power loss | all properties of the upgrade |
| `suite_two` | 1 binary, 2 upgraders, no faults | **violated** `WholeBinaries`: one run's copy truncates through the other's link |
| `federation` | 1 peer, 2 addresses, 4 workers; one of: 1 edit, streams and machines that come and go, stop at any point; 3 edits and torn saves, workers at rest; `FairSpec`'s fairness | `OneWorkerPerPeer`, and the liveness `ConfigApplied`, `UpIsShown`, `StopReturns` |
| `federation_down` | 1 address, 2 workers, 1 edit | **violated** `DownIsShown`: a peer that dies stays marked reachable |
| `providers` | one of: 2 callers and 2 revisions; 2 transcripts, 3 writes, a channel of 1, 1 reader; 2 items of one kind, 2 stores, 1 subscriber, a channel of 1 | `StampedIsEnriched`, `NoHardUnknown`; `CatchesUp`; `Told` |
| `local_files` | one of: 2 panes, crash bound 1, 5 recoveries, 1 of them not logged; 1 other writer, 5 lines, 3 files; 2 subscriptions, 1 CLI beside the daemon, 4 rewrites | `RestartsBounded`, `DeadIsAttended`; `ToldOnce`, `NoneSkipped`; `AloneAtomic` |
| `sidebar` | one of: 3 sessions, 3 gestures, moves or faults; 4 changes, pushes, drops or failures, 2 fetches and 2 reads under way | `StaleReadIgnored`; `NewestWins`; of both, their types and `ScreenSettles` |
| `sidebar_close` | 3 sessions, 1 move | **violated** `SwitchedBeforeKill`: the session is killed before the switch away from it ran |

*Bundles.* `providers` and `local_files` each check three modules that share
nothing: no provider reads another's state or takes another's lock, and no program
uses two of the files in one step. A product of the three would only multiply
states, so `part`, chosen at the start, says which one moves in a behaviour; the
others rest in one initial state. `sidebar` does the same with the bar and the
lanes, which share the loop and the rows and nothing that the properties tell
apart; `federation` with the life of workers and the reloading of the config, so
that each can be followed for longer than their product could be; `suite` chooses at the start (`links`) whether the filesystem has hard
links, with the faults that belong to each.

*Bounds of the client.* A race here is between one goroutine that ends a stream
and another that still uses it, or between an old connection and its successor:
two calls, with their teardown goroutines, two read loops and the closer give five
goroutines and every such pair. A call runs at most one dial, so two generations
never run out: `MaxGen` restricts nothing. Buffer 1 is the smallest that is both
empty and full; the proofs hold for every size. Liveness excludes data frames and
`Close` to stay small, keeping the pings, whose answers compete for `writeMu`.

*Bounds of federation.* The workers of different peers share nothing but the
locks that make the steps atomic, so one peer shows every race of the watcher,
its workers and `Stop`; the proof covers any number. Two addresses make an edit
that replaces a peer, absence one that adds or removes it. Two workers let the old
one linger beside its successor. In "reload", a second edit meets the event, the
debounce, the signal and the `ApplyPeers` of the first, a third those of the
second, and a torn save may come between any two; the boot and three edits start
four workers, which rest there. In "peers" one edit replaces or removes a worker
in each of its states, and streams, machines and ticks come and go without limit.
That no edit is forgotten is proved for any number of them (`EditNeverForgotten`),
beside workers that move.

*Bounds of the upgrade.* Runs follow one another without limit, so that with two
versions a binary goes from either to the other and back, and a backup left by a
killed run differs from what is installed at the next. Two binaries are a helper
and the dispatcher. A failed run replaces all but the item it fails at, so no run
here undoes two; that order rests on the proof of `HelpersStayAhead`, for suites
of any size. `MaxFiles` is large enough that no step waits for a free inode: two
names and one file being written per upgrader.

*Bounds of the caches.* Every race here is between a writer that fetched early
and one that fetched late: two callers, with the webhook handler as a third, have
each such pair, and two changes make an answer two revisions stale. One slot is
full after one event, so drops happen at once; three writes fill it, overflow it
and change the file again. In `Invalidation` two items of one kind make a round
with two keys to send, and two stores a relay that resolves between them.

*Bounds of the files.* A crash bound of 1 halts after the second restart (the code
has 5; the proof holds for all); five recoveries are that, an M-r that revives the
pane and one more death; one that is not logged (`MaxUnlogged`) buys one restart
more, and `RestartsStop` covers any number. Files of 3 cells rotate after two lines, and three files are two
rotations: one the tailer sees and one it sleeps through. Four rewrites are one
that completes, one that is killed and two that follow.

*Bounds of the sidebar.* Three sessions are the one the bar is on, the one the
client is on and a third to step aside to. Three moves are a selection, another
that overtakes it, and a failure, a close or somebody else's switch between them.
Two fetches under way make every pair of an older and a newer answer; four events
are two changes with a push, a drop or a failure between and after them.

*Deadlock.* Checked for the upgrade (a new run can always begin) and the sidebar
(its timers always come again). The other configurations switch it off, where the system may
come to rest: the client when all calls are over or it has panicked, federation
when the daemon is down, the bundles when their bounds on events are used up.

*Fairness.* `PeerClient`'s `FairSpec` asks weak fairness of each goroutine's own
steps: the Go scheduler runs what is runnable, and waits are bounded: a dial by
`HandshakeTimeout`, a send by `writeWait`, a read on a connection that is silent by
`readWait`. Nothing is asked of a peer that is up: `armReads` (`keepalive.go:44`)
re-arms the deadline on every ping and pong, also while the ack is read, so that an
attempt may be held open for ever; `SubscribeReturns` is about the others. Nor is
anything asked of contexts, of consumers or of the parking of a send. `PeerSupervisor`'s `FairSpec` asks the same of the main
goroutine, the watcher and the workers, and strong fairness where a select has a
case that is ready again and again but not continuously (the probe ticker beside a
stream that keeps breaking, the reload signal beside new events): Go's select
picks among the ready cases at random. Nothing is asked of edits, of machines or
of the operator who interrupts. The sidebar's fairness is that of its runtime:
timers fire, messages are handled, each request answers or times out (one second
for list-clients, four for a fetch), a process that was started runs, and a push
lane that brings nothing gets old. Nothing is asked of the user, of tmux's other
users, of the push lane or of its redial.

## Proofs

All theorems are for any values of the constants that satisfy the assumptions
named in the modules. Where a run checks a bundle, the theorem is about the
bundle's own specification (`MCSpec`), for all values of its constants: a step of
one part leaves the others at rest, so their invariants hold side by side. The
assumptions: there are finitely many items, a first store to replace, and each
subscriber watches an item (`TmuxAssumption`); the sidebar has room for one fetch
(`LanesAssumption`; the code has no bound, the model needs one to be finite); the
bounds on lines and files are numbers (`EventLogAssumption`).

| Module | Theorem | Property |
|---|---|---|
| `PeerClientProofs` | `TypeCorrect` | `TypeOK` |
| | `ClosedOnce` | `NoDoubleClose` |
| | `NoOrphans` | `NoOrphanStream` |
| | `OnCurrentConn` | `StreamsOnCurrentConn` |
| | `Redials` | `SpentOnceHasConn` |
| | `FreshErrors` | `NoStaleOpenError` |
| | `OneOpen` | `SingleFlight` |
| | `SocketsAccounted` | `NoLostSocket` |
| | `EndForCause` | `StreamsEndForCause` |
| `PeerStreamProofs` | `ClientIsStream` | `ImplementsStream` |
| `PeerSupervisorProofs` | `SupervisorTypeCorrect`, `OnePerPeer` | `TypeOK`, `OneWorkerPerPeer` |
| | `EditNeverForgotten` | `EditIsComing`, of which `ConfigApplied` is the liveness |
| `SuiteReplaceProofs` | `SuiteTypeCorrect`, `NeverFree` | `TypeOK`, `NeverMissing` |
| | `AlwaysWhole` | `WholeBinaries` |
| | `SuccessIsTrue`, `FailureIsUndone` | `SuccessInstalls`, `FailureRestores` |
| | `OldVersionKept`, `HelpersStayAhead` | `OldVersionSurvives`, `HelpersFirst` |
| `ProvidersProofs` | `StampVouches`, `UnknownNotKept` | `StampedIsEnriched`, `NoHardUnknown` |
| | `CacheCatchesUp`, `TmuxTells` | `CatchesUp`, `Told` |
| | `ProvidersTypeCorrect`, `ProvidersTell`, `ProvidersServe` | `AllTypeOK`, `Told` and the other three, of the bundle |
| `LocalFilesProofs` | `RestartsStop`, `DeadSeen` | `RestartsBounded`, `DeadIsAttended` |
| | `FileAloneAtomic` | `AloneAtomic` |
| `EventLogProofs` | `TailTellsOnce`, `TailSkipsNone` | `ToldOnce`, `NoneSkipped` |
| | `LocalFilesTypeCorrect`, `LocalFilesToldOnce`, `LocalFilesNoneSkipped`, `LocalFilesSafe` | `AllTypeOK`, `ToldOnce`, `NoneSkipped` and the other three, of the bundle |
| `SidebarProofs` | `SelectionTypeCorrect`, `StaleNeverLands` | the bar's `TypeOK`, `StaleReadIgnored` |
| | `SidebarTypeCorrect`, `SidebarNewestWins`, `SidebarIgnoresStale` | `AllTypeOK`, `NewestWins`, `StaleReadIgnored`, of the bundle |

Each module of proofs also shows its model's type invariant. The arguments:

- *Client.* That no channel is closed twice depends on who else may be about to
  close it. `IInv` adds what the code relies on: generations are used one after
  the other and the current `sync.Once` is spent exactly when its connection is
  current (`AttemptsInv`); the map holds open channels of the current connection
  only (`ChannelsInv`); a channel taken out of the map has one holder, which is on
  its way to close it (`HoldersInv`), and no open channel is without one
  (`OpenInv`); a goroutine works on a generation that is done, and the read loop
  of the current connection has not given up (`ReadersInv`); whoever calls
  `failAll` has seen its connection fail (`FailuresInv`). `InitEstablishes` and
  one lemma per action show that `IInv` is inductive (`NextKeeps`).
- *Client as a stream.* Every step of the client is a step of the abstract stream
  of one call or a stutter of all; this needs `IInv`, and that a channel of an
  open call exists and a call not opened has none (`OpenedInv`).
- *Supervision.* A worker that may go on is the listed one. Inductive with
  `Phases` (nobody works before boot, nobody watches before the provider runs, the
  watcher has a victim exactly while it removes one) and `Assigned` (whoever works
  has a peer). The model's choice of names for new workers is shown to be
  injective, which is all that is used of it. `EditNeverForgotten`: while the peers
  are not those of the file, an event, a timer, the signal or an apply with that
  file in hand will bring them there; the debounce drops none of these before it has
  set off the next.
- *Upgrade.* `NeverFree` rests on `DestStays`, which looks at each system call.
  `Found` adds to the types that a run which compares, backs up or copies a binary
  has found it. These two hold for any number of upgraders. The others assume
  `Alone(u)`: one upgrader, and no power loss where backups may be copies; without
  either they are false (`suite_two`, and the table below). `Inv` says where the run
  is in its list and that the file it writes has no binary's name (`PlaceInv`), that
  every file with a name is whole and synced (`FilesInv`), and of each item, by
  whether it is to do, backed up or dealt with, what its two names hold (`Untouched`,
  `BackedUp`, `Kept`, `Installed`, `Ordered`); `Ended` carries the outcome across the
  time between runs. An item whose restoring rename failed (`lost`) is at the new
  version and stays there while the rollback goes on (`NoThird`): `OldVersionKept`
  says that much of it, since its backup is removed all the same.
- *Pull requests.* `AnswersFit`: what a caller was answered fits the call it is
  in, so that what is stamped comes from an enrichment and what is seeded from
  REST; with it the two properties are inductive.
- *Conversations.* `JobRight`: what a walk or a read has in hand is what the file
  holds, or an event for the file is on its way. `CacheRight`: a cached value is
  right, or its key is on its way or in hand. `NoneYet`: nothing tells of a change
  before the watch. Together they are inductive and imply `CatchesUp`.
- *tmux.* `Told` is of the form: while a subscriber's store holds what nothing on
  its way to it shows (`Due`), a key that makes its relay resolve again is coming
  (`Coming`). That is inductive with `Registered` (a relay that waits is
  subscribed, a channel is closed only for one that is gone) and `Rounds` (a
  fan-out that sends has a key to send). The hard step is the replacement of the
  last store: the keys it collects are put into some order by `SetToSeqs`, and
  `SeqsCover` shows, by counting, that whatever order is chosen leaves none out.
- *Recovery.* `DecidedWithin`: when a hook has decided to respawn, at most the
  bound of logged restarts lay in the window, and only hooks add to them, one at a
  time. Those not logged nobody sees: they come on top (`RestartsSplit`).
- *Subscription file.* `Alone`: while rewrites have not overlapped, at most one
  process is not idle, and each of its positions says what the file and the
  temporary file hold.
- *Event log.* First the files (`LogInv`): a writer that writes has its file open
  and the receiver's next number is in reserve (`Pens`); only the file the receiver
  has open ends in half a line (`Halves`); the halves of a line are next to each
  other, lines are in order, and no number is ahead of the count (`Files`).
  `AppendCell` shows that for one cell, `Appended` is all that a writer's step does
  as far as the tailer is concerned. Then the tailer (`TailInv`): the offset was
  measured in a file that exists and lies within it, so that no file to come can be
  taken for it (`Books`); what was told is smaller than what may yet be read
  (`Ahead`), and each line behind the offset is dealt with (`NoneLeft`). Rotation
  between stat, open and read is harmless because of `Books`; a read keeps the rest
  because the lines it parses are those of the chunk in their order (`ParsedIs`,
  from `InOrder`, which counts positions by rank).
- *The bar.* `Overtaken`: a read that was under way at the last selection has an
  older generation than the loop, because generations only grow and every
  selection makes one. A generation is never larger than the number of moves,
  which keeps it in its type. The read that lands is then not the current one,
  and leaves the bar alone.

- *The lanes.* Answers land in any order, and the screen does not go back because
  at most one fetch under way is the newest (`OneNewest`), that one has seen what
  the rows show (`RowsBehind`), frames are read in the order they were sent and
  behind what was pushed (`FramesInOrder`), and a live push lane owns the flags
  (`Owned`). The queues shrink at any place; `Removed` says what that leaves.

Only model-checked are the liveness properties (`SubscribeReturns`,
`LossEndsStreams`, `CancelEndsStream`, `ConfigApplied`, `UpIsShown`, `StopReturns`,
`ScreenSettles`): fairness and ENABLED are beyond the prover. Every invariant and
every action property of the runs that hold is proved.

## Where the code does not keep what it says

Five violated runs are recorded as findings in `PROJECT.json`, each with the
comment it contradicts: a send on a closed channel can panic the daemon; a
connection can outlive `Close`; two concurrent upgrades can truncate an installed
binary; a peer that dies stays marked reachable;
closing the session one is in may take the terminal with it.

The modules state further promises of comments that the models violate. They have
no run of their own; adding the name to a configuration shows the behaviour.

| Module: definition | The promise | What happens |
|---|---|---|
| `PeerClient`: `FinalErrorDelivered` | a lost connection delivers a final error | it is dropped when the buffer is full |
| `PeerClient`: `AckIsBounded` | the wait for the ack has "its own bound" | a peer that pings and never acks re-arms it, and every waiting `Subscribe` with it |
| `SuiteReplace`: `OldVersionNeverLost` | a failure renames every backup back | a backup whose rename failed is removed (`replace.go:112`) |
| `SuiteReplace`: `WholeBinaries` with "link" and "power" in `Faults` | installs are atomic | a rollback renames a copy that was never synced |
| `SuiteReplace`: `WholeSetRolledBack` | the whole set is rolled back | binaries the run added stay |
| `PeerSupervisor`: `StopDrains` | Stop drains the workers | a reload in progress adds a peer after Stop |
| `GhCache`: `NoOlderEnrichment` | enrichment of an older revision is refetched | a reply in flight is stamped over a newer entry (`graphql_enrich.go:152`) |
| `Invalidation`: `SendsAreSafe` | fan-out is best effort | it sends on a channel its teardown closed |
| `PaneRecovery`: `RestartsStopUnlogged` | a pane that keeps dying is not respawned into an infinite loop | restarts that could not be logged are not counted (`recover_pane.go:162`) |
| `PaneRecovery`: `ParkedIsKnown` | the halted panes of the log are those parked | a hook and M-r log in the other order than they acted |
| `PaneRecovery`: `DebouncedIsParked` | a death in the debounce is the parked pane's | a pane that was revived and dies at once is taken for it, and stays dead |
| `WebhookTail`: `NoneRotatedAway` | a webhook refreshes within 2 s | what was appended before a rotation is not read |
| `WatchSubscriptions`: `NeverTorn` | the file is written atomically | one process truncates what another renames |
| `SidebarSelection`: `SwitchesInOrder` | switches reach tmux in the order they were pressed (`tmux_switch.go:114`) | processes started one after the other reach it in any order |
| `SidebarLanes`: `HooksNeverGoBack` | an older poll never overwrites a newer one (`main.go:36`) | answers of the state-dir lane carry no generation |
| `SidebarLanes`: `OnePoll` | one request in flight per lane (`main.go:36`) | a fetch asked for by an event arms a timer beside the tick's |
| `SidebarLanes`: `PushOwnsRows` | the push lane owns the inventory of sessions (`subscribe.go`) | a poll that straggles brings back the rows of before |

## Plan

Done: the client and its abstraction, supervision, the upgrade, the three caches,
the three files, the sidebar's lanes and its bar; the safety of all of them is
proved. Left, in this order:

1. `Broadcast`: the peers' fan-out to the daemon's subscribers, over
   `PeerSupervisor`.
2. `UpdateCheck`: the cached answer against an upgrade that replaces the binary.
3. The watch daemon's diff and debounce as operators against a reference.

## Not modelled

Most of the repository is not a state machine of its own, and a model would repeat
it line by line: generated GraphQL code (a quarter of all lines), resolvers and
loaders, which compute an answer from what the providers hold within one request;
parsers of tmux, git, ps and GitHub output; argument parsing, rendering and
layout; git and tmux commands run in sequence; network lookup and extraction of a
release; the sidebar's layout, filter, pins, splits and launcher, and the cadence
of its client lane; the TUI, the web GUI and the plugins. What the map covers is therefore a
small share of the lines, and most of those in which concurrent steps meet.

Smaller things the modelled parts leave out: a rename that tmux carries out after
the sidebar has given up on it (a late kill is one of `ElsewhereKilled`); the map of
panes a state-dir read was given at dispatch; a read of the subscription file that
fails and is taken for an empty list (`subscription.rs:71`); a GraphQL reply with
errors beside its data (`graphql_enrich.go:112`), which leaves single fields of the
enrichment blank; subdirectories the transcript watcher could not add
(`claudeprojects/watcher.go:108`) and its overflow, whose changes are as unknown as
those of `missed`; and the field of a pane that the tmux store does not compare
(`WatchingTTYs`, `tmux/provider.go:517`): two panes that differ in it alone are one
value of `Invalidation`.

Of the providers not modelled, those under `providers/{git,ps,host,...}` have the
shape of the tmux provider (poll, replace, fan out) and the modules under `daemon/`
that of a cache filled under a lock; the models here show what goes wrong and
right in that shape. The Rust federation walks other machines over ssh and merges
what it read, without shared state. The chat store appends to one file per
handle under a lock. `PROJECT.json` gives the reason for each component.
