---------------------------- MODULE SidebarLanes ----------------------------
(***************************************************************************)
(* How the orchard-sidebar keeps its rows current: the fast poll, the push *)
(* lane of either backend, and the state-dir lane each poll takes along    *)
(* (cmd/orchard-sidebar: main.go, apply.go, subscribe.go, model.go).  One  *)
(* Update loop handles what the lanes answer; requests run beside it and   *)
(* may land in any order.  An answer is known by the number of changes it  *)
(* has seen.  A generation is only ever compared with the newest, so a     *)
(* fetch carries whether it is that.  Time is left out: whatever may have  *)
(* expired may expire.  Left out too: the slow lane (branches and pull      *)
(* requests), the client lane (SidebarSelection), m.err, which only the    *)
(* footer shows, and a state dir that cannot be read.                      *)
(***************************************************************************)
EXTENDS Naturals, Sequences

CONSTANTS
  MaxEvents,   \* bound on changes, pushes, drops and failures together
  MaxFetches,  \* bound on fast fetches under way, and on reads of the state dir
  Down, Unread, NoRows  \* a dropped socket; no answer yet, or none at all

SX == INSTANCE SequencesExt

Versions == 0..MaxEvents

VARIABLES
  backend,        \* "daemon" pushes snapshots, "supergraph" bare events
  world,          \* changes of what the backend serves, and of the state dir
  events,         \* events so far
  socket, wire,   \* the push lane's connection; what it sent to the loop
  push,           \* "none", "live", "stale" or "down": subErr and subAt
  pushed,         \* m.attachedBySess
  rows, attach,   \* the rows' sessions; their flags and the pane map
  fastOld,        \* the last good poll is more than daemonGone ago
  ticks,          \* armed timers of the fast lane
  fetches,        \* its requests under way, the oldest first
  hookReads, hooks  \* reads of the state dir under way; m.hooksBySess

stream == <<socket, wire>>
shown  == <<pushed, rows, attach>>
poll   == <<ticks, fetches, hookReads>>
vars   == <<backend, world, events, stream, push, shown, fastOld, poll, hooks>>

TypeOK ==
  /\ backend \in {"daemon", "supergraph"}
  /\ events \in Versions /\ world \in 0..events
  /\ socket \in BOOLEAN /\ wire \in Seq((0..world) \cup {Down})
  /\ push \in {"none", "live", "stale", "down"}
  /\ pushed \in 0..world /\ rows \in (0..world) \cup {NoRows} /\ attach \in 0..world
  /\ fastOld \in BOOLEAN
  /\ fetches \in Seq([saw : (0..world) \cup {Unread, NoRows}, newest : BOOLEAN])
  /\ hookReads \in Seq((0..world) \cup {Unread}) /\ hooks \in 0..world
  /\ Len(fetches) <= MaxFetches /\ Len(hookReads) <= MaxFetches
  \* the poll never dies: a timer, or the fetch whose answer arms the next
  /\ ticks \in Nat
  /\ ticks > 0 \/ \E k \in DOMAIN fetches : fetches[k].newest

\* Init of the model has fetched once, with generation 0 like the model's.
Init ==
  /\ backend \in {"daemon", "supergraph"} /\ world = 0 /\ events = 0
  /\ socket = FALSE /\ wire = <<>> /\ push = "none"
  /\ pushed = 0 /\ rows = NoRows /\ attach = 0 /\ fastOld = TRUE
  /\ ticks = 0 /\ fetches = <<[saw |-> Unread, newest |-> TRUE]>>
  /\ hookReads = <<Unread>> /\ hooks = 0

-----------------------------------------------------------------------------
(* The backend and subscribeTmux, which redials for ever.                  *)

Event == events < MaxEvents /\ events' = events + 1

Change ==
  /\ Event /\ world' = world + 1
  /\ UNCHANGED <<backend, stream, push, shown, fastOld, poll, hooks>>

Dial ==
  /\ ~socket /\ socket' = TRUE
  /\ UNCHANGED <<backend, world, events, wire, push, shown, fastOld, poll, hooks>>

\* A next frame; not every change gets one (Invalidation).
Push ==
  /\ Event /\ socket /\ wire' = Append(wire, world)
  /\ UNCHANGED <<backend, world, socket, push, shown, fastOld, poll, hooks>>

\* The error is sent behind the frames.  A redial that fails sends another,
\* which changes nothing.
Drop ==
  /\ Event /\ socket /\ socket' = FALSE /\ wire' = Append(wire, Down)
  /\ UNCHANGED <<backend, world, push, shown, fastOld, poll, hooks>>

-----------------------------------------------------------------------------
(* The Update loop.                                                        *)

SubLive == push = "live"

MutAllNewest ==
  Len(fetches) < MaxFetches /\ fetches' = Append(fetches, [saw |-> Unread, newest |-> TRUE])

MutStampedBefore ==
  Len(fetches) < MaxFetches /\ fetches' = Append(fetches, [saw |-> Unread, newest |-> FALSE])

\* m.fastGen++ and fetchFastGen: no earlier fetch is the newest any more.
Dispatch ==
  /\ Len(fetches) < MaxFetches
  /\ fetches' = Append([k \in DOMAIN fetches |-> [fetches[k] EXCEPT !.newest = FALSE]],
                       [saw |-> Unread, newest |-> TRUE])

\* tmuxSubMsg with an error.
SubFails ==
  /\ wire # <<>> /\ Head(wire) = Down /\ wire' = Tail(wire) /\ push' = "down"
  /\ UNCHANGED <<backend, world, events, socket, shown, fastOld, poll, hooks>>

\* tmuxSubMsg, applySessions.
SnapshotLands ==
  /\ backend = "daemon" /\ wire # <<>> /\ Head(wire) # Down
  /\ wire' = Tail(wire) /\ push' = "live"
  /\ pushed' = Head(wire) /\ rows' = Head(wire) /\ attach' = Head(wire)
  /\ UNCHANGED <<backend, world, events, socket, fastOld, poll, hooks>>

\* fastRefetchMsg: fetch anew beside whatever is under way.
EventLands ==
  /\ backend = "supergraph" /\ wire # <<>> /\ Head(wire) # Down
  /\ wire' = Tail(wire) /\ push' = "live" /\ Dispatch
  /\ UNCHANGED <<backend, world, events, socket, shown, fastOld, ticks, hookReads, hooks>>

\* fastTickMsg.
FastTick ==
  /\ ticks > 0 /\ ticks' = ticks - 1 /\ Dispatch
  /\ Len(hookReads) < MaxFetches /\ hookReads' = Append(hookReads, Unread)
  /\ UNCHANGED <<backend, world, events, stream, push, shown, fastOld, hooks>>

FetchRuns(k) ==
  /\ fetches[k].saw = Unread
  /\ \/ fetches' = [fetches EXCEPT ![k].saw = world] /\ UNCHANGED events
     \/ fetches' = [fetches EXCEPT ![k].saw = NoRows] /\ Event
  /\ UNCHANGED <<backend, world, stream, push, shown, fastOld, ticks, hookReads, hooks>>

DaemonDown == ~SubLive /\ fastOld

\* The snapshot's flags and pane map outrank the poll's while it is fresh.
PushOwnsAttach == SubLive /\ backend = "daemon"

\* applyFast.  A failure holds the last rows until the daemon is really gone.
ApplyFast(saw) ==
  IF saw = NoRows
  THEN /\ rows' = IF DaemonDown THEN NoRows ELSE rows
       /\ UNCHANGED <<attach, fastOld>>
  ELSE /\ fastOld' = FALSE /\ rows' = saw
       /\ attach' = IF PushOwnsAttach THEN pushed ELSE saw

\* fastDataMsg: only the newest answer is taken, and only it arms a timer.
FetchLands(k) ==
  /\ fetches[k].saw # Unread /\ fetches' = SX!RemoveAt(fetches, k)
  /\ IF fetches[k].newest
     THEN ApplyFast(fetches[k].saw) /\ ticks' = ticks + 1
     ELSE UNCHANGED <<rows, attach, fastOld, ticks>>
  /\ UNCHANGED <<backend, world, events, stream, push, pushed, hookReads, hooks>>

\* The files and tmux as they are; that panes are looked up in the map the
\* model had at dispatch is left out.
HookRuns(k) ==
  /\ hookReads[k] = Unread /\ hookReads' = [hookReads EXCEPT ![k] = world]
  /\ UNCHANGED <<backend, world, events, stream, push, shown, fastOld, ticks, fetches, hooks>>

\* hookDataMsg carries no generation.
HookLands(k) ==
  /\ hookReads[k] # Unread /\ hookReads' = SX!RemoveAt(hookReads, k)
  /\ hooks' = hookReads[k]
  /\ UNCHANGED <<backend, world, events, stream, push, shown, fastOld, ticks, fetches>>

\* subFresh after the last push.
PushAges ==
  /\ SubLive /\ push' = "stale"
  /\ UNCHANGED <<backend, world, events, stream, shown, fastOld, poll, hooks>>

\* daemonGone after the last good poll.
FastAges ==
  /\ ~fastOld /\ fastOld' = TRUE
  /\ UNCHANGED <<backend, world, events, stream, push, shown, poll, hooks>>

-----------------------------------------------------------------------------
Loop == SubFails \/ SnapshotLands \/ EventLands

Requests ==
  \/ \E k \in DOMAIN fetches : FetchRuns(k) \/ FetchLands(k)
  \/ \E k \in DOMAIN hookReads : HookRuns(k) \/ HookLands(k)

Next ==
  \/ Change \/ Dial \/ Push \/ Drop \/ Loop \/ Requests \/ FastTick
  \/ PushAges \/ FastAges

\* Messages are handled, requests answer or time out, each of them, timers
\* fire, and a push that is not renewed gets old.
Fairness ==
  /\ WF_vars(Loop) /\ WF_vars(FastTick) /\ WF_vars(PushAges)
  /\ \A k \in 1..MaxFetches :
       /\ WF_vars(k \in DOMAIN fetches /\ (FetchRuns(k) \/ FetchLands(k)))
       /\ WF_vars(k \in DOMAIN hookReads /\ (HookRuns(k) \/ HookLands(k)))

Spec == Init /\ [][Next]_vars /\ Fairness

-----------------------------------------------------------------------------
(* Properties.                                                             *)

Forward ==
  /\ backend = "supergraph" /\ NoRows \notin {rows, rows'} => rows' >= rows
  /\ PushOwnsAttach /\ push' = "live" => attach' >= attach

\* Answers land in any order, and yet what is on screen never goes back: not
\* the rows of a backend that only the fast lane reads, and not the attach
\* flags while the push lane that owns them is live.
NewestWins == [][Forward]_vars

Current == world \in {rows} \cap {attach} \cap {hooks}

\* Once changes stop, every lane's part of the screen becomes current and
\* stays so, whatever was dropped, failed or discarded on the way.
Converges == <>[]Current

(* What the comments promise and the code does not keep. *)

\* main.go, of the lanes: "a slow response can never be overwritten by an
\* older poll that finished later".
HooksNeverGoBack == [][hooks' >= hooks]_vars

\* main.go: "One in-flight request per lane".
OnePoll == ticks + Len(SX!SelectSeq(fetches, LAMBDA f : f.newest)) <= 1

\* subscribe.go: "the subscription owns attach, session inventory and the
\* pane->session map".
PushOwnsRows == [][PushOwnsAttach /\ push' = "live" /\ rows # NoRows => rows' >= rows]_vars
=============================================================================
