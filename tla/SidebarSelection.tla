--------------------------- MODULE SidebarSelection ---------------------------
(***************************************************************************)
(* The bar of the orchard-sidebar: which session this client is on.  The   *)
(* one Update loop moves it at once when the user selects, closes or       *)
(* renames a session; the tmux commands that go with it run as processes   *)
(* of their own, and the client lane's list-clients, read off the loop,    *)
(* moves the bar to wherever the client turns out to be                    *)
(* (cmd/orchard-sidebar: main.go, selection.go, menuops.go, tmux_switch.go,*)
(* client.go).  The order of the cards and the viewport are left out.      *)
(***************************************************************************)
EXTENDS Naturals

CONSTANTS
  Sessions,   \* names a session may have
  NoSession,  \* no bar, no client, no menu, or a read that failed
  Unread,     \* list-clients has not run yet
  MaxMoves    \* bound on gestures, moves of others and failures

ASSUME NamesAssumption ==
  NoSession # Unread /\ {NoSession, Unread} \cap Sessions = {}
ASSUME MovesAssumption == MaxMoves \in Nat

VARIABLES
  alive,      \* sessions of the inner tmux server
  client,     \* the session the sidebar's work client is attached to
  switches,   \* switch-client processes started and not yet served by tmux
  cards,      \* sessions with a row
  bar,        \* m.cursorSess
  menu,       \* m.menu.sess
  clientGen,  \* m.clientGen
  op, to,     \* the tmux command the loop waits for; a rename's new name
  ticks,      \* armed timers of the client lane
  reads,      \* its reads under way
  moves, last \* gestures and faults so far; and up to the last selectRow

tmux  == <<alive, client>>
lane  == <<ticks, reads>>
vars  == <<tmux, switches, cards, bar, menu, clientGen, op, to, lane, moves, last>>

Reads == [gen : 0..MaxMoves, saw : Sessions \cup {NoSession, Unread}, at : 0..MaxMoves]

TypeOK ==
  /\ alive \subseteq Sessions /\ cards \subseteq Sessions
  /\ client \in alive \cup {NoSession}
  /\ switches \subseteq (0..MaxMoves) \X Sessions
  /\ bar \in Sessions \cup {NoSession} /\ menu \in Sessions \cup {NoSession}
  /\ clientGen \in 0..MaxMoves
  /\ op \in {"none", "kill", "killed", "rename", "renamed", "failed"}
  /\ to \in Sessions \cup {NoSession}
  /\ op # "none" => menu # NoSession
  /\ op \in {"rename", "renamed"} => to # NoSession
  \* one read at a time, and always a next one
  /\ \/ ticks = 1 /\ reads = {}
     \/ ticks = 0 /\ \E r \in Reads : reads = {r}
  /\ moves \in 0..MaxMoves /\ last \in 0..moves

\* Started on a session; Init of the model has the first read under way.
Init ==
  /\ \E s \in Sessions : alive \in {a \in SUBSET Sessions : s \in a} /\ client = s
  /\ switches = {} /\ cards = {} /\ bar = NoSession /\ menu = NoSession
  /\ clientGen = 0 /\ op = "none" /\ to = NoSession
  /\ ticks = 0 /\ reads = {[gen |-> 0, saw |-> Unread, at |-> 0]}
  /\ moves = 0 /\ last = 0

-----------------------------------------------------------------------------
(* What tmux does, and whoever else uses it.                               *)

Move == moves < MaxMoves /\ moves' = moves + 1

\* The client of a session that dies is moved to another or, by default,
\* detached: detach-on-destroy.
Die(s) ==
  /\ s \in alive /\ alive' = alive \ {s}
  /\ IF client = s THEN client' \in alive' \cup {NoSession} ELSE UNCHANGED client

ElsewhereSwitched(s) ==
  /\ Move /\ s \in alive /\ client # NoSession /\ client' = s
  /\ UNCHANGED <<alive, switches, cards, bar, menu, clientGen, op, to, lane, last>>

ElsewhereCreated(s) ==
  /\ Move /\ s \notin alive /\ alive' = alive \cup {s}
  /\ UNCHANGED <<client, switches, cards, bar, menu, clientGen, op, to, lane, last>>

ElsewhereKilled(s) ==
  /\ Move /\ Die(s)
  /\ UNCHANGED <<switches, cards, bar, menu, clientGen, op, to, lane, last>>

\* Processes reach the server in any order; a session that is gone, or a
\* client that is, fails the command, which is logged.
SwitchRuns(w) ==
  /\ w \in switches /\ switches' = switches \ {w}
  /\ client' = IF client # NoSession /\ w[2] \in alive THEN w[2] ELSE client
  /\ UNCHANGED <<alive, cards, bar, menu, clientGen, op, to, lane, moves, last>>

-----------------------------------------------------------------------------
(* The client lane.                                                        *)

\* clientTickMsg.
ReadStarts ==
  /\ op = "none" /\ ticks > 0 /\ ticks' = ticks - 1
  /\ reads' = reads \cup {[gen |-> clientGen, saw |-> Unread, at |-> moves]}
  /\ UNCHANGED <<tmux, switches, cards, bar, menu, clientGen, op, to, moves, last>>

\* fetchClientSession: the client's line, none when it is gone.
ReadRuns(r) ==
  /\ r \in reads /\ r.saw = Unread
  /\ reads' = (reads \ {r}) \cup {[r EXCEPT !.saw = client]}
  /\ UNCHANGED <<tmux, switches, cards, bar, menu, clientGen, op, to, ticks, moves, last>>

ReadFails(r) ==
  /\ Move /\ r \in reads /\ r.saw = Unread
  /\ reads' = (reads \ {r}) \cup {[r EXCEPT !.saw = NoSession]}
  /\ UNCHANGED <<tmux, switches, cards, bar, menu, clientGen, op, to, ticks, last>>

Current(r) == r.gen = clientGen

MutStaleEndsLane(r) ==
  /\ op = "none" /\ r \in reads /\ r.saw # Unread /\ reads' = reads \ {r}
  /\ ticks' = IF Current(r) THEN ticks + 1 ELSE ticks
  /\ bar' = IF Current(r) /\ r.saw # NoSession THEN r.saw ELSE bar
  /\ UNCHANGED <<tmux, switches, cards, menu, clientGen, op, to, moves, last>>

\* clientSessMsg.  A stale read only re-arms; one without a name keeps the bar.
ReadLands(r) ==
  /\ op = "none" /\ r \in reads /\ r.saw # Unread
  /\ reads' = reads \ {r} /\ ticks' = ticks + 1
  /\ bar' = IF Current(r) /\ r.saw # NoSession THEN r.saw ELSE bar
  /\ UNCHANGED <<tmux, switches, cards, menu, clientGen, op, to, moves, last>>

-----------------------------------------------------------------------------
(* The Update loop: rows, keys, clicks and the row menu.                   *)

\* reanchorCursor: the bar stays on its session, card or no card; on first
\* paint it takes an attached or the first card.
Reanchor(rows, b) ==
  IF b = NoSession /\ rows # {} THEN bar' \in rows ELSE bar' = b

\* An answer of the fast lane, or of the push lane, replaces the rows; how old
\* it may be is the subject of SidebarLanes.
RowsLand ==
  /\ op = "none" /\ cards # alive /\ cards' = alive /\ Reanchor(cards', bar)
  /\ UNCHANGED <<tmux, switches, menu, clientGen, op, to, lane, moves, last>>

MutGenKept == UNCHANGED clientGen

NewGeneration == clientGen' = clientGen + 1

\* selectRow: an open menu takes the keys and the clicks.  A click may find
\* no client to switch (resolveClientTTY) and a synthetic row has no session.
Select(s) ==
  /\ Move /\ op = "none" /\ menu = NoSession /\ s \in cards
  /\ bar' = s /\ NewGeneration /\ last' = moves'
  /\ \/ switches' = switches \cup {<<moves, s>>}
     \/ UNCHANGED switches
  /\ UNCHANGED <<tmux, cards, menu, op, to, lane>>

MenuOpens(s) ==
  /\ op = "none" /\ menu = NoSession /\ s \in cards /\ menu' = s
  /\ UNCHANGED <<tmux, switches, cards, bar, clientGen, op, to, lane, moves, last>>

MenuCloses ==
  /\ op = "none" /\ menu' = NoSession
  /\ UNCHANGED <<tmux, switches, cards, bar, clientGen, op, to, lane, moves, last>>

\* altSession: any other card; without one the close is refused.  The switch
\* is not waited for, nor is it known whether it could be started.
StepAside ==
  IF menu # bar THEN UNCHANGED <<switches, bar>>
  ELSE \E alt \in cards \ {menu} :
         /\ bar' = alt
         /\ \/ switches' = switches \cup {<<moves, alt>>}
            \/ UNCHANGED switches

\* commitClose up to killSession, which it waits for.
Close ==
  /\ Move /\ op = "none" /\ menu # NoSession
  /\ StepAside /\ op' = "kill"
  /\ UNCHANGED <<tmux, cards, menu, clientGen, to, lane, last>>

KillRuns ==
  /\ op = "kill" /\ op' = IF menu \in alive THEN "killed" ELSE "failed"
  /\ IF menu \in alive THEN Die(menu) ELSE UNCHANGED tmux
  /\ UNCHANGED <<switches, cards, bar, menu, clientGen, to, lane, moves, last>>

\* commitRename up to renameSession, which it waits for.
Rename(s) ==
  /\ Move /\ op = "none" /\ menu \notin {NoSession, s} /\ op' = "rename" /\ to' = s
  /\ UNCHANGED <<tmux, switches, cards, bar, menu, clientGen, lane, last>>

Renamed(s) == IF s = menu THEN to ELSE s

RenameRuns ==
  /\ op = "rename"
  /\ IF menu \in alive /\ to \notin alive
     THEN /\ op' = "renamed" /\ alive' = {Renamed(s) : s \in alive}
          /\ client' = Renamed(client)
     ELSE op' = "failed" /\ UNCHANGED tmux
  /\ UNCHANGED <<switches, cards, bar, menu, clientGen, to, lane, moves, last>>

\* A tmux that is wedged is given up on after tmuxOpTimeout.  A kill that it
\* runs after all is an ElsewhereKilled; a rename so late is left out.
TimesOut ==
  /\ Move /\ op \in {"kill", "rename"} /\ op' = "failed"
  /\ UNCHANGED <<tmux, switches, cards, bar, menu, clientGen, to, lane, last>>

\* dropRow, renameEverywhere, or a notice in a menu that stays open.
Returns ==
  /\ op \in {"killed", "renamed", "failed"} /\ op' = "none" /\ to' = NoSession
  /\ IF op = "failed" THEN UNCHANGED <<cards, menu, bar>>
     ELSE /\ menu' = NoSession
          /\ cards' = IF op = "killed" THEN cards \ {menu} ELSE {Renamed(s) : s \in cards}
          /\ Reanchor(cards', IF op = "killed" THEN bar ELSE Renamed(bar))
  /\ UNCHANGED <<tmux, switches, clientGen, lane, moves, last>>

-----------------------------------------------------------------------------
Lane == ReadStarts \/ \E r \in reads : ReadRuns(r) \/ ReadLands(r)

Command == KillRuns \/ RenameRuns \/ Returns

Next ==
  \/ Lane \/ Command \/ TimesOut \/ RowsLand \/ MenuCloses \/ Close
  \/ \E r \in reads : ReadFails(r)
  \/ \E w \in switches : SwitchRuns(w)
  \/ \E s \in Sessions :
       \/ ElsewhereSwitched(s) \/ ElsewhereCreated(s) \/ ElsewhereKilled(s)
       \/ Select(s) \/ MenuOpens(s) \/ Rename(s)

\* Timers fire, processes that were started run, and tmux answers: a read
\* that fails is one of the MaxMoves faults.
Fairness ==
  /\ WF_vars(Lane) /\ WF_vars(Command)
  /\ WF_vars(\E w \in switches : SwitchRuns(w))

Spec == Init /\ [][Next]_vars /\ Fairness

-----------------------------------------------------------------------------
(* Properties.                                                             *)

\* A read that was under way when the user last selected a session never
\* takes the bar away from it ("the flicker" of selectRow).
StaleReadIgnored ==
  [][\A r \in reads \ reads' : r.saw # Unread /\ r.at < last => bar' = bar]_vars

Settled == client \in {bar, NoSession}

\* However selections, closes, renames, failed reads and other people's
\* switches overlap, the bar ends up on the session the client is on.
BarSettles == <>[]Settled

(* What the comments promise and the code does not keep. *)

\* menuops.go: "never kill the session this wrapper's own client is sitting
\* in without moving the client somewhere else FIRST".
SwitchedBeforeKill ==
  [][op = "kill" /\ menu \in alive \ alive' => client # menu]_vars

\* tmux_switch.go: "Started here, on the UI goroutine, so rapid j/k switches
\* reach tmux in the order they were pressed".
SwitchesInOrder == [][\A w \in switches \ switches', v \in switches : w[1] <= v[1]]_vars
=============================================================================
