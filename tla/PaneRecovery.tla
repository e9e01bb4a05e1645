---------------------------- MODULE PaneRecovery ----------------------------
(***************************************************************************)
(* orchard-shell recover-pane: what happens to a dead pane of the outer    *)
(* tmux.  tmux runs the pane-died hooks one after the other, but M-r runs  *)
(* beside them; both read the recovery log, decide, act on the pane and    *)
(* append to the log.  The log may miss a recovery: it has no path, the    *)
(* append fails, or the process is killed before it.  Which command a      *)
(* respawn starts (reattach, new session, sidebar) makes no difference     *)
(* here; split panes, which are only closed, and the log's rotation at     *)
(* 1 MB are left out.                                                      *)
(***************************************************************************)
EXTENDS Naturals, Sequences, FiniteSets

CONSTANTS
  Panes,      \* in the order M-r looks at them: <<"sidebar", "inner">>
  CrashBound, \* crashLoopBound (5 in the code)
  MaxLog,     \* bound on recoveries
  MaxUnlogged \* bound on those the log misses

ASSUME RecoveryAssumption == 1 \in DOMAIN Panes /\ CrashBound \in Nat

VARIABLES
  pane,       \* each pane: alive, dead, or parked by the halt's hold command
  died,       \* pane-died hooks tmux has yet to run
  step, whom, \* the hook's and M-r's recover-pane: where it is, for which pane
  verdict,    \* and what it decided
  log,        \* the recoveries acted on; those written are in recovery.log
  calm, old,  \* its first `calm` events are out of the halt debounce, its
              \* first `old` ones out of the crash-loop window too
  unhandled   \* history: dead panes whose recovery was debounced or failed

vars == <<pane, died, step, whom, verdict, log, calm, old, unhandled>>

Names == {Panes[i] : i \in DOMAIN Panes}
Actors == {"hook", "retry"}
Events == [pane : Names, act : {"respawn", "halt"}, by : Actors, written : BOOLEAN]

TypeOK ==
  /\ pane \in [Names -> {"alive", "dead", "parked"}]
  /\ died \in Seq(Names)
  /\ step \in [Actors -> {"idle", "decide", "act", "log"}]
  /\ whom \in [Actors -> Names]
  /\ verdict \in [Actors -> {"respawn", "halt"}]
  /\ log \in Seq(Events) /\ calm \in 0..Len(log) /\ old \in 0..calm
  /\ unhandled \subseteq {p \in Names : pane[p] = "dead"}

Init ==
  /\ pane = [p \in Names |-> "alive"]
  /\ died = <<>> /\ log = <<>> /\ calm = 0 /\ old = 0
  /\ step = [a \in Actors |-> "idle"] /\ whom = [a \in Actors |-> Panes[1]]
  /\ verdict = [a \in Actors |-> "respawn"]
  /\ unhandled = {}

-----------------------------------------------------------------------------
\* Recoveries that are done, under way or queued.
Recoveries == Len(log) + Cardinality({a \in Actors : step[a] # "idle"}) + Len(died)

\* What runs in the pane exits; in a parked one, the hold command.
Dies(p) ==
  /\ pane[p] # "dead" /\ Recoveries < MaxLog
  /\ pane' = [pane EXCEPT ![p] = "dead"]
  /\ died' = Append(died, p)
  /\ UNCHANGED <<step, whom, verdict, log, calm, old, unhandled>>

\* Seconds pass, or a minute: events leave the debounce, then the window.
TimePasses ==
  /\ \/ calm' \in calm + 1 .. Len(log) /\ UNCHANGED old
     \/ old' \in old + 1 .. calm /\ UNCHANGED calm
  /\ UNCHANGED <<pane, died, step, whom, verdict, log, unhandled>>

-----------------------------------------------------------------------------
(* runRecoverPane.                                                         *)

Starts(a, p) ==
  /\ step[a] = "idle" /\ step' = [step EXCEPT ![a] = "decide"]
  /\ whom' = [whom EXCEPT ![a] = p]
  /\ UNCHANGED <<pane, verdict, log, calm, old, unhandled>>

Hook == died # <<>> /\ Starts("hook", Head(died)) /\ died' = Tail(died)

\* Positions of the events of p in recovery.log.
Of(p) == {i \in DOMAIN log : log[i].pane = p /\ log[i].written}
Latest(S) == CHOOSE i \in S : \A j \in S : j <= i

\* haltedPanes: the newest event of the pane is a halt.
Halted(p) == Of(p) # {} /\ log[Latest(Of(p))].act = "halt"

Dead == {i \in DOMAIN Panes : pane[Panes[i]] = "dead"}

\* resolveRetryTarget: a dead pane, the sidebar first; else the one halted last.
Retry ==
  /\ \/ \E i \in Dead : (\A j \in Dead : i <= j) /\ Starts("retry", Panes[i])
     \/ /\ Dead = {}
        /\ \E p \in Names : /\ Halted(p)
                            /\ \A q \in Names : Halted(q) => Latest(Of(q)) <= Latest(Of(p))
                            /\ Starts("retry", p)
  /\ Recoveries < MaxLog
  /\ UNCHANGED died

MutHaltsOnly(p) == Cardinality({i \in Of(p) : i > old /\ log[i].act = "halt"})

\* restartsWithin: every event of the pane counts, halts and retries too.
Recent(p) == Cardinality({i \in Of(p) : i > old})

Debounced(p) == \E i \in Of(p) : i > calm /\ log[i].act = "halt"

Ends(a) ==
  /\ step' = [step EXCEPT ![a] = "idle"]
  /\ whom' = [whom EXCEPT ![a] = Panes[1]] /\ verdict' = [verdict EXCEPT ![a] = "respawn"]

\* A recovery of p ends without it: a dead pane stays so.
Abandons(p) == unhandled' = IF pane[p] = "dead" THEN unhandled \cup {p} ELSE unhandled

\* It finds no configuration (resolveConfFor), or is killed before it acts.
QuitsEarly(a) ==
  /\ step[a] \in {"decide", "act"} /\ Ends(a) /\ Abandons(whom[a])
  /\ UNCHANGED <<pane, died, log, calm, old>>

\* decideRecovery; a no-op ends here and is not logged.
Decide(a) ==
  /\ step[a] = "decide"
  /\ LET p == whom[a]
     IN IF a = "hook" /\ Debounced(p)
        THEN Ends(a) /\ Abandons(p)
        ELSE /\ step' = [step EXCEPT ![a] = "act"]
             /\ verdict' = [verdict EXCEPT ![a] =
                  IF a = "hook" /\ Recent(p) > CrashBound THEN "halt" ELSE "respawn"]
             /\ UNCHANGED <<whom, unhandled>>
  /\ UNCHANGED <<pane, died, log, calm, old>>

MutNoHold(v) == IF v = "halt" THEN "dead" ELSE "alive"

Becomes(v) == IF v = "halt" THEN "parked" ELSE "alive"

\* applyRecovery: respawn-pane -k, whatever runs in the pane by now.  When it
\* fails the error is printed and the event logged all the same.
Act(a) ==
  /\ step[a] = "act" /\ step' = [step EXCEPT ![a] = "log"]
  /\ LET p == whom[a]
     IN \/ /\ pane' = [pane EXCEPT ![p] = Becomes(verdict[a])]
           /\ unhandled' = unhandled \ {p}
        \/ Abandons(p) /\ UNCHANGED pane
  /\ UNCHANGED <<died, whom, verdict, log, calm, old>>

\* appendRecoveryLog, whose error is ignored; skipped when the log has no
\* path, or when the process is killed first.
Log(a) ==
  /\ step[a] = "log" /\ Ends(a)
  /\ \E w \in BOOLEAN :
       /\ w \/ Cardinality({i \in DOMAIN log : ~log[i].written}) < MaxUnlogged
       /\ log' = Append(log, [pane |-> whom[a], act |-> verdict[a], by |-> a, written |-> w])
  /\ UNCHANGED <<pane, died, calm, old, unhandled>>

Next ==
  \/ Hook \/ Retry \/ TimePasses
  \/ \E p \in Names : Dies(p)
  \/ \E a \in Actors : QuitsEarly(a) \/ Decide(a) \/ Act(a) \/ Log(a)

Spec == Init /\ [][Next]_vars

-----------------------------------------------------------------------------
(* Properties.                                                             *)

\* The hooks' restarts of p in the crash-loop window, and those of them that
\* recovery.log does not show.
Restarts(p) ==
  {i \in DOMAIN log :
     log[i].pane = p /\ i > old /\ log[i].act = "respawn" /\ log[i].by = "hook"}
Unlogged(p) == {i \in Restarts(p) : ~log[i].written}

\* How often a pane that keeps dying is respawned within one window, however
\* M-r runs beside the hooks: once more than the bound, and once again for
\* each restart the log missed.  A log that cannot be written bounds nothing.
\* (recover.go, crashLoopBound; recover_pane.go, appendRecoveryLog.)
RestartsBounded ==
  \A p \in Names :
    Cardinality(Restarts(p)) <= CrashBound + 1 + Cardinality(Unlogged(p))

\* No pane stays dead unnoticed: a recovery of it is queued or under way,
\* unless the halt debounce swallowed its death, tmux refused to respawn it,
\* or recover-pane ended before it acted.
DeadIsAttended ==
  \A p \in Names : pane[p] = "dead" =>
    \/ p \in unhandled
    \/ \E i \in DOMAIN died : died[i] = p
    \/ \E a \in Actors : whom[a] = p /\ step[a] \in {"decide", "act"}

(* What the comments promise and the code does not keep. *)

\* recover.go: "a pane that keeps dying is a symptom the user has to look at,
\* not something to respawn into an infinite loop": restarts that are not
\* logged are not counted.
RestartsStopUnlogged ==
  \A p \in Names : Cardinality(Restarts(p)) <= CrashBound + 1

\* recover.go: "a later successful recovery [...] would have overwritten it":
\* once every recovery has ended, the parked panes are those the log shows
\* halted, and so M-r revives a parked pane.
ParkedIsKnown ==
  (\A a \in Actors : step[a] = "idle") =>
    \A p \in Names : pane[p] = "parked" => Halted(p)

\* recover.go: a death within the debounce "is the parked pane churning, not
\* a new failure": nothing has revived the pane since its halt.
DebouncedIsParked ==
  \A p \in Names :
    step["hook"] = "decide" /\ whom["hook"] = p /\ Debounced(p) => Halted(p)
=============================================================================
