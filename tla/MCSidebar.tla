------------------------------ MODULE MCSidebar ------------------------------
(* The sidebar for TLC.  Its lanes and its selection share the loop and     *)
(* the rows and nothing else that the properties tell apart, so a behaviour *)
(* of this instance is about one and leaves the other at rest.              *)
EXTENDS SidebarSelection

CONSTANTS MaxEvents, MaxFetches, Down, NoRows  \* SidebarLanes

ASSUME LanesAssumption == MaxEvents \in Nat /\ MaxFetches \in Nat \ {0}

VARIABLES
  part,  \* what this behaviour is about
  backend, world, events, socket, wire, push, pushed, rows, attach, fastOld,
  fastTicks, fetches, hookReads, hooks

Lanes == INSTANCE SidebarLanes WITH ticks <- fastTicks

laneVars == <<backend, world, events, socket, wire, push, pushed, rows, attach,
  fastOld, fastTicks, fetches, hookReads, hooks>>

MCInit ==
  /\ part \in {"selection", "lanes"}
  /\ Init /\ (part # "selection" => alive = {CHOOSE s \in Sessions : TRUE})
  /\ Lanes!Init /\ (part # "lanes" => backend = "daemon")

MCNext ==
  \/ part = "selection" /\ Next /\ UNCHANGED <<part, laneVars>>
  \/ part = "lanes" /\ Lanes!Next /\ UNCHANGED <<part, vars>>

\* The fairness of both, each while its part is the one that runs.
MCFairness ==
  /\ WF_vars(part = "selection" /\ Lane)
  /\ WF_vars(part = "selection" /\ Command)
  /\ WF_vars(part = "selection" /\ \E w \in switches : SwitchRuns(w))
  /\ WF_laneVars(part = "lanes" /\ Lanes!Loop)
  /\ WF_laneVars(part = "lanes" /\ Lanes!FastTick)
  /\ WF_laneVars(part = "lanes" /\ Lanes!PushAges)
  /\ \A k \in 1..MaxFetches :
       /\ WF_laneVars(part = "lanes" /\ k \in DOMAIN fetches
                      /\ (Lanes!FetchRuns(k) \/ Lanes!FetchLands(k)))
       /\ WF_laneVars(part = "lanes" /\ k \in DOMAIN hookReads
                      /\ (Lanes!HookRuns(k) \/ Lanes!HookLands(k)))

MCSpec == MCInit /\ [][MCNext]_<<part, vars, laneVars>> /\ MCFairness

\* Both keep to their types; the fast poll never dies, and the client lane has
\* one read or one timer at any time.
AllTypeOK == TypeOK /\ Lanes!TypeOK

\* Answers land in any order, and yet what is on screen never goes back: not
\* the rows of a backend that only the fast lane reads, and not the attach
\* flags while the push lane that owns them is live.
NewestWins == [][Lanes!Forward]_laneVars

\* Once nobody moves any more the bar is where the client is, and once nothing
\* changes any more the rows, their flags and the hook states are current.
ScreenSettles ==
  <>[](IF part = "selection" THEN Settled ELSE Lanes!Current)
=============================================================================
