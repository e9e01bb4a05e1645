-------------------------- MODULE MCPeerSupervisor --------------------------
(* PeerSupervisor for TLC, in two parts.  In a behaviour of "peers" the     *)
(* file is edited once and everything else moves; in one of "reload" it is  *)
(* edited and torn time and again, and workers, once started, rest.         *)
EXTENDS PeerSupervisor, TLC

VARIABLE part

\* Any contents over the names and addresses of the instance.
MCConfigs == [Peers -> Addrs \cup {Absent}]

Peering == Next /\ file' # Torn /\ edits' <= 1

Reloading ==
  Edit \/ Overflow \/ Watching \/ Applying \/ Boot \/ BootFails \/ StartWatcher

MCInit ==
  /\ part \in {"peers", "reload"}
  /\ Init /\ (part = "peers" => file # Torn)

MCNext ==
  /\ \/ part = "peers" /\ Peering
     \/ part = "reload" /\ Reloading
  /\ UNCHANGED part

\* PeersFair, where workers move.
Moving(A) == part = "peers" /\ A

MCPeersFair ==
  /\ SF_vars(Moving(WatcherEnds)) /\ WF_vars(Moving(Stopping))
  /\ \A w \in {1, 2} :  \* one edit starts no third
       /\ WF_vars(Moving(Driven(w))) /\ WF_vars(Moving(Tick(w)))
       /\ SF_vars(Moving(ProbeTick(w))) /\ SF_vars(Moving(WorkerEnds(w)))

MCFairSpec == MCInit /\ [][MCNext]_<<part, vars>> /\ ReloadFair /\ MCPeersFair
=============================================================================
