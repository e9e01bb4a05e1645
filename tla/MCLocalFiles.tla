---------------------------- MODULE MCLocalFiles ----------------------------
(* Programs that meet in files, for TLC: the recovery log of               *)
(* orchard-shell, the event log and the subscription file of the watch     *)
(* daemon.  The files have nothing to do with one another, so a behaviour  *)
(* of this instance is about one of them and leaves the others at rest.    *)
EXTENDS PaneRecovery, WatchSubscriptions

CONSTANTS
  Others, MaxSize, MaxLines, MaxGens  \* WebhookTail

ASSUME EventLogAssumption == MaxLines \in Nat /\ MaxGens \in Nat

VARIABLES
  part,  \* the file this behaviour is about
  text, gen, lines, pen, fd, tail, offset, mtime, stat, told, book, passed

EventLog == INSTANCE WebhookTail

\* In the order of recover_pane.go.
MCPanes == <<"sidebar", "inner">>

tailVars == <<text, gen, lines, pen, fd, tail, offset, mtime, stat, told, book, passed>>

MCInit ==
  /\ part \in {"recovery", "events", "subscriptions"}
  /\ Init /\ EventLog!Init
  /\ FileInit /\ (part # "subscriptions" => sessions = {})

MCNext ==
  \/ part = "recovery" /\ Next /\ UNCHANGED <<part, tailVars, fileVars>>
  \/ part = "events" /\ EventLog!Next /\ UNCHANGED <<part, vars, fileVars>>
  \/ part = "subscriptions" /\ FileNext /\ UNCHANGED <<part, vars, tailVars>>

MCSpec == MCInit /\ [][MCNext]_<<part, vars, tailVars, fileVars>>

\* All three keep to their types.
AllTypeOK == TypeOK /\ EventLog!TypeOK /\ FileTypeOK

\* Webhooks are returned once and in order (WebhookTail).
ToldOnce == EventLog!ToldOnce

\* What the tailer's offset has passed was returned (WebhookTail).
NoneSkipped == EventLog!NoneSkipped
=============================================================================
