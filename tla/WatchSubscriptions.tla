------------------------- MODULE WatchSubscriptions -------------------------
(***************************************************************************)
(* The subscription file of the watch daemon                               *)
(* (crates/orchard/src/watch/subscription.rs).  The daemon prunes it after *)
(* every batch of events, `watch --subscribe` and `--unsubscribe` rewrite  *)
(* it from processes of their own: each reads the file, changes the list,  *)
(* writes it to subscriptions.json.tmp and renames that over the file.  No *)
(* lock excludes them, and any of them may be killed.  A subscription is   *)
(* its id, of one tmux session.                                            *)
(***************************************************************************)
EXTENDS Naturals, FiniteSets

CONSTANTS
  Subs,      \* subscriptions
  Clis,      \* CLI processes that may run at a time
  Torn,      \* contents that do not parse
  MaxWrites  \* bound on rewrites

ASSUME SubscriptionsAssumption ==
  /\ IsFiniteSet(Clis) /\ "daemon" \notin Clis
  /\ \A S \in SUBSET Subs : S # Torn
  /\ MaxWrites \in Nat

Inodes == 1 .. Cardinality(Clis) + 3
Daemon == "daemon"
Processes == Clis \cup {Daemon}

VARIABLES
  content,   \* of each inode: the list, or Torn
  name, tmp, \* inodes of subscriptions.json and of its .tmp, 0 for none
  sessions,  \* tmux sessions that are alive
  pc, opened,    \* each process: where it is, the inode it writes
  list,      \* and the list it is about to write
  writes,    \* rewrites so far
  meant,     \* history: what the rewrites that ended would leave behind
  overlap    \* history: two rewrites have overlapped

fileVars == <<content, name, tmp, sessions, pc, opened, list, writes, meant, overlap>>

FileTypeOK ==
  /\ content \in [Inodes -> (SUBSET Subs) \cup {Torn}]
  /\ name \in {0} \cup Inodes /\ tmp \in {0} \cup Inodes /\ (name = tmp => name = 0)
  /\ sessions \subseteq Subs
  /\ pc \in [Processes -> {"idle", "open", "write", "rename"}]
  /\ opened \in [Processes -> {0} \cup Inodes]
  /\ list \in [Processes -> SUBSET Subs]
  /\ writes \in 0..MaxWrites /\ meant \subseteq Subs /\ overlap \in BOOLEAN

FileInit ==
  /\ content = [i \in Inodes |-> {}]
  /\ name = 0 /\ tmp = 0
  /\ sessions \in SUBSET Subs
  /\ pc = [a \in Processes |-> "idle"] /\ opened = [a \in Processes |-> 0]
  /\ list = [a \in Processes |-> {}]
  /\ writes = 0 /\ meant = {} /\ overlap = FALSE

SessionFlips(s) ==
  /\ sessions' = (sessions \ {s}) \cup ({s} \ sessions)
  /\ UNCHANGED <<content, name, tmp, pc, opened, list, writes, meant, overlap>>

-----------------------------------------------------------------------------
(* read_subscriptions: no file, or one that does not parse, is an empty    *)
(* list.                                                                   *)

Parsed == IF name = 0 \/ content[name] = Torn THEN {} ELSE content[name]

Rewrites(a, new) ==
  /\ pc[a] = "idle" /\ pc' = [pc EXCEPT ![a] = "open"]
  /\ writes < MaxWrites /\ writes' = writes + 1
  /\ list' = [list EXCEPT ![a] = new]
  /\ overlap' = (overlap \/ \E b \in Processes : pc[b] # "idle")
  /\ UNCHANGED <<content, name, tmp, sessions, opened, meant>>

\* register: an entry of the same id is replaced.
Register(a, s) == a # Daemon /\ Rewrites(a, Parsed \cup {s})
Unregister(a, s) == a # Daemon /\ Rewrites(a, Parsed \ {s})

\* prune_stale, as one look at tmux.
Prune == Rewrites(Daemon, Parsed \cap sessions)

-----------------------------------------------------------------------------
(* write_subscriptions.                                                    *)

Step(a, from, to) == pc[a] = from /\ pc' = [pc EXCEPT ![a] = to]

Unused == {i \in Inodes \ {name, tmp} : \A a \in Processes : opened[a] # i}

\* The inode behind the temporary name; the name is the same for everybody.
Temporary == IF tmp = 0 THEN Unused ELSE {tmp}

\* fs::write: create or truncate ...
OpenTmp(a) ==
  /\ Step(a, "open", "write")
  /\ \E i \in Temporary :
       /\ \A j \in Temporary : i <= j
       /\ opened' = [opened EXCEPT ![a] = i]
       /\ content' = [content EXCEPT ![i] = Torn]
       /\ tmp' = i
  /\ UNCHANGED <<name, sessions, list, writes, meant, overlap>>

\* ... and write: two writers of one inode may leave a mixture.
Write(a) ==
  /\ Step(a, "write", "rename")
  /\ \E mixed \in IF content[opened[a]] = Torn THEN {FALSE} ELSE BOOLEAN :
       content' = [content EXCEPT ![opened[a]] = IF mixed THEN Torn ELSE list[a]]
  /\ opened' = [opened EXCEPT ![a] = 0]
  /\ UNCHANGED <<name, tmp, sessions, list, writes, meant, overlap>>

MutCopied == name' = tmp /\ UNCHANGED tmp

Moved == name' = tmp /\ tmp' = 0

\* The rename fails when another process has taken the temporary file away.
Rename(a) ==
  /\ Step(a, "rename", "idle")
  /\ IF tmp = 0 THEN UNCHANGED <<name, tmp, meant>>
                ELSE Moved /\ meant' = list[a]
  /\ UNCHANGED <<content, sessions, opened, list, writes, overlap>>

MutErrorIgnored(a) == IF pc[a] = "write" THEN "rename" ELSE "idle"

GivesUp(a) == "idle"

\* Killed, or the disk is full: an error ends the rewrite.
Fails(a) ==
  /\ pc[a] # "idle" /\ pc' = [pc EXCEPT ![a] = GivesUp(a)]
  /\ opened' = [opened EXCEPT ![a] = 0]
  /\ UNCHANGED <<content, name, tmp, sessions, list, writes, meant, overlap>>

-----------------------------------------------------------------------------
FileNext ==
  \/ Prune \/ \E s \in Subs : SessionFlips(s)
  \/ \E a \in Processes :
       \/ OpenTmp(a) \/ Write(a) \/ Rename(a) \/ Fails(a)
       \/ \E s \in Subs : Register(a, s) \/ Unregister(a, s)

FileSpec == FileInit /\ [][FileNext]_fileVars

-----------------------------------------------------------------------------
(* Properties.                                                             *)

\* Rewrites that do not overlap are atomic, wherever one is killed: the file
\* holds what the last that ended meant to write, and all of it.
AloneAtomic == ~overlap => Parsed = meant

(* What the comments promise and the code does not keep. *)

\* subscription.rs: "Writes the subscription file atomically".
NeverTorn == name # 0 => content[name] # Torn
=============================================================================
