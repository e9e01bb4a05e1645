-------------------------- MODULE ConversationCache --------------------------
(***************************************************************************)
(* The daemon's cache of Claude transcripts                                *)
(* (internal/server/providers/claudeprojects): hydrated by one walk of the *)
(* projects directory, then kept by fsnotify events, each of which makes   *)
(* the provider read one file again or, for a file it does not know, all   *)
(* of them.  GraphQL readers fetch through it on a miss.  A transcript is  *)
(* a value, 0 when the file does not exist; every transcript lives in a    *)
(* project directory of its own.                                           *)
(***************************************************************************)
EXTENDS Naturals, Sequences, SequencesExt

CONSTANTS
  Keys, Values,  \* transcripts; what a file may hold
  Slots,         \* capacity of the watch channel (16 in the code)
  Readers,       \* GraphQL requests for one conversation
  MaxWrites      \* bound on writes and removals

ASSUME CacheAssumption == Keys # {} /\ Slots \in Nat /\ MaxWrites \in Nat

VARIABLES
  disk, writes,     \* what each file holds; writes so far
  dirs, covered,    \* project directories; those the watcher is on
  events,           \* fsnotify events the watcher has yet to read
  out,              \* Watch's channel
  job, jobKey,      \* Start and run: what they are in the middle of
  left, got,        \* files of a walk yet to be read, and what was read
  cache,            \* p.cache
  missed,           \* history: a change of the file that no event will tell
  rpc, rkey, rval   \* each reader: where it is, what it wants, what it read

worldVars  == <<disk, writes, dirs>>
watchVars  == <<covered, events, out>>
jobVars    == <<job, jobKey, left, got>>
readerVars == <<rpc, rkey, rval>>
transcriptVars == <<worldVars, watchVars, jobVars, cache, missed, readerVars>>

Contents == [Keys -> Values \cup {0}]

CacheTypeOK ==
  /\ disk \in Contents /\ cache \in Contents /\ got \in Contents
  /\ writes \in 0..MaxWrites
  /\ dirs \subseteq Keys /\ covered \subseteq dirs /\ left \subseteq Keys
  /\ events \subseteq ({"dir"} \X dirs) \cup ({"file"} \X Keys)
  /\ out \in Seq(Keys) /\ Len(out) <= Slots
  /\ job \in {"boot", "watch", "idle", "read", "put", "walk"} /\ jobKey \in Keys
  /\ missed \subseteq Keys
  /\ rpc \in [Readers -> {"idle", "found", "fetch", "put"}]
  /\ rkey \in [Readers -> Keys] /\ rval \in [Readers -> Values \cup {0}]

Nothing == [k \in Keys |-> 0]
SomeKey == CHOOSE k \in Keys : TRUE

CacheInit ==
  /\ dirs \in SUBSET Keys
  /\ disk \in {d \in Contents : \A k \in Keys \ dirs : d[k] = 0}
  /\ writes = 0 /\ covered = {} /\ events = {} /\ out = <<>>
  /\ job = "boot" /\ jobKey = SomeKey /\ left = Keys /\ got = Nothing
  /\ cache = Nothing /\ missed = {}
  /\ rpc = [r \in Readers |-> "idle"] /\ rval = [r \in Readers |-> 0]
  /\ rkey = [r \in Readers |-> SomeKey]

Watching == job \notin {"boot", "watch"}

-----------------------------------------------------------------------------
(* Claude Code writes transcripts.                                         *)

Write(k) ==
  /\ writes < MaxWrites /\ writes' = writes + 1
  /\ k \in dirs
  /\ \E v \in (Values \cup {0}) \ {disk[k]} : disk' = [disk EXCEPT ![k] = v]
  /\ IF Watching /\ k \in covered
     THEN events' = events \cup {<<"file", k>>} /\ UNCHANGED missed
     ELSE missed' = missed \cup {k} /\ UNCHANGED events
  /\ UNCHANGED <<dirs, covered, out, jobVars, cache, readerVars>>

MakeDir(k) ==
  /\ k \notin dirs /\ dirs' = dirs \cup {k}
  /\ events' = IF Watching THEN events \cup {<<"dir", k>>} ELSE events
  /\ UNCHANGED <<disk, writes, covered, out, jobVars, cache, missed, readerVars>>

-----------------------------------------------------------------------------
(* runWatch.                                                               *)

\* A directory under the root: not read, but watched from here on, unless
\* the watcher cannot be put on it, which is only logged.
CoverDir(k) ==
  /\ <<"dir", k>> \in events /\ events' = events \ {<<"dir", k>>}
  /\ covered' \in {covered, covered \cup {k}}
  /\ UNCHANGED <<worldVars, out, jobVars, cache, missed, readerVars>>

MutOverfull == Len(out) <= Slots

HasRoom == Len(out) < Slots

\* A transcript: its key goes out, or is dropped when the channel is full.
Emit(k) ==
  /\ <<"file", k>> \in events /\ events' = events \ {<<"file", k>>}
  /\ IF HasRoom
     THEN out' = Append(out, k) /\ missed' = missed \ {k}
     ELSE /\ UNCHANGED out
          /\ missed' = IF Contains(out, k) THEN missed ELSE missed \cup {k}
  /\ UNCHANGED <<worldVars, covered, jobVars, cache, readerVars>>

-----------------------------------------------------------------------------
(* Start and run: FetchAll's walk, file by file, then the swap; Watch; one *)
(* event at a time.                                                        *)

\* A file that cannot be read or parsed is skipped.
ReadFile(k) ==
  /\ job \in {"boot", "walk"} /\ k \in left /\ left' = left \ {k}
  /\ \/ got' = [got EXCEPT ![k] = disk[k]] /\ UNCHANGED missed
     \/ disk[k] # 0 /\ missed' = missed \cup {k} /\ UNCHANGED got
  /\ UNCHANGED <<worldVars, watchVars, job, jobKey, cache, readerVars>>

Reloaded == got

Swap ==
  /\ job \in {"boot", "walk"} /\ left = {}
  /\ job' = IF job = "boot" THEN "watch" ELSE "idle"
  /\ cache' = Reloaded
  /\ UNCHANGED <<worldVars, watchVars, jobKey, left, got, missed, readerVars>>

Watch ==
  /\ job = "watch" /\ job' = "idle"
  /\ covered' = dirs
  /\ UNCHANGED <<worldVars, events, out, jobKey, left, got, cache, missed, readerVars>>

\* refreshOne: a key that is not cached makes it reload everything.
TakeKey ==
  /\ job = "idle" /\ out # <<>>
  /\ jobKey' = Head(out) /\ out' = Tail(out)
  /\ got' = Nothing
  /\ IF cache[Head(out)] # 0 THEN job' = "read" /\ UNCHANGED left
                             ELSE job' = "walk" /\ left' = Keys
  /\ UNCHANGED <<worldVars, covered, events, cache, missed, readerVars>>

\* FetchOne; an error other than "does not exist" leaves the entry as it is.
ReadKey ==
  /\ job = "read"
  /\ \/ /\ job' = "put" /\ got' = [got EXCEPT ![jobKey] = disk[jobKey]]
        /\ UNCHANGED missed
     \/ /\ job' = "idle" /\ disk[jobKey] # 0
        /\ missed' = missed \cup {jobKey} /\ UNCHANGED got
  /\ UNCHANGED <<worldVars, watchVars, jobKey, left, cache, readerVars>>

MutKeepRemoved(v) == IF v = 0 THEN cache[jobKey] ELSE v

Refreshed(v) == v

\* The entry is replaced, or deleted with its file.
PutKey ==
  /\ job = "put" /\ job' = "idle"
  /\ cache' = [cache EXCEPT ![jobKey] = Refreshed(got[jobKey])]
  /\ UNCHANGED <<worldVars, watchVars, jobKey, left, got, missed, readerVars>>

-----------------------------------------------------------------------------
(* The conversation query: Keys finds the id, then Get.                    *)

Found(r, k) ==
  /\ rpc[r] = "idle" /\ cache[k] # 0
  /\ rpc' = [rpc EXCEPT ![r] = "found"] /\ rkey' = [rkey EXCEPT ![r] = k]
  /\ UNCHANGED <<worldVars, watchVars, jobVars, cache, missed, rval>>

Get(r) ==
  /\ rpc[r] = "found"
  /\ rpc' = [rpc EXCEPT ![r] = IF cache[rkey[r]] = 0 THEN "fetch" ELSE "idle"]
  /\ UNCHANGED <<worldVars, watchVars, jobVars, cache, missed, rkey, rval>>

Fetch(r) ==
  /\ rpc[r] = "fetch"
  /\ rpc' = [rpc EXCEPT ![r] = IF disk[rkey[r]] = 0 THEN "idle" ELSE "put"]
  /\ rval' = [rval EXCEPT ![r] = disk[rkey[r]]]
  /\ UNCHANGED <<worldVars, watchVars, jobVars, cache, missed, rkey>>

\* Read-through: what was read is cached, whatever happened since.
Put(r) ==
  /\ rpc[r] = "put" /\ rpc' = [rpc EXCEPT ![r] = "idle"]
  /\ rval' = [rval EXCEPT ![r] = 0]
  /\ cache' = [cache EXCEPT ![rkey[r]] = rval[r]]
  /\ missed' = IF rval[r] = disk[rkey[r]] THEN missed ELSE missed \cup {rkey[r]}
  /\ UNCHANGED <<worldVars, watchVars, jobVars, rkey>>

-----------------------------------------------------------------------------
Run == Swap \/ Watch \/ TakeKey \/ ReadKey \/ PutKey

CacheNext ==
  \/ Run
  \/ \E k \in Keys : Write(k) \/ MakeDir(k) \/ CoverDir(k) \/ Emit(k) \/ ReadFile(k)
  \/ \E r \in Readers : Get(r) \/ Fetch(r) \/ Put(r) \/ \E k \in Keys : Found(r, k)

CacheSpec == CacheInit /\ [][CacheNext]_transcriptVars

-----------------------------------------------------------------------------
(* Properties.                                                             *)

\* Whatever the cache holds wrong is about to be put right: an event for the
\* file is on its way or the provider is reading it.  The exceptions are the
\* ones the code knows of: changes before the watch or in a directory it is
\* not on, dropped events, failed reads, an overtaken read-through; the
\* next event for the same file ends them.  (watcher.go, handleEvent: "the
\* next event for the same key catches us up".)
CatchesUp ==
  \A k \in Keys : Watching /\ k \notin missed /\ cache[k] # disk[k] =>
    \/ <<"file", k>> \in events \/ Contains(out, k)
    \/ jobKey = k /\ (job = "put" => got[k] = disk[k]) /\ job \in {"read", "put"}
    \/ job = "walk" /\ (k \in left \/ got[k] = disk[k])
=============================================================================
