----------------------------- MODULE WebhookTail -----------------------------
(***************************************************************************)
(* The way of a webhook from the receiver to the watch daemon: the event   *)
(* log (crates/orchard/src/events.rs, webhook/tailer.rs).  The receiver    *)
(* and other processes append lines, each checking for itself whether the  *)
(* file has to be rotated first; the daemon's tailer follows the file by   *)
(* size and modification time.  A webhook line is two cells, which a       *)
(* reader may find half written, any other line one.  Appends are atomic   *)
(* with respect to each other (O_APPEND).  The archives are never read.    *)
(***************************************************************************)
EXTENDS Naturals, Sequences, FiniteSets

CONSTANTS
  Others,   \* writers other than the webhook receiver
  MaxSize,  \* size at which the file is rotated (50 MB in the code)
  MaxLines, \* bound on lines
  MaxGens   \* bound on files that ever had the name

SX == INSTANCE SequencesExt

Hook == "hook"
Writers == Others \cup {Hook}

VARIABLES
  text,     \* what was written to the n-th file of the name
  gen,      \* the file that has the name now, 0 for none
  lines,    \* webhook lines so far, and lines in all
  pen, fd,  \* each writer: where it is, and the file it has open
  tail,     \* where the tailer is
  offset,   \* its offset, and ...
  mtime,    \* ... the modification time it remembers, <<>> for none
  stat,     \* what stat told it: a modification time
  told,     \* webhook lines it has returned, in order
  book,     \* history: the file the offset was measured in
  passed    \* history: webhook lines behind the offset before it was used

logVars  == <<text, gen, lines, pen, fd>>
tailVars == <<tail, offset, mtime, stat, told, book, passed>>
vars == <<logVars, tailVars>>

Gens == 1..MaxGens

\* A cell is the number of its webhook line, 0 for any other line; nl says
\* that the line ends with it.
Cells == [line : 0..MaxLines, nl : BOOLEAN]

\* The time of the last change stands for all that was written by then.
Times == (Gens \X Nat) \cup {<<>>}

TypeOK ==
  /\ text \in [Gens -> Seq(Cells)] /\ gen \in 0..MaxGens
  /\ lines \in [webhook : 0..MaxLines, all : 0..MaxLines]
  /\ pen \in [Writers -> {"idle", "rotate", "open", "write", "half"}]
  /\ fd \in [Writers -> 0..MaxGens]
  /\ tail \in {"off", "sleep", "open"}
  /\ offset \in Nat /\ mtime \in Times /\ stat \in Times
  /\ told \in Seq(1..MaxLines)
  /\ book \in 0..MaxGens /\ passed \subseteq 1..MaxLines

Init ==
  /\ text = [g \in Gens |-> <<>>] /\ gen = 0 /\ lines = [webhook |-> 0, all |-> 0]
  /\ pen = [w \in Writers |-> "idle"] /\ fd = [w \in Writers |-> 0]
  /\ tail = "off" /\ offset = 0 /\ mtime = <<>> /\ stat = <<>> /\ told = <<>>
  /\ book = 0 /\ passed = {}

-----------------------------------------------------------------------------
(* append_line.                                                            *)

Pen(w, from, to) == pen[w] = from /\ pen' = [pen EXCEPT ![w] = to]

Oversized == gen # 0 /\ Len(text[gen]) >= MaxSize

Check(w) ==
  /\ Pen(w, "idle", IF Oversized THEN "rotate" ELSE "open")
  /\ lines.all < MaxLines
  /\ lines' = [lines EXCEPT !.all = @ + 1]
  /\ UNCHANGED <<text, gen, fd, tailVars>>

\* Whatever has the name by now, possibly nothing.
Rotate(w) ==
  /\ Pen(w, "rotate", "open") /\ gen' = 0
  /\ UNCHANGED <<text, lines, fd, tailVars>>

Unused == {g \in Gens : g > gen /\ text[g] = <<>> /\ \A w \in Writers : fd[w] # g}

Open(w) ==
  /\ Pen(w, "open", "write")
  /\ IF gen # 0 THEN UNCHANGED gen
     ELSE \E g \in Unused : (\A h \in Unused : g <= h) /\ gen' = g
  /\ fd' = [fd EXCEPT ![w] = gen']
  /\ UNCHANGED <<text, lines, tailVars>>

Appends(w, line, nl) ==
  text' = [text EXCEPT ![fd[w]] = Append(@, [line |-> line, nl |-> nl])]

Free(w) == \A v \in Writers : pen[v] = "half" => fd[v] # fd[w]

WriteOther(w) ==
  /\ w # Hook /\ Free(w) /\ Pen(w, "write", "idle")
  /\ Appends(w, 0, TRUE)
  /\ fd' = [fd EXCEPT ![w] = 0]
  /\ UNCHANGED <<gen, lines, tailVars>>

\* log_webhook_event
WriteHook ==
  /\ Free(Hook) /\ Pen(Hook, "write", "half")
  /\ lines' = [lines EXCEPT !.webhook = @ + 1]
  /\ Appends(Hook, lines.webhook + 1, FALSE)
  /\ UNCHANGED <<gen, fd, tailVars>>

EndHook ==
  /\ Pen(Hook, "half", "idle")
  /\ Appends(Hook, lines.webhook, TRUE)
  /\ fd' = [fd EXCEPT ![Hook] = 0]
  /\ UNCHANGED <<gen, lines, tailVars>>

-----------------------------------------------------------------------------
(* Tailer.                                                                 *)

Size == IF gen = 0 THEN 0 ELSE Len(text[gen])
Now == <<gen, Size>>

\* Webhook lines with a cell among the first n of the current file.
Behind(n) ==
  IF gen = 0 THEN {} ELSE {text[gen][i].line : i \in 1..(IF n < Size THEN n ELSE Size)} \ {0}

\* Tailer::new: what is there already is not replayed.
Start ==
  /\ tail = "off" /\ tail' = "sleep"
  /\ offset' = Size /\ mtime' = (IF gen = 0 THEN <<>> ELSE Now)
  /\ book' = gen /\ passed' = Behind(Size)
  /\ UNCHANGED <<logVars, stat, told>>

MutShrunk == Size <= offset

\* The truncation guard.
Shrunk == Size < offset

\* poll, up to the open; nothing new, or no file, changes nothing.
Stat ==
  /\ tail = "sleep" /\ gen # 0
  /\ Size > offset \/ (mtime # <<>> /\ mtime # Now)
  /\ tail' = "open" /\ stat' = Now
  /\ offset' = IF Shrunk THEN 0 ELSE offset
  /\ UNCHANGED <<logVars, mtime, told, book, passed>>

OpenFails ==
  /\ tail = "open" /\ gen = 0 /\ tail' = "sleep"
  /\ UNCHANGED <<logVars, offset, mtime, stat, told, book, passed>>

Chunk == SubSeq(text[gen], offset + 1, Size)

MutTakeAll(chunk) == Len(chunk)

\* Only what ends with a newline is taken; the rest is read again.
Taken(chunk) ==
  LET ends == {i \in DOMAIN chunk : chunk[i].nl}
  IN IF ends = {} THEN 0 ELSE CHOOSE i \in ends : \A j \in ends : j <= i

\* The lines of a chunk that parse as webhook lines: not those whose first
\* half lies before the chunk.
Parsed(chunk) ==
  LET whole == {i \in DOMAIN chunk : /\ chunk[i].nl /\ chunk[i].line # 0
                                     /\ i > 1 /\ chunk[i - 1].line = chunk[i].line}
      nth(k) == CHOOSE i \in whole : Cardinality({j \in whole : j <= i}) = k
  IN [k \in 1 .. Cardinality(whole) |-> chunk[nth(k)].line]

Read ==
  /\ tail = "open" /\ gen # 0 /\ tail' = "sleep"
  /\ mtime' = stat
  /\ LET n == Taken(Chunk)
     IN /\ told' = told \o Parsed(SubSeq(Chunk, 1, n))
        /\ offset' = offset + n
        /\ book' = (IF n = 0 THEN book ELSE gen)
        /\ passed' = IF n = 0 \/ book = gen THEN passed ELSE passed \cup Behind(offset)
  /\ UNCHANGED <<logVars, stat>>

-----------------------------------------------------------------------------
Writing(w) == Check(w) \/ Rotate(w) \/ Open(w) \/ WriteOther(w)
Tailing == Start \/ Stat \/ OpenFails \/ Read

Next == (\E w \in Writers : Writing(w)) \/ WriteHook \/ EndHook \/ Tailing

Spec == Init /\ [][Next]_vars

-----------------------------------------------------------------------------
(* Properties.                                                             *)

\* However files are rotated between stat, open and read, no webhook is
\* returned twice, and none overtakes another.  (A second return would make
\* the daemon refresh everything again.)
ToldOnce == \A i, j \in DOMAIN told : i < j => told[i] < told[j]

\* A webhook line the offset has passed was returned: neither a line that is
\* half written when it is read nor a rotation loses one, except those that
\* were behind the offset before it was measured in this file, when a new
\* file has outgrown the old offset between two polls.
NoneSkipped ==
  book = gen /\ gen # 0 =>
    \A i \in 1..offset :
      LET c == text[gen][i]
      IN c.line # 0 /\ c.nl => c.line \in passed \/ SX!Contains(told, c.line)

(* What the comments promise and the code does not keep. *)

\* watch/daemon.rs: the tailer "guarantees webhook-triggered refreshes happen
\* within ~2s of the append": what was appended before a rotation is never
\* read after it.
NoneRotatedAway ==
  \A g \in Gens \ {gen} : \A i \in DOMAIN text[g] :
    tail # "off" /\ text[g][i].line # 0 /\ text[g][i].nl =>
      text[g][i].line \in passed \/ SX!Contains(told, text[g][i].line)
=============================================================================
