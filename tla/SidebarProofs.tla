----------------------------- MODULE SidebarProofs -----------------------------
(***************************************************************************)
(* The sidebar for any sessions and any number of gestures, changes and    *)
(* requests.                                                               *)
(*                                                                         *)
(* The selection: that a read which has been overtaken is told from a      *)
(* current one by its generation needs the two counts, of gestures and of  *)
(* generations, to agree on what came first.                               *)
(* The lanes: that the screen never goes back needs the newest fetch to    *)
(* have seen what the rows show, and the frames of a socket to stay in     *)
(* their order behind what was pushed.                                     *)
(***************************************************************************)
EXTENDS MCSidebar, SequenceTheorems, TLAPS

(* The selection.                                                          *)

\* A read that started before the last selection has an older generation, and
\* no read has a newer one than the model.
Overtaken ==
  /\ clientGen <= moves
  /\ \A r \in reads : /\ r.gen <= clientGen /\ r.at <= moves
                      /\ r.at < last => r.gen < clientGen

IInv == TypeOK /\ Overtaken

\* The states the program starts in have it.
LEMMA InitEstablishes == Init => IInv
<1> SUFFICES ASSUME Init PROVE IInv
  OBVIOUS
<1> DEFINE r == [gen |-> 0, saw |-> Unread, at |-> 0]
<1>1. r \in Reads /\ r.gen = 0 /\ r.at = 0
  BY MovesAssumption DEF MovesAssumption, Reads
<1>2. alive \subseteq Sessions /\ client \in alive
  BY DEF Init
<1>3. TypeOK
  BY <1>1, <1>2, MovesAssumption DEF MovesAssumption, Init, TypeOK
<1>4. Overtaken
  BY <1>1 DEF Init, Overtaken
<1>5. QED BY <1>3, <1>4 DEF IInv

\* One more move is still within the bound.
LEMMA MoveCounts ==
  ASSUME IInv, Move
  PROVE  moves' \in 0..MaxMoves /\ moves' = moves + 1 /\ moves \in 0..MaxMoves
  BY MovesAssumption DEF MovesAssumption, IInv, TypeOK, Move

\* A session that dies leaves a client on one that lives, or none.
LEMMA DieTypes ==
  ASSUME IInv, NEW s \in Sessions, Die(s)
  PROVE  alive' \subseteq Sessions /\ client' \in alive' \cup {NoSession}
  BY DEF IInv, TypeOK, Die

\* What moves sessions, clients and switches leaves the lane alone.
LEMMA TmuxKeeps ==
  ASSUME IInv, NEW s \in Sessions,
         \/ ElsewhereSwitched(s) \/ ElsewhereCreated(s) \/ ElsewhereKilled(s)
         \/ \E w \in switches : SwitchRuns(w)
  PROVE  IInv'
<1>1. CASE ElsewhereSwitched(s)
  <2>1. moves' \in 0..MaxMoves /\ moves' = moves + 1 /\ moves \in 0..MaxMoves
    BY <1>1, MoveCounts DEF ElsewhereSwitched
  <2>2. TypeOK'
    BY <1>1, <2>1, MovesAssumption DEF MovesAssumption, ElsewhereSwitched, IInv, TypeOK, lane
  <2>3. Overtaken'
    BY <1>1, <2>1 DEF ElsewhereSwitched, IInv, TypeOK, Overtaken, lane, Reads
  <2>4. QED BY <2>2, <2>3 DEF IInv
<1>2. CASE ElsewhereCreated(s)
  <2>1. moves' \in 0..MaxMoves /\ moves' = moves + 1 /\ moves \in 0..MaxMoves
    BY <1>2, MoveCounts DEF ElsewhereCreated
  <2>2. TypeOK'
    BY <1>2, <2>1, MovesAssumption DEF MovesAssumption, ElsewhereCreated, IInv, TypeOK, lane
  <2>3. Overtaken'
    BY <1>2, <2>1 DEF ElsewhereCreated, IInv, TypeOK, Overtaken, lane, Reads
  <2>4. QED BY <2>2, <2>3 DEF IInv
<1>3. CASE ElsewhereKilled(s)
  <2>1. moves' \in 0..MaxMoves /\ moves' = moves + 1 /\ moves \in 0..MaxMoves
    BY <1>3, MoveCounts DEF ElsewhereKilled
  <2>2. alive' \subseteq Sessions /\ client' \in alive' \cup {NoSession}
    BY <1>3, DieTypes DEF ElsewhereKilled
  <2>3. TypeOK'
    BY <1>3, <2>1, <2>2, MovesAssumption DEF MovesAssumption, ElsewhereKilled, IInv, TypeOK, lane
  <2>4. Overtaken'
    BY <1>3, <2>1 DEF ElsewhereKilled, IInv, TypeOK, Overtaken, lane, Reads
  <2>5. QED BY <2>3, <2>4 DEF IInv
<1>4. ASSUME NEW w \in switches, SwitchRuns(w) PROVE IInv'
  BY <1>4 DEF SwitchRuns, IInv, TypeOK, Overtaken, lane
<1>5. QED BY <1>1, <1>2, <1>3, <1>4

\* The one read that is under way, if any.
LEMMA OneRead ==
  ASSUME IInv, NEW r \in reads
  PROVE  /\ ticks = 0 /\ reads = {r} /\ r \in Reads
         /\ r.gen \in 0..MaxMoves /\ r.at \in 0..MaxMoves
  BY DEF IInv, TypeOK, Reads

\* The lane has a timer or a read, and reads no newer than the model.
LEMMA LaneKeeps ==
  ASSUME IInv, ReadStarts \/ \E r \in reads : ReadRuns(r) \/ ReadFails(r) \/ ReadLands(r)
  PROVE  IInv'
<1> USE MovesAssumption DEF MovesAssumption
<1>1. CASE ReadStarts
  <2> DEFINE n == [gen |-> clientGen, saw |-> Unread, at |-> moves]
  <2>1. n \in Reads /\ n.gen = clientGen /\ n.at = moves
    BY DEF Reads, IInv, TypeOK
  <2>2. reads' = {n} /\ ticks' = 0
    BY <1>1 DEF ReadStarts, IInv, TypeOK
  <2>3. TypeOK'
    BY <1>1, <2>1, <2>2 DEF ReadStarts, IInv, TypeOK, tmux
  <2>4. moves \in Nat /\ last \in 0..moves
    BY DEF IInv, TypeOK
  <2>5. Overtaken'
    BY <1>1, <2>1, <2>2, <2>4 DEF ReadStarts, IInv, TypeOK, Overtaken
  <2>6. QED BY <2>3, <2>5 DEF IInv
<1>2. ASSUME NEW r \in reads, ReadRuns(r) PROVE IInv'
  <2> DEFINE n == [r EXCEPT !.saw = client]
  <2>1. n \in Reads /\ n.gen = r.gen /\ n.at = r.at
    BY OneRead DEF Reads, IInv, TypeOK
  <2>2. reads' = {n} /\ ticks' = 0
    BY <1>2, OneRead DEF ReadRuns
  <2>3. TypeOK'
    BY <1>2, <2>1, <2>2 DEF ReadRuns, IInv, TypeOK, tmux
  <2>4. Overtaken'
    BY <1>2, <2>1, <2>2 DEF ReadRuns, IInv, Overtaken
  <2>5. QED BY <2>3, <2>4 DEF IInv
<1>3. ASSUME NEW r \in reads, ReadFails(r) PROVE IInv'
  <2> DEFINE n == [r EXCEPT !.saw = NoSession]
  <2>1. n \in Reads /\ n.gen = r.gen /\ n.at = r.at
    BY OneRead DEF Reads, IInv, TypeOK
  <2>2. reads' = {n} /\ ticks' = 0
    BY <1>3, OneRead DEF ReadFails
  <2>3. moves' \in 0..MaxMoves /\ moves' = moves + 1 /\ moves \in 0..MaxMoves
    BY <1>3, MoveCounts DEF ReadFails
  <2>4. TypeOK'
    BY <1>3, <2>1, <2>2, <2>3 DEF ReadFails, IInv, TypeOK, tmux
  <2>5. /\ clientGen' = clientGen /\ last' = last
        /\ clientGen \in Nat /\ n.at \in Nat /\ n.gen <= clientGen /\ n.at <= moves
        /\ clientGen <= moves
        /\ n.at < last => n.gen < clientGen
    BY <1>3, <2>1, OneRead DEF ReadFails, IInv, TypeOK, Overtaken
  <2> HIDE DEF n
  <2>6. Overtaken'
    BY <2>2, <2>3, <2>5 DEF Overtaken
  <2>7. QED BY <2>4, <2>6 DEF IInv
<1>4. ASSUME NEW r \in reads, ReadLands(r) PROVE IInv'
  <2>1. reads' = {} /\ ticks' = 1
    BY <1>4, OneRead DEF ReadLands
  <2>2. bar' \in Sessions \cup {NoSession}
    BY <1>4, OneRead DEF ReadLands, IInv, TypeOK, Reads
  <2>3. TypeOK'
    BY <1>4, <2>1, <2>2 DEF ReadLands, IInv, TypeOK, tmux
  <2>4. Overtaken'
    BY <1>4, <2>1 DEF ReadLands, IInv, Overtaken
  <2>5. QED BY <2>3, <2>4 DEF IInv
<1>5. QED BY <1>1, <1>2, <1>3, <1>4

\* A selection makes a generation, and every read that is under way is older.
LEMMA SelectKeeps ==
  ASSUME IInv, NEW s \in Sessions, Select(s)
  PROVE  IInv'
<1>1. moves' \in 0..MaxMoves /\ moves' = moves + 1 /\ moves \in 0..MaxMoves
  BY MoveCounts DEF Select
<1>2. clientGen' = clientGen + 1 /\ clientGen' <= moves' /\ clientGen \in Nat
  BY <1>1 DEF Select, NewGeneration, IInv, TypeOK, Overtaken
<1>3. switches' \subseteq (0..MaxMoves) \X Sessions
  BY <1>1 DEF Select, IInv, TypeOK
<1>4. TypeOK'
  BY <1>1, <1>2, <1>3, MovesAssumption DEF MovesAssumption, Select, IInv, TypeOK, tmux, lane
<1>5. Overtaken'
  BY <1>1, <1>2, OneRead DEF Select, IInv, Overtaken, lane
<1>6. QED BY <1>4, <1>5 DEF IInv

\* The rest of the loop: rows, the menu, and the commands it waits for.
LEMMA LoopKeeps ==
  ASSUME IInv,
         \/ RowsLand \/ MenuCloses \/ Close \/ KillRuns \/ RenameRuns \/ TimesOut \/ Returns
         \/ \E s \in Sessions : MenuOpens(s) \/ Rename(s)
  PROVE  IInv'
<1> USE MovesAssumption DEF MovesAssumption
<1>1. CASE RowsLand
  <2>1. bar' \in Sessions \cup {NoSession} /\ cards' \subseteq Sessions
    BY <1>1 DEF RowsLand, Reanchor, IInv, TypeOK
  <2>2. QED BY <1>1, <2>1 DEF RowsLand, IInv, TypeOK, Overtaken, tmux, lane
<1>2. CASE MenuCloses
  BY <1>2 DEF MenuCloses, IInv, TypeOK, Overtaken, tmux, lane
<1>3. CASE Close
  <2>1. moves' \in 0..MaxMoves /\ moves' = moves + 1 /\ moves \in 0..MaxMoves
    BY <1>3, MoveCounts DEF Close
  <2>2. bar' \in Sessions \cup {NoSession} /\ switches' \subseteq (0..MaxMoves) \X Sessions
    BY <1>3, <2>1 DEF Close, StepAside, IInv, TypeOK
  <2>3. TypeOK'
    BY <1>3, <2>1, <2>2 DEF Close, IInv, TypeOK, tmux, lane
  <2>4. Overtaken'
    BY <1>3, <2>1, OneRead DEF Close, IInv, TypeOK, Overtaken, lane
  <2>5. QED BY <2>3, <2>4 DEF IInv
<1>4. CASE KillRuns
  <2>1. alive' \subseteq Sessions /\ client' \in alive' \cup {NoSession}
    BY <1>4, DieTypes DEF KillRuns, IInv, TypeOK, tmux
  <2>2. TypeOK'
    BY <1>4, <2>1 DEF KillRuns, IInv, TypeOK, lane
  <2>3. Overtaken'
    BY <1>4 DEF KillRuns, IInv, Overtaken, lane
  <2>4. QED BY <2>2, <2>3 DEF IInv
<1>5. CASE RenameRuns
  <2>1. menu # NoSession /\ to \in Sessions
    BY <1>5 DEF RenameRuns, IInv, TypeOK
  <2>2. alive' \subseteq Sessions /\ client' \in alive' \cup {NoSession}
    BY <1>5, <2>1 DEF RenameRuns, Renamed, IInv, TypeOK, tmux
  <2>3. TypeOK'
    BY <1>5, <2>1, <2>2 DEF RenameRuns, IInv, TypeOK, lane
  <2>4. Overtaken'
    BY <1>5 DEF RenameRuns, IInv, Overtaken, lane
  <2>5. QED BY <2>3, <2>4 DEF IInv
<1>6. CASE TimesOut
  <2>1. moves' \in 0..MaxMoves /\ moves' = moves + 1 /\ moves \in 0..MaxMoves
    BY <1>6, MoveCounts DEF TimesOut
  <2>2. TypeOK'
    BY <1>6, <2>1 DEF TimesOut, IInv, TypeOK, tmux, lane
  <2>3. Overtaken'
    BY <1>6, <2>1, OneRead DEF TimesOut, IInv, TypeOK, Overtaken, lane
  <2>4. QED BY <2>2, <2>3 DEF IInv
<1>7. CASE Returns
  <2>1. cards' \subseteq Sessions /\ bar' \in Sessions \cup {NoSession}
        /\ menu' \in Sessions \cup {NoSession}
    BY <1>7 DEF Returns, Reanchor, Renamed, IInv, TypeOK
  <2>2. TypeOK'
    BY <1>7, <2>1 DEF Returns, IInv, TypeOK, tmux, lane
  <2>3. Overtaken'
    BY <1>7 DEF Returns, IInv, Overtaken, lane
  <2>4. QED BY <2>2, <2>3 DEF IInv
<1>8. ASSUME NEW s \in Sessions, MenuOpens(s) PROVE IInv'
  BY <1>8 DEF MenuOpens, IInv, TypeOK, Overtaken, tmux, lane
<1>9. ASSUME NEW s \in Sessions, Rename(s) PROVE IInv'
  <2>1. moves' \in 0..MaxMoves /\ moves' = moves + 1 /\ moves \in 0..MaxMoves
    BY <1>9, MoveCounts DEF Rename
  <2>2. s # NoSession
    BY NamesAssumption DEF NamesAssumption
  <2>3. TypeOK'
    BY <1>9, <2>1, <2>2 DEF Rename, IInv, TypeOK, tmux, lane
  <2>4. Overtaken'
    BY <1>9, <2>1, OneRead DEF Rename, IInv, TypeOK, Overtaken, lane
  <2>5. QED BY <2>3, <2>4 DEF IInv
<1>10. QED BY <1>1, <1>2, <1>3, <1>4, <1>5, <1>6, <1>7, <1>8, <1>9

\* Every step keeps it.
LEMMA NextKeeps == IInv /\ [Next]_vars => IInv'
<1> SUFFICES ASSUME IInv, [Next]_vars PROVE IInv'
  OBVIOUS
<1>1. CASE Lane \/ \E r \in reads : ReadFails(r)
  BY <1>1, LaneKeeps DEF Lane
<1>2. CASE Command \/ TimesOut \/ RowsLand \/ MenuCloses \/ Close
  BY <1>2, LoopKeeps DEF Command
<1>3. ASSUME NEW w \in switches, SwitchRuns(w) PROVE IInv'
  BY <1>3 DEF SwitchRuns, IInv, TypeOK, Overtaken, lane
<1>4. ASSUME NEW s \in Sessions,
             ElsewhereSwitched(s) \/ ElsewhereCreated(s) \/ ElsewhereKilled(s)
      PROVE  IInv'
  BY <1>4, TmuxKeeps
<1>5. ASSUME NEW s \in Sessions, Select(s) \/ MenuOpens(s) \/ Rename(s) PROVE IInv'
  BY <1>5, SelectKeeps, LoopKeeps
<1>6. CASE UNCHANGED vars
  BY <1>6 DEF vars, tmux, lane, IInv, TypeOK, Overtaken
<1>7. QED BY <1>1, <1>2, <1>3, <1>4, <1>5, <1>6 DEF Next

\* The invariant holds in every state.
LEMMA SelectionInvariant == Spec => []IInv
<1>1. Init => IInv
  BY InitEstablishes
<1>2. IInv /\ [Next]_vars => IInv'
  BY NextKeeps
<1>3. QED BY <1>1, <1>2, PTL DEF Spec

\* The client lane always has one timer or one read, and everything else its
\* type: neither a stale read nor a failed one stops the lane or doubles it.
THEOREM SelectionTypeCorrect == Spec => []TypeOK
<1>1. IInv => TypeOK
  BY DEF IInv
<1>2. QED BY <1>1, SelectionInvariant, PTL

\* Only a read that lands leaves with an answer; overtaken, it is not current.
LEMMA OvertakenKeepsBar ==
  ASSUME IInv, [Next]_vars, NEW r \in reads \ reads', r.saw # Unread, r.at < last
  PROVE  bar' = bar
<1>1. r.gen < clientGen /\ r.gen \in 0..MaxMoves /\ clientGen \in 0..MaxMoves /\ reads = {r}
  BY OneRead DEF IInv, TypeOK, Overtaken
<1>2. ~Current(r)
  BY <1>1 DEF Current
<1>3. CASE UNCHANGED vars
  BY <1>3 DEF vars
<1>4. CASE Lane \/ \E q \in reads : ReadFails(q)
  BY <1>1, <1>2, <1>4 DEF Lane, ReadStarts, ReadRuns, ReadFails, ReadLands
<1>5. CASE ~UNCHANGED lane
  <2>1. Lane \/ \E q \in reads : ReadFails(q)
    BY <1>5 DEF Next, vars, Command, SwitchRuns, ElsewhereSwitched, ElsewhereCreated,
         ElsewhereKilled, KillRuns, RenameRuns, Returns, TimesOut, RowsLand, MenuCloses,
         Close, Select, MenuOpens, Rename
  <2>2. QED BY <1>4, <2>1
<1>6. QED BY <1>5 DEF lane

\* However gestures, reads and failures overlap, a read that was under way at
\* the last selection never moves the bar: m.clientGen (selectRow) is enough.
THEOREM StaleNeverLands == Spec => StaleReadIgnored
<1>1. IInv /\ [Next]_vars
        => [\A r \in reads \ reads' : r.saw # Unread /\ r.at < last => bar' = bar]_vars
  BY OvertakenKeepsBar
<1>2. QED BY <1>1, SelectionInvariant, PTL DEF StaleReadIgnored, Spec

-----------------------------------------------------------------------------
(* The lanes.                                                              *)

\* What is under way once w changes have been made.
Fetches(w) == [saw : (0..w) \cup {Unread, NoRows}, newest : BOOLEAN]
Frames(w) == (0..w) \cup {Down}

\* Of the fetches under way at most one is the newest.
OneNewest == \A j, k \in DOMAIN fetches : fetches[j].newest /\ fetches[k].newest => j = k

\* Where only the fast lane brings rows, the newest fetch has seen what they show.
RowsBehind ==
  \A k \in DOMAIN fetches :
    backend = "supergraph" /\ fetches[k].newest /\ fetches[k].saw \notin {Unread, NoRows}
    /\ rows # NoRows => fetches[k].saw >= rows

\* Frames are in the order they were sent in, and behind what was pushed.
FramesInOrder ==
  /\ \A j \in DOMAIN wire : wire[j] # Down => wire[j] >= pushed
  /\ \A j, k \in DOMAIN wire : j <= k /\ Down \notin {wire[j], wire[k]} => wire[j] <= wire[k]

\* While the push lane is live the flags are the ones it pushed.
Owned == Lanes!PushOwnsAttach => attach = pushed

\* Together with the types these are inductive.
LanesInv == Lanes!TypeOK /\ OneNewest /\ RowsBehind /\ FramesInOrder /\ Owned

-----------------------------------------------------------------------------
(* Sequences.                                                              *)

\* What RemoveAt leaves.
LEMMA Removed ==
  ASSUME NEW S, NEW q \in Seq(S), NEW k \in DOMAIN q
  PROVE  LET r == Lanes!SX!RemoveAt(q, k)
         IN /\ r \in Seq(S) /\ Len(r) = Len(q) - 1
            /\ \A j \in DOMAIN r : r[j] = IF j < k THEN q[j] ELSE q[j + 1]
<1> DEFINE a == SubSeq(q, 1, k - 1)
           b == SubSeq(q, k + 1, Len(q))
<1>1. Len(q) \in Nat /\ q \in [1 .. Len(q) -> S] /\ k \in 1 .. Len(q)
  BY LenProperties
<1>2. /\ a \in Seq(S) /\ Len(a) = k - 1
      /\ \A j \in 1 .. k - 1 : a[j] = q[j]
  BY <1>1, SubSeqProperties
<1>3. /\ b \in Seq(S) /\ Len(b) = Len(q) - k
      /\ \A j \in 1 .. Len(q) - k : b[j] = q[k + j]
  BY <1>1, SubSeqProperties
<1>4. /\ a \o b \in Seq(S) /\ Len(a \o b) = Len(a) + Len(b)
      /\ \A j \in 1 .. Len(a) + Len(b) : (a \o b)[j] = IF j <= Len(a) THEN a[j] ELSE b[j - Len(a)]
  BY <1>2, <1>3, ConcatProperties
<1> HIDE DEF a, b
<1>5. Len(a \o b) = Len(q) - 1 /\ DOMAIN (a \o b) = 1 .. Len(q) - 1
  <2>1. Len(a \o b) = Len(q) - 1
    BY <1>1, <1>2, <1>3, <1>4
  <2>2. (a \o b) \in [1 .. Len(a \o b) -> S]
    BY <1>4, LenProperties
  <2>3. QED BY <2>1, <2>2
<1>6. ASSUME NEW j \in 1 .. Len(q) - 1
      PROVE  (a \o b)[j] = IF j < k THEN q[j] ELSE q[j + 1]
  <2>1. CASE j < k
    BY <1>1, <1>2, <1>3, <1>4, <2>1
  <2>2. CASE ~(j < k)
    <3>1. j - (k - 1) \in 1 .. Len(q) - k /\ ~(j <= Len(a)) /\ j \in 1 .. Len(a) + Len(b)
      BY <1>1, <1>2, <1>3, <2>2
    <3>2. (a \o b)[j] = b[j - (k - 1)] /\ b[j - (k - 1)] = q[k + (j - (k - 1))]
      BY <1>2, <1>3, <1>4, <3>1
    <3>3. k + (j - (k - 1)) = j + 1
      BY <1>1
    <3>4. QED BY <2>2, <3>2, <3>3
  <2>3. QED BY <2>1, <2>2
<1>7. Lanes!SX!RemoveAt(q, k) = a \o b
  BY DEF Lanes!SX!RemoveAt, a, b
<1>8. QED BY <1>4, <1>5, <1>6, <1>7

\* More changes only widen the types.
LEMMA Widen ==
  ASSUME NEW v \in Nat, NEW w \in Nat, v <= w
  PROVE  /\ \A q \in Seq(Frames(v)) : q \in Seq(Frames(w))
         /\ \A q \in Seq(Fetches(v)) : q \in Seq(Fetches(w))
         /\ \A q \in Seq((0..v) \cup {Unread}) : q \in Seq((0..w) \cup {Unread})
<1>1. 0..v \subseteq 0..w
  OBVIOUS
<1>2. Frames(v) \subseteq Frames(w) /\ Fetches(v) \subseteq Fetches(w)
  BY <1>1 DEF Frames, Fetches
<1>3. QED BY <1>1, <1>2, SeqMonotonic

\* What a dispatch leaves: the new fetch is the newest, and no other.
LEMMA Dispatched ==
  ASSUME Lanes!TypeOK, Lanes!Dispatch
  PROVE  /\ fetches' \in Seq(Fetches(world)) /\ Len(fetches') = Len(fetches) + 1
         /\ Len(fetches') <= MaxFetches
         /\ fetches'[Len(fetches')] = [saw |-> Unread, newest |-> TRUE]
         /\ \A k \in DOMAIN fetches' : k # Len(fetches') => ~fetches'[k].newest
<1> DEFINE old == [k \in DOMAIN fetches |-> [fetches[k] EXCEPT !.newest = FALSE]]
           new == [saw |-> Unread, newest |-> TRUE]
<1>1. /\ fetches \in Seq(Fetches(world)) /\ Len(fetches) \in Nat
      /\ Len(fetches) < MaxFetches /\ MaxFetches \in Nat
      /\ fetches' = Append(old, new)
  BY LanesAssumption DEF LanesAssumption, Lanes!TypeOK, Lanes!Dispatch, Fetches
<1>2. new \in Fetches(world)
  BY DEF Fetches
<1>3. fetches \in [1 .. Len(fetches) -> Fetches(world)] /\ DOMAIN fetches = 1 .. Len(fetches)
  BY <1>1, LenProperties
<1>4. ASSUME NEW k \in 1 .. Len(fetches) PROVE old[k] \in Fetches(world) /\ ~old[k].newest
  <2>1. fetches[k] \in Fetches(world) /\ old[k] = [fetches[k] EXCEPT !.newest = FALSE]
    BY <1>3
  <2>2. QED BY <2>1 DEF Fetches
<1>5. old \in [1 .. Len(fetches) -> Fetches(world)]
  <2>1. old = [k \in 1 .. Len(fetches) |-> old[k]]
    BY <1>3
  <2> HIDE DEF old
  <2>2. QED BY <1>4, <2>1
<1>6. old \in Seq(Fetches(world)) /\ Len(old) = Len(fetches)
  BY <1>1, <1>5
<1> HIDE DEF old, new
<1>7. /\ fetches' \in Seq(Fetches(world)) /\ Len(fetches') = Len(fetches) + 1
      /\ fetches'[Len(fetches) + 1] = new
      /\ \A k \in 1 .. Len(fetches) : fetches'[k] = old[k]
  BY <1>1, <1>2, <1>6, AppendProperties
<1>8. DOMAIN fetches' = 1 .. Len(fetches) + 1
  BY <1>7, LenProperties
<1>9. QED BY <1>1, <1>4, <1>7, <1>8 DEF new

-----------------------------------------------------------------------------
(* The invariant.                                                          *)

\* One fetch is under way, the newest, and nothing is on screen.
LEMMA LanesInit == Lanes!Init => LanesInv
<1> SUFFICES ASSUME Lanes!Init PROVE LanesInv
  OBVIOUS
<1> DEFINE f == [saw |-> Unread, newest |-> TRUE]
<1>1. f \in [saw : (0..world) \cup {Unread, NoRows}, newest : BOOLEAN] /\ fetches = <<f>>
  BY DEF Lanes!Init
<1>2. /\ fetches \in Seq([saw : (0..world) \cup {Unread, NoRows}, newest : BOOLEAN])
      /\ Len(fetches) = 1 /\ DOMAIN fetches = {1} /\ fetches[1] = f
  BY <1>1
<1>3. hookReads \in Seq((0..world) \cup {Unread}) /\ Len(hookReads) = 1
  BY DEF Lanes!Init
<1>4. wire \in Seq((0..world) \cup {Down}) /\ DOMAIN wire = {}
  BY DEF Lanes!Init
<1>5. /\ backend \in {"daemon", "supergraph"} /\ events \in Lanes!Versions /\ world \in 0..events
      /\ socket \in BOOLEAN /\ push \in {"none", "live", "stale", "down"}
      /\ pushed \in 0..world /\ rows \in (0..world) \cup {NoRows} /\ attach \in 0..world
      /\ fastOld \in BOOLEAN /\ fastTicks \in Nat /\ hooks \in 0..world
  <2>1. events \in 0..MaxEvents /\ world \in 0..events /\ 0 \in 0..world /\ fastTicks \in Nat
    BY LanesAssumption DEF LanesAssumption, Lanes!Init
  <2>2. QED BY <2>1 DEF Lanes!Init, Lanes!Versions
<1>6. Len(fetches) <= MaxFetches /\ Len(hookReads) <= MaxFetches
  BY <1>2, <1>3, LanesAssumption DEF LanesAssumption
<1>7. \E k \in DOMAIN fetches : fetches[k].newest
  BY <1>2
<1>8. Lanes!TypeOK
  BY <1>2, <1>3, <1>4, <1>5, <1>6, <1>7 DEF Lanes!TypeOK
<1>9. OneNewest /\ RowsBehind
  BY <1>2 DEF Lanes!Init, OneNewest, RowsBehind
<1>10. FramesInOrder /\ Owned
  BY <1>4 DEF Lanes!Init, FramesInOrder, Owned, Lanes!PushOwnsAttach, Lanes!SubLive
<1>11. QED BY <1>8, <1>9, <1>10 DEF LanesInv

\* The counts, and what the sequences hold, of a state that has the types.
LEMMA LanesTypes ==
  ASSUME Lanes!TypeOK
  PROVE  /\ MaxEvents \in Nat /\ MaxFetches \in Nat
         /\ events \in Nat /\ world \in Nat /\ world <= events /\ events <= MaxEvents
         /\ pushed \in Nat /\ attach \in Nat /\ hooks \in Nat
         /\ wire \in Seq(Frames(world)) /\ DOMAIN wire = 1 .. Len(wire) /\ Len(wire) \in Nat
         /\ \A j \in DOMAIN wire : wire[j] \in Frames(world)
         /\ fetches \in Seq(Fetches(world)) /\ DOMAIN fetches = 1 .. Len(fetches)
         /\ Len(fetches) \in Nat /\ \A k \in DOMAIN fetches : fetches[k] \in Fetches(world)
         /\ hookReads \in Seq((0..world) \cup {Unread}) /\ DOMAIN hookReads = 1 .. Len(hookReads)
         /\ Len(hookReads) \in Nat
<1>1. /\ wire \in Seq(Frames(world)) /\ fetches \in Seq(Fetches(world))
      /\ hookReads \in Seq((0..world) \cup {Unread})
  BY DEF Lanes!TypeOK, Frames, Fetches
<1>2. /\ Len(wire) \in Nat /\ wire \in [1 .. Len(wire) -> Frames(world)]
      /\ Len(fetches) \in Nat /\ fetches \in [1 .. Len(fetches) -> Fetches(world)]
      /\ Len(hookReads) \in Nat
      /\ hookReads \in [1 .. Len(hookReads) -> (0..world) \cup {Unread}]
  BY <1>1, LenProperties
<1>3. /\ MaxEvents \in Nat /\ MaxFetches \in Nat
      /\ events \in Nat /\ world \in Nat /\ world <= events /\ events <= MaxEvents
      /\ pushed \in Nat /\ attach \in Nat /\ hooks \in Nat
  BY LanesAssumption DEF LanesAssumption, Lanes!TypeOK, Lanes!Versions
<1>4. QED BY <1>1, <1>2, <1>3

\* The backend: a change, a dial, a frame and a drop.
LEMMA BackendStep ==
  ASSUME LanesInv, Lanes!Change \/ Lanes!Dial \/ Lanes!Push \/ Lanes!Drop
  PROVE  LanesInv'
<1> USE DEF LanesInv, Lanes!stream, Lanes!shown, Lanes!poll
<1>1. /\ UNCHANGED <<backend, push, pushed, rows, attach, fastOld, fastTicks, fetches, hookReads, hooks>>
      /\ events' \in Lanes!Versions /\ world' \in 0..events' /\ socket' \in BOOLEAN
      /\ world <= world' /\ world' \in Nat
  <2>1. UNCHANGED <<backend, push, pushed, rows, attach, fastOld, fastTicks, fetches, hookReads, hooks>>
    BY DEF Lanes!Change, Lanes!Dial, Lanes!Push, Lanes!Drop
  <2>2. socket' \in BOOLEAN
    BY DEF Lanes!TypeOK, Lanes!Change, Lanes!Dial, Lanes!Push, Lanes!Drop
  <2>3. world' \in {world, world + 1} /\ events' \in {events, events + 1}
        /\ events' <= MaxEvents /\ world' <= events'
    BY LanesTypes DEF Lanes!Change, Lanes!Dial, Lanes!Push, Lanes!Drop, Lanes!Event
  <2>4. QED BY <2>1, <2>2, <2>3, LanesTypes DEF Lanes!Versions
<1>2. /\ fetches \in Seq(Fetches(world')) /\ hookReads \in Seq((0..world') \cup {Unread})
      /\ wire \in Seq(Frames(world'))
      /\ \A n \in 0..world : n \in 0..world'
  <2>1. world \in Nat /\ wire \in Seq(Frames(world)) /\ fetches \in Seq(Fetches(world))
        /\ hookReads \in Seq((0..world) \cup {Unread})
    BY LanesTypes
  <2>2. \A n \in 0..world : n \in 0..world'
    BY <1>1, <2>1
  <2>3. world' \in Nat /\ world <= world'
    BY <1>1
  <2>4. QED BY <2>1, <2>2, <2>3, Widen
<1>3. wire' = wire \/ \E f \in Frames(world') : wire' = Append(wire, f) /\ (f # Down => f = world)
  <2>1. world \in Frames(world') /\ Down \in Frames(world')
    BY <1>1, LanesTypes DEF Frames
  <2>2. wire' = wire \/ wire' = Append(wire, world) \/ wire' = Append(wire, Down)
    BY DEF Lanes!Change, Lanes!Dial, Lanes!Push, Lanes!Drop
  <2>3. QED BY <2>1, <2>2
<1>4. wire' \in Seq(Frames(world')) /\ FramesInOrder'
  <2>1. CASE wire' = wire
    BY <1>1, <1>2, <2>1 DEF FramesInOrder
  <2>2. ASSUME NEW f \in Frames(world'), wire' = Append(wire, f), f # Down => f = world
        PROVE  wire' \in Seq(Frames(world')) /\ FramesInOrder'
    <3>1. /\ wire' \in Seq(Frames(world')) /\ Len(wire') = Len(wire) + 1 /\ wire'[Len(wire) + 1] = f
          /\ \A j \in 1 .. Len(wire) : wire'[j] = wire[j]
      BY <1>2, <2>2, AppendProperties
    <3>2. DOMAIN wire' = 1 .. Len(wire) + 1 /\ DOMAIN wire = 1 .. Len(wire) /\ Len(wire) \in Nat
      BY <3>1, LenProperties, LanesTypes
    <3>3. \A j \in DOMAIN wire : wire[j] # Down => wire[j] \in Nat /\ wire[j] <= world
      BY LanesTypes DEF Frames
    <3>4. \A j \in DOMAIN wire' : wire'[j] # Down => wire'[j] >= pushed'
      <4>1. world >= pushed
        BY LanesTypes DEF Lanes!TypeOK
      <4>2. QED BY <1>1, <2>2, <3>1, <3>2, <4>1 DEF FramesInOrder
    <3>5. \A j, k \in DOMAIN wire' : j <= k /\ Down \notin {wire'[j], wire'[k]} => wire'[j] <= wire'[k]
      <4>1. ASSUME NEW j \in DOMAIN wire', NEW k \in DOMAIN wire', j <= k,
                   Down \notin {wire'[j], wire'[k]}
            PROVE  wire'[j] <= wire'[k]
        <5>1. CASE k \in DOMAIN wire
          BY <3>1, <3>2, <4>1, <5>1 DEF FramesInOrder
        <5>2. CASE k \notin DOMAIN wire
          BY <2>2, <3>1, <3>2, <3>3, <4>1, <5>2, LanesTypes
        <5>3. QED BY <5>1, <5>2
      <4>2. QED BY <4>1
    <3>6. QED BY <3>1, <3>4, <3>5 DEF FramesInOrder
  <2>3. QED BY <1>3, <2>1, <2>2
<1>5. Lanes!TypeOK'
  BY <1>1, <1>2, <1>4 DEF Lanes!TypeOK, Frames, Fetches
<1>6. OneNewest' /\ RowsBehind' /\ Owned'
  BY <1>1 DEF OneNewest, RowsBehind, Owned, Lanes!PushOwnsAttach, Lanes!SubLive
<1>7. QED BY <1>4, <1>5, <1>6

\* The push lane: a frame is taken from the front.
LEMMA Frame ==
  ASSUME LanesInv, wire # <<>>, wire' = Tail(wire), world' = world
  PROVE  /\ Head(wire) \in Frames(world) /\ wire' \in Seq(Frames(world'))
         /\ \A p : (p = pushed \/ (p = Head(wire) /\ p # Down)) =>
              /\ \A j \in DOMAIN wire' : wire'[j] # Down => wire'[j] >= p
              /\ \A j, k \in DOMAIN wire' :
                   j <= k /\ Down \notin {wire'[j], wire'[k]} => wire'[j] <= wire'[k]
<1>1. /\ wire \in Seq(Frames(world)) /\ Len(wire) \in Nat /\ DOMAIN wire = 1 .. Len(wire)
      /\ FramesInOrder
  BY LanesTypes DEF LanesInv
<1>2. /\ Head(wire) \in Frames(world) /\ wire' \in Seq(Frames(world))
      /\ Len(wire') = Len(wire) - 1 /\ Len(wire) >= 1
      /\ Head(wire) = wire[1]
      /\ \A j \in 1 .. Len(wire') : wire'[j] = wire[j + 1]
  BY <1>1, HeadTailProperties
<1>3. DOMAIN wire' = 1 .. Len(wire) - 1
  BY <1>2, LenProperties
<1>4. ASSUME NEW p, p = pushed \/ (p = Head(wire) /\ p # Down),
             NEW j \in DOMAIN wire', wire'[j] # Down
      PROVE  wire'[j] >= p
  <2>1. wire'[j] = wire[j + 1] /\ j + 1 \in DOMAIN wire /\ 1 \in DOMAIN wire /\ 1 <= j + 1
    BY <1>1, <1>2, <1>3
  <2>2. wire[j + 1] >= pushed /\ (wire[1] # Down => wire[1] <= wire[j + 1])
    BY <1>1, <1>4, <2>1 DEF FramesInOrder
  <2>3. wire[j + 1] \in Frames(world) /\ wire[1] \in Frames(world)
    BY <2>1, LanesTypes DEF LanesInv
  <2>4. QED BY <1>2, <1>4, <2>1, <2>2, <2>3, LanesTypes DEF Frames, LanesInv
<1>5. ASSUME NEW j \in DOMAIN wire', NEW k \in DOMAIN wire', j <= k, Down \notin {wire'[j], wire'[k]}
      PROVE  wire'[j] <= wire'[k]
  <2>1. /\ wire'[j] = wire[j + 1] /\ wire'[k] = wire[k + 1] /\ j + 1 <= k + 1
        /\ j + 1 \in DOMAIN wire /\ k + 1 \in DOMAIN wire
    BY <1>1, <1>2, <1>3, <1>5
  <2>2. QED BY <1>1, <1>5, <2>1 DEF FramesInOrder
<1>6. QED BY <1>2, <1>4, <1>5

\* The newest fetch, once dispatched, has seen nothing yet.
LEMMA NewestIsUnread ==
  ASSUME LanesInv, Lanes!Dispatch, world' = world
  PROVE  OneNewest' /\ RowsBehind' /\ \E k \in DOMAIN fetches' : fetches'[k].newest
<1>1. /\ fetches' \in Seq(Fetches(world)) /\ Len(fetches') = Len(fetches) + 1
      /\ fetches'[Len(fetches')] = [saw |-> Unread, newest |-> TRUE]
      /\ \A k \in DOMAIN fetches' : k # Len(fetches') => ~fetches'[k].newest
  BY Dispatched DEF LanesInv
<1>2. Len(fetches') \in DOMAIN fetches'
  BY <1>1, LenProperties, LanesTypes DEF LanesInv
<1>3. fetches'[Len(fetches')].newest /\ fetches'[Len(fetches')].saw = Unread
  BY <1>1
<1>4. OneNewest'
  BY <1>1 DEF OneNewest
<1>5. RowsBehind'
  BY <1>1, <1>3 DEF RowsBehind
<1>6. QED BY <1>2, <1>3, <1>4, <1>5

\* What the push lane brings to the loop.
LEMMA LoopStep == ASSUME LanesInv, Lanes!Loop PROVE LanesInv'
<1> USE DEF LanesInv, Lanes!stream, Lanes!shown, Lanes!poll
<1>1. /\ wire # <<>> /\ wire' = Tail(wire)
      /\ UNCHANGED <<backend, world, events, socket, fastOld, fastTicks, hookReads, hooks>>
  BY DEF Lanes!Loop, Lanes!SubFails, Lanes!SnapshotLands, Lanes!EventLands
<1>2. Head(wire) \in Frames(world) /\ wire' \in Seq(Frames(world'))
  BY <1>1, Frame
<1>3. CASE Lanes!SubFails
  <2>1. push' = "down" /\ UNCHANGED <<pushed, rows, attach, fetches>>
    BY <1>3 DEF Lanes!SubFails
  <2>2. FramesInOrder'
    BY <1>1, <2>1, Frame DEF FramesInOrder
  <2>3. OneNewest' /\ RowsBehind' /\ Owned'
    BY <1>1, <2>1 DEF OneNewest, RowsBehind, Owned, Lanes!PushOwnsAttach, Lanes!SubLive
  <2>4. Lanes!TypeOK'
    BY <1>1, <1>2, <2>1 DEF Lanes!TypeOK, Frames, Lanes!Versions
  <2>5. QED BY <2>2, <2>3, <2>4
<1>4. CASE Lanes!SnapshotLands
  <2>1. /\ backend = "daemon" /\ Head(wire) # Down /\ push' = "live" /\ fetches' = fetches
        /\ pushed' = Head(wire) /\ rows' = Head(wire) /\ attach' = Head(wire)
    BY <1>4 DEF Lanes!SnapshotLands
  <2>2. Head(wire) \in 0..world
    BY <1>2, <2>1 DEF Frames
  <2>3. FramesInOrder'
    BY <1>1, <2>1, Frame DEF FramesInOrder
  <2>4. OneNewest' /\ RowsBehind' /\ Owned'
    BY <1>1, <2>1 DEF OneNewest, RowsBehind, Owned
  <2>5. Lanes!TypeOK'
    BY <1>1, <1>2, <2>1, <2>2 DEF Lanes!TypeOK, Frames, Lanes!Versions
  <2>6. QED BY <2>3, <2>4, <2>5
<1>5. CASE Lanes!EventLands
  <2>1. /\ backend = "supergraph" /\ push' = "live" /\ Lanes!Dispatch
        /\ UNCHANGED <<pushed, rows, attach>>
    BY <1>5 DEF Lanes!EventLands
  <2>2. FramesInOrder'
    BY <1>1, <2>1, Frame DEF FramesInOrder
  <2>3. OneNewest' /\ RowsBehind' /\ Owned'
    BY <1>1, <2>1, NewestIsUnread DEF Owned, Lanes!PushOwnsAttach
  <2>4. Lanes!TypeOK'
    <3>1. /\ fetches' \in Seq(Fetches(world)) /\ Len(fetches') <= MaxFetches
          /\ \E k \in DOMAIN fetches' : fetches'[k].newest
      BY <1>1, <2>1, Dispatched, NewestIsUnread
    <3>2. QED BY <1>1, <1>2, <2>1, <3>1 DEF Lanes!TypeOK, Frames, Fetches, Lanes!Versions
  <2>5. QED BY <2>2, <2>3, <2>4
<1>6. QED BY <1>3, <1>4, <1>5 DEF Lanes!Loop

\* fastTickMsg: a timer becomes a fetch.
LEMMA TickStep == ASSUME LanesInv, Lanes!FastTick PROVE LanesInv'
<1> USE DEF LanesInv, Lanes!stream, Lanes!shown
<1>1. /\ fastTicks > 0 /\ fastTicks' = fastTicks - 1 /\ Lanes!Dispatch
      /\ Len(hookReads) < MaxFetches /\ hookReads' = Append(hookReads, Unread)
      /\ UNCHANGED <<backend, world, events, socket, wire, push, pushed, rows, attach, fastOld, hooks>>
  BY DEF Lanes!FastTick
<1>2. hookReads' \in Seq((0..world) \cup {Unread}) /\ Len(hookReads') <= MaxFetches
  <2>1. hookReads \in Seq((0..world) \cup {Unread}) /\ Len(hookReads) \in Nat /\ MaxFetches \in Nat
    BY LanesTypes
  <2>2. hookReads' \in Seq((0..world) \cup {Unread}) /\ Len(hookReads') = Len(hookReads) + 1
    BY <1>1, <2>1, AppendProperties
  <2>3. QED BY <1>1, <2>1, <2>2
<1>3. /\ fetches' \in Seq(Fetches(world)) /\ Len(fetches') <= MaxFetches
      /\ OneNewest' /\ RowsBehind' /\ \E k \in DOMAIN fetches' : fetches'[k].newest
  BY <1>1, Dispatched, NewestIsUnread
<1>4. fastTicks' \in Nat
  BY <1>1 DEF Lanes!TypeOK
<1>5. Lanes!TypeOK'
  BY <1>1, <1>2, <1>3, <1>4 DEF Lanes!TypeOK, Fetches, Lanes!Versions
<1>6. FramesInOrder' /\ Owned'
  BY <1>1 DEF FramesInOrder, Owned, Lanes!PushOwnsAttach, Lanes!SubLive
<1>7. QED BY <1>3, <1>5, <1>6

\* A request that is answered has seen everything up to now.
LEMMA AnswerStep ==
  ASSUME LanesInv, NEW k \in DOMAIN fetches, Lanes!FetchRuns(k)
  PROVE  LanesInv'
<1> USE DEF LanesInv, Lanes!stream, Lanes!shown
<1>1. /\ fetches[k].saw = Unread
      /\ UNCHANGED <<backend, world, socket, wire, push, pushed, rows, attach, fastOld, fastTicks,
                     hookReads, hooks>>
      /\ events' \in Lanes!Versions /\ events' \in Nat /\ events <= events'
  <2>1. events' \in {events, events + 1} /\ events' <= MaxEvents
    BY LanesTypes DEF Lanes!FetchRuns, Lanes!Event
  <2>2. QED BY <2>1, LanesTypes DEF Lanes!FetchRuns, Lanes!Versions
<1>2. PICK w \in {world, NoRows} : fetches' = [fetches EXCEPT ![k].saw = w]
  BY DEF Lanes!FetchRuns
<1>3. /\ fetches \in Seq(Fetches(world)) /\ k \in 1 .. Len(fetches) /\ fetches[k] \in Fetches(world)
      /\ world \in Nat
  BY LanesTypes
<1>4. [fetches[k] EXCEPT !.saw = w] \in Fetches(world)
  BY <1>3 DEF Fetches
<1>5. /\ fetches' \in Seq(Fetches(world)) /\ Len(fetches') = Len(fetches)
      /\ DOMAIN fetches' = DOMAIN fetches
      /\ fetches'[k].saw = w /\ fetches'[k].newest = fetches[k].newest
      /\ \A j \in DOMAIN fetches \ {k} : fetches'[j] = fetches[j]
  <2>1. fetches' = [fetches EXCEPT ![k] = [fetches[k] EXCEPT !.saw = w]]
    BY <1>2
  <2>2. fetches' \in Seq(Fetches(world)) /\ Len(fetches') = Len(fetches)
    BY <1>3, <1>4, <2>1, ExceptSeq
  <2>3. fetches'[k] = [fetches[k] EXCEPT !.saw = w]
    BY <2>1
  <2>4. QED BY <1>3, <2>1, <2>2, <2>3 DEF Fetches
<1>6. OneNewest' /\ Owned' /\ FramesInOrder'
  BY <1>1, <1>5 DEF OneNewest, Owned, FramesInOrder, Lanes!PushOwnsAttach, Lanes!SubLive
<1>7. RowsBehind'
  <2>1. rows # NoRows => world >= rows
    BY <1>3 DEF Lanes!TypeOK
  <2>2. QED BY <1>1, <1>5, <2>1 DEF RowsBehind
<1>8. Lanes!TypeOK'
  <2>1. world' \in 0..events'
    BY <1>1, LanesTypes
  <2>2. fastTicks' > 0 \/ \E j \in DOMAIN fetches' : fetches'[j].newest
    BY <1>1, <1>5 DEF Lanes!TypeOK
  <2>3. QED BY <1>1, <1>5, <2>1, <2>2 DEF Lanes!TypeOK, Fetches
<1>9. QED BY <1>6, <1>7, <1>8

\* An answer that lands: the newest shows what it saw and arms the timer, and
\* then no newest is under way; another is discarded.
LEMMA FetchStep ==
  ASSUME LanesInv, NEW k \in DOMAIN fetches, Lanes!FetchLands(k)
  PROVE  LanesInv'
<1> USE DEF LanesInv, Lanes!stream, Lanes!shown
<1>1. /\ fetches[k].saw # Unread /\ fetches' = Lanes!SX!RemoveAt(fetches, k)
      /\ IF fetches[k].newest
         THEN Lanes!ApplyFast(fetches[k].saw) /\ fastTicks' = fastTicks + 1
         ELSE UNCHANGED <<rows, attach, fastOld, fastTicks>>
      /\ UNCHANGED <<backend, world, events, socket, wire, push, pushed, hookReads, hooks>>
  BY DEF Lanes!FetchLands
<1>2. /\ fetches \in Seq(Fetches(world)) /\ DOMAIN fetches = 1 .. Len(fetches) /\ Len(fetches) \in Nat
      /\ fetches[k] \in Fetches(world) /\ MaxFetches \in Nat
  BY LanesTypes
<1>3. /\ fetches' \in Seq(Fetches(world)) /\ Len(fetches') = Len(fetches) - 1
      /\ \A j \in DOMAIN fetches' : fetches'[j] = IF j < k THEN fetches[j] ELSE fetches[j + 1]
  BY <1>1, <1>2, Removed
<1>4. DOMAIN fetches' = 1 .. Len(fetches) - 1
  BY <1>3, LenProperties
<1> DEFINE from(j) == IF j < k THEN j ELSE j + 1
<1>5. ASSUME NEW j \in DOMAIN fetches'
      PROVE  from(j) \in DOMAIN fetches \ {k} /\ fetches'[j] = fetches[from(j)]
  BY <1>2, <1>3, <1>4
<1>6. \A i, j \in DOMAIN fetches' : from(i) = from(j) => i = j
  BY <1>2, <1>4
<1> HIDE DEF from
<1>7. OneNewest'
  BY <1>5, <1>6 DEF OneNewest
<1>8. /\ rows' \in (0..world) \cup {NoRows} /\ attach' \in 0..world /\ fastOld' \in BOOLEAN
      /\ fastTicks' \in Nat
      /\ Lanes!PushOwnsAttach => attach' \in {attach, pushed}
      /\ ~fetches[k].newest => rows' = rows
      /\ fetches[k].newest => fastTicks' > 0
  <2>1. CASE fetches[k].newest /\ fetches[k].saw # NoRows
    <3>1. fetches[k].saw \in 0..world
      BY <1>1, <1>2, <2>1 DEF Fetches
    <3>2. /\ fastOld' = FALSE /\ rows' = fetches[k].saw /\ fastTicks' = fastTicks + 1
          /\ attach' = IF Lanes!PushOwnsAttach THEN pushed ELSE fetches[k].saw
      BY <1>1, <2>1 DEF Lanes!ApplyFast
    <3>3. pushed \in 0..world /\ fastTicks' \in Nat /\ fastTicks' > 0
      BY <3>2 DEF Lanes!TypeOK
    <3>4. attach' \in 0..world /\ (Lanes!PushOwnsAttach => attach' = pushed)
      BY <3>1, <3>2, <3>3, Zenon
    <3>5. QED BY <2>1, <3>1, <3>2, <3>3, <3>4
  <2>2. CASE fetches[k].newest /\ fetches[k].saw = NoRows
    BY <1>1, <2>2 DEF Lanes!ApplyFast, Lanes!TypeOK
  <2>3. CASE ~fetches[k].newest
    BY <1>1, <2>3 DEF Lanes!TypeOK
  <2>4. QED BY <2>1, <2>2, <2>3
<1>9. RowsBehind'
  <2>1. CASE fetches[k].newest
    <3>1. \A j \in DOMAIN fetches' : ~fetches'[j].newest
      BY <1>5, <2>1 DEF OneNewest
    <3>2. QED BY <3>1 DEF RowsBehind
  <2>2. CASE ~fetches[k].newest
    BY <1>1, <1>5, <1>8, <2>2 DEF RowsBehind
  <2>3. QED BY <2>1, <2>2
<1>10. FramesInOrder' /\ Owned'
  BY <1>1, <1>8 DEF FramesInOrder, Owned, Lanes!PushOwnsAttach, Lanes!SubLive
<1>11. fastTicks' > 0 \/ \E j \in DOMAIN fetches' : fetches'[j].newest
  <2>1. CASE fetches[k].newest
    BY <1>8, <2>1
  <2>2. CASE ~fetches[k].newest
    <3>1. CASE fastTicks > 0
      BY <1>1, <2>2, <3>1
    <3>2. CASE ~(fastTicks > 0)
      <4>1. PICK m \in DOMAIN fetches : fetches[m].newest
        BY <3>2 DEF Lanes!TypeOK
      <4> DEFINE j == IF m < k THEN m ELSE m - 1
      <4>2. m # k
        BY <2>2, <4>1
      <4>3. j \in DOMAIN fetches' /\ fetches'[j] = fetches[m]
        BY <1>2, <1>3, <1>4, <4>2
      <4>4. QED BY <4>1, <4>3
    <3>3. QED BY <3>1, <3>2
  <2>3. QED BY <2>1, <2>2
<1>12. Lanes!TypeOK'
  <2>1. Len(fetches') <= MaxFetches
    BY <1>2, <1>3 DEF Lanes!TypeOK
  <2>2. QED BY <1>1, <1>3, <1>8, <1>11, <2>1 DEF Lanes!TypeOK, Fetches, Lanes!Versions
<1>13. QED BY <1>7, <1>9, <1>10, <1>12

\* Reads of the state dir, and what gets old.
LEMMA RestStep ==
  ASSUME LanesInv,
         \/ \E k \in DOMAIN hookReads : Lanes!HookRuns(k) \/ Lanes!HookLands(k)
         \/ Lanes!PushAges \/ Lanes!FastAges
  PROVE  LanesInv'
<1> USE DEF LanesInv, Lanes!stream, Lanes!shown, Lanes!poll
<1>1. /\ UNCHANGED <<backend, world, events, socket, wire, pushed, rows, attach, fastTicks, fetches>>
      /\ push' \in {push, "stale"} /\ fastOld' \in {fastOld, TRUE}
  BY DEF Lanes!HookRuns, Lanes!HookLands, Lanes!PushAges, Lanes!FastAges
<1>2. /\ hookReads' \in Seq((0..world) \cup {Unread}) /\ Len(hookReads') <= MaxFetches
      /\ hooks' \in 0..world
  <2>1. /\ hookReads \in Seq((0..world) \cup {Unread}) /\ DOMAIN hookReads = 1 .. Len(hookReads)
        /\ Len(hookReads) \in Nat /\ world \in Nat /\ MaxFetches \in Nat /\ Len(hookReads) <= MaxFetches
    BY LanesTypes DEF Lanes!TypeOK
  <2>2. ASSUME NEW k \in DOMAIN hookReads, Lanes!HookRuns(k) PROVE <1>2
    <3>1. hookReads' = [hookReads EXCEPT ![k] = world] /\ hooks' = hooks
      BY <2>2 DEF Lanes!HookRuns
    <3>2. world \in (0..world) \cup {Unread} /\ k \in 1 .. Len(hookReads)
      BY <2>1
    <3>3. hookReads' \in Seq((0..world) \cup {Unread}) /\ Len(hookReads') = Len(hookReads)
      BY <2>1, <3>1, <3>2, ExceptSeq
    <3>4. QED BY <2>1, <3>1, <3>3 DEF Lanes!TypeOK
  <2>3. ASSUME NEW k \in DOMAIN hookReads, Lanes!HookLands(k) PROVE <1>2
    <3>1. hookReads[k] # Unread /\ hookReads' = Lanes!SX!RemoveAt(hookReads, k) /\ hooks' = hookReads[k]
      BY <2>3 DEF Lanes!HookLands
    <3>2. hookReads' \in Seq((0..world) \cup {Unread}) /\ Len(hookReads') = Len(hookReads) - 1
      BY <2>1, <3>1, Removed
    <3>3. hookReads[k] \in (0..world) \cup {Unread}
      BY <2>1, ElementOfSeq
    <3>4. QED BY <2>1, <3>1, <3>2, <3>3
  <2>4. CASE Lanes!PushAges \/ Lanes!FastAges
    BY <2>1, <2>4 DEF Lanes!PushAges, Lanes!FastAges, Lanes!TypeOK
  <2>5. QED BY <2>2, <2>3, <2>4
<1>3. Lanes!TypeOK'
  BY <1>1, <1>2 DEF Lanes!TypeOK, Lanes!Versions
<1>4. OneNewest' /\ RowsBehind' /\ FramesInOrder' /\ Owned'
  BY <1>1 DEF OneNewest, RowsBehind, FramesInOrder, Owned, Lanes!PushOwnsAttach, Lanes!SubLive
<1>5. QED BY <1>3, <1>4

\* Every step of the lanes preserves the invariant.
LEMMA LanesStepKeeps == LanesInv /\ [Lanes!Next]_laneVars => LanesInv'
<1> SUFFICES ASSUME LanesInv, [Lanes!Next]_laneVars PROVE LanesInv'
  OBVIOUS
<1>1. CASE Lanes!Next
  BY <1>1, BackendStep, LoopStep, TickStep, AnswerStep, FetchStep, RestStep
  DEF Lanes!Next, Lanes!Requests
<1>2. CASE UNCHANGED laneVars
  BY <1>2 DEF laneVars, LanesInv, Lanes!TypeOK, OneNewest, RowsBehind, FramesInOrder, Owned,
       Lanes!PushOwnsAttach, Lanes!SubLive, Lanes!Versions
<1>3. QED BY <1>1, <1>2

-----------------------------------------------------------------------------
(* What is on screen never goes back.                                      *)

\* A step that shows other rows or other flags shows newer ones.
LEMMA ScreenForward == LanesInv /\ [Lanes!Next]_laneVars => [Lanes!Forward]_laneVars
<1> SUFFICES ASSUME LanesInv, Lanes!Next PROVE Lanes!Forward
  BY DEF Lanes!Forward
<1> USE DEF LanesInv, Lanes!shown
<1>1. ASSUME NEW k \in DOMAIN fetches, Lanes!FetchLands(k) PROVE Lanes!Forward
  <2>1. /\ fetches[k].saw # Unread /\ UNCHANGED <<backend, push, pushed>>
        /\ IF fetches[k].newest THEN Lanes!ApplyFast(fetches[k].saw) ELSE UNCHANGED <<rows, attach>>
    BY <1>1 DEF Lanes!FetchLands, Lanes!stream
  <2>2. backend = "supergraph" /\ NoRows \notin {rows, rows'} => rows' >= rows
    <3>1. CASE rows' = rows
      BY <3>1, LanesTypes DEF Lanes!TypeOK
    <3>2. CASE rows' # rows
      BY <2>1, <3>2 DEF Lanes!ApplyFast, RowsBehind
    <3>3. QED BY <3>1, <3>2
  <2>3. Lanes!PushOwnsAttach => attach' >= attach
    <3>1. Lanes!PushOwnsAttach => attach' = attach
      BY <2>1 DEF Lanes!ApplyFast, Owned
    <3>2. QED BY <3>1, LanesTypes
  <2>4. QED BY <2>2, <2>3 DEF Lanes!Forward
<1>2. CASE Lanes!SnapshotLands
  <2>1. /\ backend = "daemon" /\ wire # <<>> /\ Head(wire) # Down /\ attach' = Head(wire)
    BY <1>2 DEF Lanes!SnapshotLands
  <2>2. wire \in Seq(Frames(world)) /\ DOMAIN wire = 1 .. Len(wire)
    BY LanesTypes
  <2>3. Head(wire) = wire[1] /\ 1 \in DOMAIN wire
    BY <2>1, <2>2, HeadTailProperties, LanesTypes
  <2>4. Head(wire) >= pushed
    BY <2>1, <2>3 DEF FramesInOrder
  <2>5. QED BY <2>1, <2>4 DEF Lanes!Forward, Owned
<1>3. CASE UNCHANGED <<rows, attach>>
  BY <1>3, LanesTypes DEF Lanes!Forward, Lanes!TypeOK
<1>4. \/ UNCHANGED <<rows, attach>> \/ Lanes!SnapshotLands
      \/ \E k \in DOMAIN fetches : Lanes!FetchLands(k)
  BY DEF Lanes!Next, Lanes!Change, Lanes!Dial, Lanes!Push, Lanes!Drop, Lanes!Loop, Lanes!SubFails,
     Lanes!EventLands, Lanes!Requests, Lanes!FetchRuns, Lanes!HookRuns, Lanes!HookLands,
     Lanes!FastTick, Lanes!PushAges, Lanes!FastAges
<1>5. QED BY <1>1, <1>2, <1>3, <1>4

-----------------------------------------------------------------------------
(* The two together.                                                       *)

\* The invariants of both.
SidebarInv == IInv /\ LanesInv

\* Both start as they do alone.
LEMMA SidebarInit == MCInit => SidebarInv
  BY InitEstablishes, LanesInit DEF MCInit, SidebarInv

\* A step of one leaves the other at rest.
LEMMA SidebarStep ==
  SidebarInv /\ [MCNext]_<<part, vars, laneVars>>
    => SidebarInv' /\ [Lanes!Forward]_laneVars
<1> SUFFICES ASSUME SidebarInv, [MCNext]_<<part, vars, laneVars>>
             PROVE  SidebarInv' /\ [Lanes!Forward]_laneVars
  OBVIOUS
<1>1. [Next]_vars /\ [Lanes!Next]_laneVars
  BY DEF MCNext
<1>2. QED BY <1>1, NextKeeps, LanesStepKeeps, ScreenForward DEF SidebarInv

\* Both invariants hold in every state of the sidebar.
THEOREM SidebarInvariance == MCSpec => []SidebarInv
<1>1. SidebarInv /\ [MCNext]_<<part, vars, laneVars>> => SidebarInv'
  BY SidebarStep
<1>2. QED BY <1>1, SidebarInit, PTL DEF MCSpec

\* Both keep to their types; above all, the fast poll never dies: there is
\* always a timer, or the newest fetch whose answer arms the next (fastDataMsg).
THEOREM SidebarTypeCorrect == MCSpec => []AllTypeOK
<1>1. SidebarInv => AllTypeOK
  BY DEF SidebarInv, IInv, LanesInv, AllTypeOK
<1>2. QED BY <1>1, SidebarInvariance, PTL

\* Whatever order requests land in, however many are under way, the rows of a
\* supergraph backend and the flags of a live push lane never go back (apply.go).
THEOREM SidebarNewestWins == MCSpec => NewestWins
<1>1. SidebarInv /\ [MCNext]_<<part, vars, laneVars>> => [Lanes!Forward]_laneVars
  BY SidebarStep
<1>2. QED BY <1>1, SidebarInvariance, PTL DEF MCSpec, NewestWins

\* A stale read of the client never moves the bar, beside the lanes
\* (selectRow, main.go).
THEOREM SidebarIgnoresStale == MCSpec => StaleReadIgnored
<1>1. SidebarInv /\ [MCNext]_<<part, vars, laneVars>>
        => [\A r \in reads \ reads' : r.saw # Unread /\ r.at < last => bar' = bar]_vars
  <2>1. SUFFICES ASSUME SidebarInv, [MCNext]_<<part, vars, laneVars>>
                 PROVE  [\A r \in reads \ reads' : r.saw # Unread /\ r.at < last => bar' = bar]_vars
    OBVIOUS
  <2>2. [Next]_vars
    BY <2>1 DEF MCNext
  <2>3. QED BY <2>1, <2>2, OvertakenKeepsBar DEF SidebarInv
<1>2. QED BY <1>1, SidebarInvariance, PTL DEF MCSpec, StaleReadIgnored
=============================================================================
