---------------------------- MODULE EventLogProofs ----------------------------
(***************************************************************************)
(* The event log and its tailer, for any writers, sizes and numbers of     *)
(* lines and files: however writers rotate the file under the tailer, what *)
(* it returns is in order and without repetition, and what its offset has  *)
(* passed was returned.  The argument is about files first (the halves of  *)
(* a line stay together, lines are in order, none is ahead of the count),  *)
(* then about the tailer (what it told is behind whatever it may yet read) *)
(* and the two meet in a read.  At the end, the instance the runs check:   *)
(* the three files side by side.                                           *)
(***************************************************************************)
EXTENDS MCLocalFiles, LocalFilesProofs, FiniteSetTheorems, SequenceTheorems, TLAPS

-----------------------------------------------------------------------------
(* What a read takes.                                                      *)

\* The members of a finite set of positions, in order.
Rank(W, i) == Cardinality({j \in W : j <= i})
Nth(W, k) == CHOOSE i \in W : Rank(W, i) = k

\* Counting by rank goes through all of them, from the first to the last: the
\* rank of a member is one to one, and so onto.
LEMMA InOrder ==
  ASSUME NEW n \in Nat, NEW W \in SUBSET (1..n)
  PROVE  /\ IsFiniteSet(W) /\ Cardinality(W) \in Nat
         /\ \A k \in 1..Cardinality(W) : Nth(W, k) \in W /\ Rank(W, Nth(W, k)) = k
         /\ \A k, l \in 1..Cardinality(W) : k < l => Nth(W, k) < Nth(W, l)
         /\ \A i \in W : \E k \in 1..Cardinality(W) : Nth(W, k) = i
<1> DEFINE upto(i) == {j \in W : j <= i}
           r == [i \in W |-> Rank(W, i)]
           c == Cardinality(W)
<1>0. \A i \in W : i \in Nat
  OBVIOUS
<1>1. IsFiniteSet(W) /\ c \in Nat
  <2>1. IsFiniteSet(1..n)
    BY FS_Interval
  <2>2. QED BY <2>1, FS_Subset, FS_CardinalityType
<1>2. ASSUME NEW i \in W
      PROVE  IsFiniteSet(upto(i)) /\ Rank(W, i) \in 1..c
  <2>1. IsFiniteSet(upto(i)) /\ Cardinality(upto(i)) \in Nat /\ Cardinality(upto(i)) <= c
    BY <1>1, FS_Subset, FS_CardinalityType
  <2>2. upto(i) # {}
    OBVIOUS
  <2>3. Cardinality(upto(i)) # 0
    BY <2>1, <2>2, FS_EmptySet
  <2>4. QED BY <2>1, <2>3 DEF Rank
<1>3. ASSUME NEW i \in W, NEW j \in W, i < j
      PROVE  Rank(W, i) < Rank(W, j)
  <2>1. upto(i) \subseteq upto(j) /\ j \in upto(j) /\ j \notin upto(i)
    <3>1. i \in Nat /\ j \in Nat /\ ~(j <= i) /\ j <= j
      BY <1>0, <1>3
    <3>2. \A m \in W : m <= i => m <= j
      BY <1>0, <1>3, <3>1
    <3>3. QED BY <3>1, <3>2
  <2>2. /\ Cardinality(upto(i)) \in Nat /\ Cardinality(upto(j)) \in Nat
        /\ Cardinality(upto(i)) <= Cardinality(upto(j))
        /\ Cardinality(upto(i)) # Cardinality(upto(j))
    BY <1>2, <2>1, FS_Subset, FS_CardinalityType
  <2>3. QED BY <2>2 DEF Rank
<1>4. \A i, j \in W : Rank(W, i) = Rank(W, j) => i = j
  <2>1. ASSUME NEW i \in W, NEW j \in W, Rank(W, i) = Rank(W, j) PROVE i = j
    <3>1. Rank(W, i) \in Nat /\ Rank(W, j) \in Nat
      <4>1. Rank(W, i) \in 1..c /\ Rank(W, j) \in 1..c
        BY <1>2, Zenon
      <4>2. QED BY <4>1
    <3>2. ~(i < j) /\ ~(j < i)
      <4>1. i < j => Rank(W, i) < Rank(W, j)
        BY <1>3
      <4>2. j < i => Rank(W, j) < Rank(W, i)
        BY <1>3
      <4>3. QED BY <2>1, <3>1, <4>1, <4>2
    <3>3. QED BY <1>0, <3>2
  <2>2. QED BY <2>1
<1>5. r \in Injection(W, 1..c)
  BY <1>2, <1>4 DEF Injection, IsInjective
<1>6. IsFiniteSet(1..c) /\ Cardinality(1..c) = c
  BY <1>1, FS_Interval
<1>7. r \in Surjection(W, 1..c)
  BY <1>1, <1>5, <1>6, FS_Injection
<1>8. \A k \in 1..c : \E i \in W : Rank(W, i) = k
  BY <1>7 DEF Surjection
<1>9. ASSUME NEW k \in 1..c PROVE Nth(W, k) \in W /\ Rank(W, Nth(W, k)) = k
  BY <1>8 DEF Nth
<1>10. ASSUME NEW k \in 1..c, NEW l \in 1..c, k < l PROVE Nth(W, k) < Nth(W, l)
  <2>1. /\ Nth(W, k) \in W /\ Nth(W, l) \in W
        /\ Rank(W, Nth(W, k)) = k /\ Rank(W, Nth(W, l)) = l
    BY <1>9
  <2>2. ~(Nth(W, l) < Nth(W, k))
    <3>1. Nth(W, l) < Nth(W, k) => l < k
      BY <1>3, <2>1
    <3>2. QED BY <1>10, <3>1
  <2>3. Nth(W, l) # Nth(W, k)
    BY <1>10, <2>1
  <2>4. Nth(W, k) \in Nat /\ Nth(W, l) \in Nat
    BY <1>0, <2>1
  <2>5. QED BY <2>2, <2>3, <2>4
<1>11. ASSUME NEW i \in W PROVE \E k \in 1..c : Nth(W, k) = i
  BY <1>2, <1>4, <1>9
<1>12. QED BY <1>1, <1>9, <1>10, <1>11

\* A finite set of positions that is not empty has a last one.
LEMMA HasLast ==
  ASSUME NEW n \in Nat, NEW W \in SUBSET (1..n), W # {}
  PROVE  \E i \in W : \A j \in W : j <= i
<1> DEFINE c == Cardinality(W)
           i == Nth(W, c)
<1>0. /\ IsFiniteSet(W) /\ c \in Nat
      /\ \A k \in 1..c : Nth(W, k) \in W
      /\ \A k, l \in 1..c : k < l => Nth(W, k) < Nth(W, l)
      /\ \A j \in W : \E k \in 1..c : Nth(W, k) = j
  BY InOrder
<1>1. c \in Nat /\ c # 0 /\ c \in 1..c
  BY <1>0, FS_EmptySet
<1>2. i \in W
  BY <1>0, <1>1
<1>3. ASSUME NEW j \in W PROVE j <= i
  <2>1. PICK k \in 1..c : Nth(W, k) = j
    BY <1>0
  <2>2. k = c \/ k < c
    BY <1>1
  <2>3. k < c => Nth(W, k) < Nth(W, c)
    BY <1>0, <1>1
  <2>4. i \in 1..n /\ j \in 1..n
    BY <1>2
  <2>5. QED BY <2>1, <2>2, <2>3, <2>4
<1>4. QED BY <1>2, <1>3

\* A function on 1..n is a sequence.
LEMMA FunctionIsSeq ==
  ASSUME NEW n \in Nat, NEW S, NEW f \in [1..n -> S]
  PROVE  f \in Seq(S) /\ Len(f) = n
  OBVIOUS

\* Taken: everything up to the last newline, or nothing.
LEMMA TakenIs ==
  ASSUME NEW chunk \in Seq(EventLog!Cells)
  PROVE  LET n == EventLog!Taken(chunk)
         IN n \in 0..Len(chunk) /\ (n # 0 => chunk[n].nl)
<1> DEFINE ends == {i \in DOMAIN chunk : chunk[i].nl}
           last(i) == \A j \in ends : j <= i
<1>1. Len(chunk) \in Nat /\ DOMAIN chunk = 1..Len(chunk) /\ ends \in SUBSET (1..Len(chunk))
  BY LenProperties
<1>2. CASE ends = {}
  <2>1. EventLog!Taken(chunk) = 0
    BY <1>2 DEF EventLog!Taken
  <2>2. QED BY <1>1, <2>1
<1>3. CASE ends # {}
  <2>1. \E i \in ends : last(i)
    BY <1>1, <1>3, HasLast
  <2>2. EventLog!Taken(chunk) = CHOOSE i \in ends : last(i)
    BY <1>3 DEF EventLog!Taken
  <2>3. EventLog!Taken(chunk) \in ends
    BY <2>1, <2>2
  <2>4. QED BY <1>1, <2>3
<1>4. QED BY <1>2, <1>3

\* A webhook line that lies in a chunk with both its halves.
WholeIn(chunk, i) ==
  /\ i \in DOMAIN chunk /\ chunk[i].nl /\ chunk[i].line # 0
  /\ i > 1 /\ chunk[i - 1].line = chunk[i].line

\* Parsed: those lines and no others, in their order.
LEMMA ParsedIs ==
  ASSUME NEW chunk \in Seq(EventLog!Cells)
  PROVE  LET p == EventLog!Parsed(chunk)
         IN /\ p \in Seq(1..MaxLines)
            /\ \A k \in DOMAIN p : \E i : WholeIn(chunk, i) /\ p[k] = chunk[i].line
            /\ \A k, l \in DOMAIN p : k < l =>
                 \E i, j : /\ WholeIn(chunk, i) /\ WholeIn(chunk, j) /\ i < j
                           /\ p[k] = chunk[i].line /\ p[l] = chunk[j].line
            /\ \A i : WholeIn(chunk, i) => \E k \in DOMAIN p : p[k] = chunk[i].line
<1> DEFINE whole == {i \in DOMAIN chunk : /\ chunk[i].nl /\ chunk[i].line # 0
                                          /\ i > 1 /\ chunk[i - 1].line = chunk[i].line}
           c == Cardinality(whole)
           p == EventLog!Parsed(chunk)
<1>1. /\ Len(chunk) \in Nat /\ DOMAIN chunk = 1..Len(chunk)
      /\ whole \in SUBSET (1..Len(chunk))
      /\ \A i \in DOMAIN chunk : chunk[i] \in EventLog!Cells
  BY LenProperties
<1>2. \A i : i \in whole <=> WholeIn(chunk, i)
  BY DEF WholeIn
<1>3. p = [k \in 1..c |-> chunk[Nth(whole, k)].line]
  BY DEF EventLog!Parsed, EventLog!Cardinality, Cardinality, Nth, Rank
<1> HIDE DEF whole, p
<1>4. /\ c \in Nat
      /\ \A k \in 1..c : Nth(whole, k) \in whole
      /\ \A k, l \in 1..c : k < l => Nth(whole, k) < Nth(whole, l)
      /\ \A i \in whole : \E k \in 1..c : Nth(whole, k) = i
  BY <1>1, InOrder
<1>5. ASSUME NEW i \in whole PROVE chunk[i].line \in 1..MaxLines
  <2>1. chunk[i].line \in 0..MaxLines /\ chunk[i].line # 0
    BY <1>1, <1>2 DEF WholeIn, EventLog!Cells
  <2>2. QED BY <2>1
<1>6. p \in [1..c -> 1..MaxLines] /\ DOMAIN p = 1..c
  BY <1>3, <1>4, <1>5
<1>7. p \in Seq(1..MaxLines)
  BY <1>4, <1>6, FunctionIsSeq
<1>8. QED BY <1>2, <1>3, <1>4, <1>6, <1>7 DEF p

\* What a read of the file in hand takes: its cells from the offset on, up to a
\* newline.
LEMMA ChunkIs ==
  ASSUME gen \in EventLog!Gens, text[gen] \in Seq(EventLog!Cells), offset \in Nat
  PROVE  LET t == text[gen]
             n == EventLog!Taken(EventLog!Chunk)
             c == SubSeq(EventLog!Chunk, 1, n)
         IN /\ n \in Nat /\ c \in Seq(EventLog!Cells) /\ Len(c) = n /\ DOMAIN c = 1..n
            /\ n # 0 => offset + n \in DOMAIN t /\ offset + n <= Len(t) /\ t[offset + n].nl
            /\ \A i \in 1..n : offset + i \in DOMAIN t /\ c[i] = t[offset + i]
<1> DEFINE t == text[gen]
           chunk == EventLog!Chunk
           n == EventLog!Taken(chunk)
           c == SubSeq(chunk, 1, n)
<1>1. gen # 0 /\ EventLog!Size = Len(t) /\ Len(t) \in Nat /\ DOMAIN t = 1..Len(t)
  BY LenProperties DEF EventLog!Size, EventLog!Gens
<1>2. chunk = SubSeq(t, offset + 1, Len(t))
  BY <1>1 DEF EventLog!Chunk
<1>3. /\ chunk \in Seq(EventLog!Cells)
      /\ Len(chunk) = IF offset + 1 <= Len(t) THEN Len(t) - offset ELSE 0
      /\ \A i \in 1..(Len(t) - offset) : chunk[i] = t[offset + i]
  <2>1. \A i \in (offset + 1)..Len(t) : t[i] \in EventLog!Cells
    BY <1>1, LenProperties
  <2>2. offset + 1 \in Int /\ Len(t) \in Int
    BY <1>1
  <2>3. /\ SubSeq(t, offset + 1, Len(t)) \in Seq(EventLog!Cells)
        /\ Len(SubSeq(t, offset + 1, Len(t))) = IF offset + 1 <= Len(t) THEN Len(t) - (offset + 1) + 1 ELSE 0
        /\ \A i \in 1..(Len(t) - (offset + 1) + 1) :
             SubSeq(t, offset + 1, Len(t))[i] = t[(offset + 1) + i - 1]
    BY <2>1, <2>2, SubSeqProperties
  <2>4. Len(t) - (offset + 1) + 1 = Len(t) - offset
    BY <1>1
  <2>5. ASSUME NEW i \in 1..(Len(t) - offset) PROVE chunk[i] = t[offset + i]
    <3>1. (offset + 1) + i - 1 = offset + i
      BY <1>1
    <3>2. SubSeq(t, offset + 1, Len(t))[i] = t[(offset + 1) + i - 1]
      BY <2>3, <2>4
    <3>3. QED BY <1>2, <3>1, <3>2
  <2>6. QED BY <1>2, <2>3, <2>4, <2>5
<1> HIDE DEF chunk
<1>4. n \in 0..Len(chunk) /\ (n # 0 => chunk[n].nl)
  BY <1>3, TakenIs
<1>5. /\ c \in Seq(EventLog!Cells) /\ Len(c) = n /\ n \in Nat
      /\ \A i \in 1..n : c[i] = chunk[i]
  <2>1. DOMAIN chunk = 1..Len(chunk) /\ Len(chunk) \in Nat
        /\ \A i \in 1..Len(chunk) : chunk[i] \in EventLog!Cells
    BY <1>3, LenProperties
  <2>2. n \in Nat /\ n <= Len(chunk)
    BY <1>4, <2>1
  <2> HIDE DEF n
  <2>3. /\ c \in Seq(EventLog!Cells) /\ Len(c) = IF 1 <= n THEN n - 1 + 1 ELSE 0
        /\ \A i \in 1..(n - 1 + 1) : c[i] = chunk[1 + i - 1]
    BY <2>1, <2>2, SubSeqProperties
  <2>4. QED BY <2>2, <2>3
<1>6. DOMAIN c = 1..n
  BY <1>5, LenProperties
<1> HIDE DEF n, c
<1>7. n <= Len(t) - offset \/ n = 0
  BY <1>1, <1>3, <1>4, <1>5
<1>8. \A i \in 1..n : offset + i \in DOMAIN t /\ c[i] = t[offset + i]
  <2>1. ASSUME NEW i \in 1..n PROVE i \in 1..(Len(t) - offset) /\ offset + i \in 1..Len(t)
    BY <1>1, <1>5, <1>7
  <2>2. QED BY <1>1, <1>3, <1>5, <2>1
<1>9. n # 0 => offset + n \in DOMAIN t /\ offset + n <= Len(t) /\ t[offset + n].nl
  BY <1>1, <1>3, <1>4, <1>5, <1>7
<1>10. QED BY <1>5, <1>6, <1>8, <1>9 DEF n, c, chunk

-----------------------------------------------------------------------------
(* The invariant: the files and their writers.                             *)

Half(g) == pen[EventLog!Hook] = "half" /\ fd[EventLog!Hook] = g

\* A writer that is writing has a file open; only the receiver writes halves,
\* and the line it has begun, or is about to, is counted.
Pens ==
  /\ \A w \in EventLog!Writers :
       /\ IF pen[w] \in {"write", "half"} THEN fd[w] \in EventLog!Gens ELSE fd[w] = 0
       /\ pen[w] = "half" => w = EventLog!Hook
  /\ lines.webhook <= lines.all
  /\ pen[EventLog!Hook] \in {"rotate", "open", "write"} => lines.webhook < lines.all

\* A file that ends in half a line is the one the receiver is writing to.
Halves ==
  \A g \in EventLog!Gens : LET q == text[g] IN
    /\ q # <<>> /\ ~q[Len(q)].nl => Half(g)
    /\ Half(g) => q # <<>> /\ q[Len(q)] = [line |-> lines.webhook, nl |-> FALSE]

\* The halves of a line are next to each other, and lines in the order of
\* their numbers.
Paired(q) ==
  \A i \in DOMAIN q :
    /\ q[i].nl /\ q[i].line # 0 => i > 1 /\ q[i - 1].line = q[i].line
    /\ ~q[i].nl /\ i < Len(q) => q[i + 1].nl /\ q[i + 1].line = q[i].line

Increasing(q) ==
  \A i, j \in DOMAIN q :
    i < j /\ q[i].nl /\ q[j].nl /\ 0 \notin {q[i].line, q[j].line} => q[i].line < q[j].line

\* No number is ahead of the count, and none that is complete is the one that
\* is being written.
Counted(q, m, half) ==
  \A i \in DOMAIN q : q[i].line <= m /\ (q[i].nl /\ q[i].line # 0 /\ half => q[i].line < m)

Files ==
  \A g \in EventLog!Gens :
    /\ Paired(text[g]) /\ Increasing(text[g])
    /\ Counted(text[g], lines.webhook, pen[EventLog!Hook] = "half")

LogInv == EventLog!TypeOK /\ Pens /\ Halves /\ Files

\* A cell at the end of a file.
LEMMA AppendCell ==
  ASSUME NEW q \in Seq(EventLog!Cells), NEW cell \in EventLog!Cells, NEW m \in Nat, NEW half \in BOOLEAN,
         Paired(q), Increasing(q), Counted(q, m, half), cell.line <= m, ~(cell.nl /\ cell.line # 0 /\ half),
         q # <<>> /\ ~q[Len(q)].nl => cell.nl /\ cell.line = q[Len(q)].line,
         cell.nl /\ cell.line # 0 =>
           /\ q # <<>> /\ q[Len(q)].line = cell.line
           /\ \A i \in DOMAIN q : q[i].nl => q[i].line < cell.line
  PROVE  LET r == Append(q, cell)
         IN /\ r \in Seq(EventLog!Cells) /\ Len(r) = Len(q) + 1 /\ DOMAIN r = 1..Len(q) + 1
            /\ r[Len(r)] = cell /\ \A i \in DOMAIN q : i \in DOMAIN r /\ r[i] = q[i]
            /\ Paired(r) /\ Increasing(r) /\ Counted(r, m, half)
<1> DEFINE r == Append(q, cell)
           n == Len(q)
<1>1. n \in Nat /\ DOMAIN q = 1..n /\ \A i \in DOMAIN q : q[i] \in EventLog!Cells
  BY LenProperties
<1>2. /\ r \in Seq(EventLog!Cells) /\ Len(r) = n + 1
      /\ r[n + 1] = cell /\ \A i \in 1..n : r[i] = q[i]
  BY AppendProperties
<1>3. DOMAIN r = 1..n + 1
  BY <1>2, LenProperties
<1>0. \A i \in 1..n : i < n \/ i = n
  <2>1. n \in Nat
    BY <1>1
  <2> HIDE DEF n
  <2>2. QED BY <2>1
<1> HIDE DEF r
<1>4. Paired(r)
  <2>1. ASSUME NEW i \in 1..n PROVE Paired(r)!(i)
    <3>1. r[i] = q[i] /\ (i > 1 => r[i - 1] = q[i - 1]) /\ i \in DOMAIN q
      BY <1>1, <1>2
    <3>2. i < n => r[i + 1] = q[i + 1]
      BY <1>1, <1>2
    <3>3. q[i].nl /\ q[i].line # 0 => i > 1 /\ q[i - 1].line = q[i].line
      BY <3>1 DEF Paired
    <3>4. ~q[i].nl /\ i < n => q[i + 1].nl /\ q[i + 1].line = q[i].line
      BY <3>1 DEF Paired
    <3>5. i = n => q # <<>> /\ r[i + 1] = cell
      BY <1>1, <1>2
    <3>6. i < n \/ i = n
      BY <1>0
    <3>7. QED BY <3>1, <3>2, <3>3, <3>4, <3>5, <3>6
  <2>2. Paired(r)!(n + 1)
    <3>1. n # 0 => q # <<>> /\ r[n] = q[n]
      BY <1>1, <1>2
    <3>2. q # <<>> => n # 0
      BY EmptySeq
    <3>3. QED BY <1>1, <1>2, <3>1, <3>2
  <2>3. QED BY <1>1, <1>3, <2>1, <2>2 DEF Paired
<1>5. Increasing(r)
  BY <1>1, <1>2, <1>3 DEF Increasing
<1>6. Counted(r, m, half)
  BY <1>1, <1>2, <1>3 DEF Counted
<1>7. QED BY <1>1, <1>2, <1>3, <1>4, <1>5, <1>6 DEF r

Created(g) == text[g] # <<>> \/ \E w \in EventLog!Writers : fd[w] = g

\* What the writers do to the files: nothing but append, to files that have not
\* gone; and only the end of a webhook line completes one.
Appended ==
  /\ \A g \in EventLog!Gens :
       /\ \A i \in DOMAIN text[g] : i \in DOMAIN text'[g] /\ text'[g][i] = text[g][i]
       /\ Len(text[g]) <= Len(text'[g])
       /\ Created(g) => Created(g)'
       /\ \A i \in DOMAIN text'[g] \ DOMAIN text[g] :
            text'[g][i].nl /\ text'[g][i].line # 0 =>
              text'[g][i].line = lines.webhook /\ pen[EventLog!Hook] = "half"
  /\ \/ gen' \in {gen, 0}
     \/ gen' \in EventLog!Gens /\ ~Created(gen') /\ text'[gen'] = <<>>
  /\ \A g \in EventLog!Gens : gen' = g => g = gen \/ Created(g)'
  /\ lines'.webhook \in Nat /\ lines.webhook <= lines'.webhook
  /\ pen'[EventLog!Hook] = "half" =>
       \/ lines'.webhook = lines.webhook + 1
       \/ pen[EventLog!Hook] = "half" /\ lines'.webhook = lines.webhook
  /\ UNCHANGED <<tail, offset, mtime, stat, told, book, passed>>

\* Facts about a state that has the types.
LEMMA LogTypes ==
  ASSUME EventLog!TypeOK
  PROVE  /\ MaxLines \in Nat /\ MaxGens \in Nat /\ 0 \notin EventLog!Gens
         /\ lines.webhook \in Nat /\ lines.all \in Nat /\ lines.all <= MaxLines
         /\ EventLog!Hook \in EventLog!Writers
         /\ \A g \in EventLog!Gens :
              /\ text[g] \in Seq(EventLog!Cells) /\ Len(text[g]) \in Nat
              /\ DOMAIN text[g] = 1..Len(text[g])
              /\ \A i \in DOMAIN text[g] : text[g][i] \in EventLog!Cells /\ text[g][i].line \in Nat
              /\ text[g] # <<>> => Len(text[g]) \in DOMAIN text[g]
<1>1. /\ MaxLines \in Nat /\ MaxGens \in Nat /\ 0 \notin EventLog!Gens
      /\ lines.webhook \in Nat /\ lines.all \in Nat /\ lines.all <= MaxLines
      /\ EventLog!Hook \in EventLog!Writers
  BY EventLogAssumption DEF EventLogAssumption, EventLog!TypeOK, EventLog!Gens, EventLog!Writers
<1>2. ASSUME NEW g \in EventLog!Gens
      PROVE  /\ text[g] \in Seq(EventLog!Cells) /\ Len(text[g]) \in Nat
             /\ DOMAIN text[g] = 1..Len(text[g])
             /\ \A i \in DOMAIN text[g] : text[g][i] \in EventLog!Cells /\ text[g][i].line \in Nat
             /\ text[g] # <<>> => Len(text[g]) \in DOMAIN text[g]
  <2>1. text[g] \in Seq(EventLog!Cells)
    BY DEF EventLog!TypeOK
  <2>2. /\ Len(text[g]) \in Nat /\ DOMAIN text[g] = 1..Len(text[g])
        /\ \A i \in DOMAIN text[g] : text[g][i] \in EventLog!Cells
    BY <2>1, LenProperties
  <2>3. \A i \in DOMAIN text[g] : text[g][i].line \in Nat
    BY <1>1, <2>2 DEF EventLog!Cells
  <2>4. text[g] # <<>> => Len(text[g]) # 0
    BY <2>1, EmptySeq
  <2>5. QED BY <2>1, <2>2, <2>3, <2>4
<1>3. QED BY <1>1, <1>2

\* A writer that looks, rotates or opens writes nothing.
LEMMA PenStep ==
  ASSUME LogInv, NEW w \in EventLog!Writers,
         EventLog!Check(w) \/ EventLog!Rotate(w) \/ EventLog!Open(w)
  PROVE  LogInv' /\ Appended
<1> USE DEF LogInv
<1>1. UNCHANGED <<text, tail, offset, mtime, stat, told, book, passed>>
  BY DEF EventLog!Check, EventLog!Rotate, EventLog!Open, EventLog!tailVars
<1>2. PICK from \in {"idle", "rotate", "open"}, to \in {"rotate", "open", "write"} :
        /\ pen[w] = from /\ pen' = [pen EXCEPT ![w] = to]
        /\ to = "write" <=> from = "open"
        /\ from = "idle" <=> EventLog!Check(w)
        /\ from = "open" <=> EventLog!Open(w)
        /\ from = "rotate" <=> EventLog!Rotate(w)
  BY DEF EventLog!Check, EventLog!Rotate, EventLog!Open, EventLog!Pen
<1>3. pen'[w] = to
  BY <1>2 DEF EventLog!TypeOK
<1>4. /\ lines' \in [webhook : 0..MaxLines, all : 0..MaxLines]
      /\ lines'.webhook = lines.webhook /\ lines.all <= lines'.all
      /\ from = "idle" => lines'.all = lines.all + 1
  <2>1. CASE from = "idle"
    <3>1. lines.all < MaxLines /\ lines' = [lines EXCEPT !.all = @ + 1]
      BY <1>2, <2>1 DEF EventLog!Check
    <3>2. lines \in [webhook : 0..MaxLines, all : 0..MaxLines]
      BY DEF EventLog!TypeOK
    <3>3. QED BY <3>1, <3>2, LogTypes
  <2>2. CASE from # "idle"
    <3>1. lines' = lines
      BY <1>2, <2>2 DEF EventLog!Rotate, EventLog!Open
    <3>2. QED BY <2>2, <3>1, LogTypes DEF EventLog!TypeOK
  <2>3. QED BY <2>1, <2>2
<1>5. /\ gen' \in {gen, 0} \/ (gen' \in EventLog!Gens /\ ~Created(gen'))
      /\ IF to = "write" THEN fd' = [fd EXCEPT ![w] = gen'] /\ gen' \in EventLog!Gens ELSE fd' = fd
      /\ gen' \in {gen, 0} \/ to = "write"
      /\ gen' \in 0..MaxGens
  <2>1. CASE from # "open"
    <3>1. gen' \in {gen, 0} /\ fd' = fd /\ to # "write"
      BY <1>2, <2>1 DEF EventLog!Check, EventLog!Rotate
    <3>2. gen \in 0..MaxGens /\ 0 \in 0..MaxGens
      BY LogTypes DEF EventLog!TypeOK
    <3>3. QED BY <3>1, <3>2
  <2>2. CASE from = "open"
    <3>1. \/ gen # 0 /\ gen' = gen
          \/ gen' \in EventLog!Gens /\ ~Created(gen')
      BY <1>2, <2>2 DEF EventLog!Open, EventLog!Unused, Created
    <3>2. gen' \in EventLog!Gens /\ gen' \in 0..MaxGens
      BY <3>1, LogTypes DEF EventLog!TypeOK, EventLog!Gens
    <3>3. fd' = [fd EXCEPT ![w] = gen']
      BY <1>2, <2>2 DEF EventLog!Open
    <3>4. to = "write"
      BY <1>2, <2>2
    <3>5. QED BY <3>1, <3>2, <3>3, <3>4
  <2>3. QED BY <2>1, <2>2
<1>6. /\ pen' \in [EventLog!Writers -> {"idle", "rotate", "open", "write", "half"}]
      /\ fd' \in [EventLog!Writers -> 0..MaxGens]
      /\ to = "write" => fd'[w] = gen'
      /\ \A v \in EventLog!Writers \ {w} : pen'[v] = pen[v] /\ fd'[v] = fd[v]
  BY <1>2, <1>5 DEF EventLog!TypeOK
<1>7. fd[w] = 0 /\ IF to = "write" THEN fd'[w] \in EventLog!Gens ELSE fd'[w] = 0
  BY <1>2, <1>5, <1>6 DEF Pens
<1>8. \A g : (Half(g)' <=> Half(g)) /\ (pen'[EventLog!Hook] = "half" <=> pen[EventLog!Hook] = "half")
  BY <1>2, <1>3, <1>6, LogTypes DEF Half
<1>9. EventLog!TypeOK'
  BY <1>1, <1>4, <1>5, <1>6 DEF EventLog!TypeOK, EventLog!Times
<1>10. Pens'
  <2>0. lines'.all \in Nat /\ lines.all \in Nat /\ lines.webhook \in Nat /\ lines.webhook <= lines.all
    BY <1>4, LogTypes DEF Pens
  <2>1. pen'[EventLog!Hook] \in {"rotate", "open", "write"} => lines'.webhook < lines'.all
    <3>1. CASE w = EventLog!Hook
      <4>1. from = "idle" \/ lines.webhook < lines.all
        BY <1>2, <3>1 DEF Pens
      <4>2. QED BY <1>4, <2>0, <4>1
    <3>2. CASE w # EventLog!Hook
      <4>1. pen'[EventLog!Hook] = pen[EventLog!Hook]
        BY <1>6, <3>2, LogTypes
      <4>2. QED BY <1>4, <2>0, <4>1 DEF Pens
    <3>3. QED BY <3>1, <3>2
  <2>2. lines'.webhook <= lines'.all
    BY <1>4, <2>0
  <2>3. \A v \in EventLog!Writers :
          /\ IF pen'[v] \in {"write", "half"} THEN fd'[v] \in EventLog!Gens ELSE fd'[v] = 0
          /\ pen'[v] = "half" => v = EventLog!Hook
    BY <1>2, <1>3, <1>6, <1>7 DEF Pens
  <2>4. QED BY <2>1, <2>2, <2>3 DEF Pens
<1>11. Halves' /\ Files'
  BY <1>1, <1>4, <1>8 DEF Halves, Files
<1>12. Appended
  <2>1. \A g \in EventLog!Gens : Created(g) => Created(g)'
    <3>1. 0 \notin EventLog!Gens
      BY LogTypes
    <3>2. \A g \in EventLog!Gens, v \in EventLog!Writers : fd[v] = g => fd'[v] = g
      BY <1>6, <1>7, <3>1
    <3>3. QED BY <1>1, <3>2 DEF Created
  <2>2. \A g \in EventLog!Gens : gen' = g => g = gen \/ Created(g)'
    <3>1. gen' \in {gen, 0} \/ fd'[w] = gen'
      BY <1>5, <1>6
    <3>2. 0 \notin EventLog!Gens
      BY LogTypes
    <3>3. QED BY <3>1, <3>2 DEF Created
  <2>3. gen' \in {gen, 0} \/ (gen' \in EventLog!Gens /\ ~Created(gen') /\ text'[gen'] = <<>>)
    BY <1>1, <1>5 DEF Created
  <2>4. \A g \in EventLog!Gens :
          /\ \A i \in DOMAIN text[g] : i \in DOMAIN text'[g] /\ text'[g][i] = text[g][i]
          /\ Len(text[g]) <= Len(text'[g])
          /\ DOMAIN text'[g] \ DOMAIN text[g] = {}
    BY <1>1, LogTypes
  <2>5. /\ lines'.webhook \in Nat /\ lines.webhook <= lines'.webhook
        /\ pen'[EventLog!Hook] = "half" => pen[EventLog!Hook] = "half" /\ lines'.webhook = lines.webhook
    BY <1>4, <1>8, LogTypes
  <2>6. QED BY <1>1, <2>1, <2>2, <2>3, <2>4, <2>5 DEF Appended
<1>13. QED BY <1>9, <1>10, <1>11, <1>12

\* Where the receiver is in its line decides what the count of the lines means,
\* and it cannot be left behind.
Recounted ==
  /\ lines' \in [webhook : 0..MaxLines, all : 0..MaxLines]
  /\ lines.webhook <= lines'.webhook
  /\ pen'[EventLog!Hook] = "half" =>
       \/ lines'.webhook = lines.webhook + 1
       \/ pen[EventLog!Hook] = "half" /\ lines'.webhook = lines.webhook

\* A file that grows by a cell.
LEMMA Grows ==
  ASSUME LogInv, NEW g \in EventLog!Gens, NEW cell \in EventLog!Cells, Recounted,
         text' = [text EXCEPT ![g] = Append(@, cell)],
         cell.line <= lines'.webhook, ~(cell.nl /\ cell.line # 0 /\ pen'[EventLog!Hook] = "half"),
         text[g] # <<>> /\ ~text[g][Len(text[g])].nl => cell.nl /\ cell.line = text[g][Len(text[g])].line,
         cell.nl /\ cell.line # 0 =>
           Half(g) /\ cell.line = lines.webhook
  PROVE  /\ text' \in [EventLog!Gens -> Seq(EventLog!Cells)]
         /\ Files'
         /\ \A h \in EventLog!Gens \ {g} : text'[h] = text[h]
         /\ text'[g] # <<>> /\ text'[g][Len(text'[g])] = cell
         /\ \A h \in EventLog!Gens :
              /\ \A i \in DOMAIN text[h] : i \in DOMAIN text'[h] /\ text'[h][i] = text[h][i]
              /\ Len(text[h]) <= Len(text'[h])
              /\ text[h] # <<>> => text'[h] # <<>>
              /\ \A i \in DOMAIN text'[h] \ DOMAIN text[h] : text'[h][i] = cell
<1> DEFINE q == text[g]
           half == pen'[EventLog!Hook] = "half"
           m == lines'.webhook
<1> USE DEF LogInv
<1>1. /\ q \in Seq(EventLog!Cells) /\ Len(q) \in Nat /\ DOMAIN q = 1..Len(q) /\ m \in Nat
      /\ lines.webhook \in Nat /\ half \in BOOLEAN
      /\ \A h \in EventLog!Gens : \A i \in DOMAIN text[h] : text[h][i].line \in Nat
  BY LogTypes DEF Recounted
<1>2. \A h \in EventLog!Gens : Counted(text[h], m, half)
  <2>1. ASSUME NEW h \in EventLog!Gens, NEW i \in DOMAIN text[h]
        PROVE  text[h][i].line <= m /\ (text[h][i].nl /\ text[h][i].line # 0 /\ half => text[h][i].line < m)
    <3>1. /\ text[h][i].line <= lines.webhook
          /\ text[h][i].nl /\ text[h][i].line # 0 /\ pen[EventLog!Hook] = "half" => text[h][i].line < lines.webhook
      BY DEF Files, Counted
    <3>2. QED BY <1>1, <3>1 DEF Recounted
  <2>2. QED BY <2>1 DEF Counted
<1>3. cell.nl /\ cell.line # 0 =>
        /\ q # <<>> /\ q[Len(q)].line = cell.line
        /\ \A i \in DOMAIN q : q[i].nl => q[i].line < cell.line
  <2>1. SUFFICES ASSUME cell.nl, cell.line # 0
                 PROVE  /\ q # <<>> /\ q[Len(q)].line = cell.line
                        /\ \A i \in DOMAIN q : q[i].nl => q[i].line < cell.line
    OBVIOUS
  <2>2. q # <<>> /\ q[Len(q)] = [line |-> lines.webhook, nl |-> FALSE]
    BY <2>1 DEF Halves
  <2>3. \A i \in DOMAIN q : q[i].nl => q[i].line = 0 \/ q[i].line < lines.webhook
    BY <2>1 DEF Files, Counted, Half
  <2>4. QED BY <1>1, <2>1, <2>2, <2>3
<1>4. Paired(q) /\ Increasing(q) /\ Counted(q, m, half)
  BY <1>2 DEF Files
<1> HIDE DEF half, m
<1>5. ~(cell.nl /\ cell.line # 0 /\ half) /\ cell.line <= m
  BY DEF half, m
<1>6. LET r == Append(q, cell)
      IN /\ r \in Seq(EventLog!Cells) /\ Len(r) = Len(q) + 1 /\ DOMAIN r = 1..Len(q) + 1
         /\ r[Len(r)] = cell /\ \A i \in DOMAIN q : i \in DOMAIN r /\ r[i] = q[i]
         /\ Paired(r) /\ Increasing(r) /\ Counted(r, m, half)
  BY <1>1, <1>3, <1>4, <1>5, AppendCell
<1>7. text \in [EventLog!Gens -> Seq(EventLog!Cells)]
  BY DEF EventLog!TypeOK
<1>8. text'[g] = Append(q, cell) /\ \A h \in EventLog!Gens \ {g} : text'[h] = text[h]
  BY <1>7
<1>9. text' \in [EventLog!Gens -> Seq(EventLog!Cells)]
  BY <1>6, <1>7
<1>10. Files'
  <2>1. ASSUME NEW h \in EventLog!Gens
        PROVE  Paired(text'[h]) /\ Increasing(text'[h]) /\ Counted(text'[h], m, half)
    <3>1. CASE h = g
      BY <1>6, <1>8, <3>1
    <3>2. CASE h # g
      BY <1>2, <1>8, <3>2 DEF Files
    <3>3. QED BY <3>1, <3>2
  <2>2. QED BY <2>1 DEF Files, half, m
<1>11. text'[g] # <<>> /\ text'[g][Len(text'[g])] = cell
  BY <1>1, <1>6, <1>8, EmptySeq
<1>12. ASSUME NEW h \in EventLog!Gens
       PROVE  /\ \A i \in DOMAIN text[h] : i \in DOMAIN text'[h] /\ text'[h][i] = text[h][i]
              /\ Len(text[h]) <= Len(text'[h])
              /\ text[h] # <<>> => text'[h] # <<>>
              /\ \A i \in DOMAIN text'[h] \ DOMAIN text[h] : text'[h][i] = cell
  <2>1. CASE h = g
    <3>1. Len(q) <= Len(q) + 1 /\ (\A i \in 1..Len(q) + 1 : i \notin 1..Len(q) => i = Len(q) + 1)
      BY <1>1
    <3>2. QED BY <1>1, <1>6, <1>8, <1>11, <2>1, <3>1
  <2>2. CASE h # g
    BY <1>8, <2>2, LogTypes
  <2>3. QED BY <2>1, <2>2
<1>13. QED BY <1>8, <1>9, <1>10, <1>11, <1>12

\* A line of another writer.
LEMMA OtherStep ==
  ASSUME LogInv, NEW w \in EventLog!Writers, EventLog!WriteOther(w)
  PROVE  LogInv' /\ Appended
<1> USE DEF LogInv
<1>1. /\ w # EventLog!Hook /\ pen[w] = "write" /\ pen' = [pen EXCEPT ![w] = "idle"]
      /\ text' = [text EXCEPT ![fd[w]] = Append(@, [line |-> 0, nl |-> TRUE])]
      /\ fd' = [fd EXCEPT ![w] = 0]
      /\ UNCHANGED <<gen, lines, tail, offset, mtime, stat, told, book, passed>>
  BY DEF EventLog!WriteOther, EventLog!Pen, EventLog!Appends, EventLog!tailVars
<1>2. PICK g \in EventLog!Gens : g = fd[w]
  BY <1>1 DEF Pens
<1>3. /\ pen' \in [EventLog!Writers -> {"idle", "rotate", "open", "write", "half"}]
      /\ fd' \in [EventLog!Writers -> 0..MaxGens]
      /\ pen'[w] = "idle" /\ fd'[w] = 0
      /\ \A v \in EventLog!Writers \ {w} : pen'[v] = pen[v] /\ fd'[v] = fd[v]
      /\ pen'[EventLog!Hook] = pen[EventLog!Hook] /\ fd'[EventLog!Hook] = fd[EventLog!Hook]
  BY <1>1, LogTypes DEF EventLog!TypeOK
<1>4. ~Half(g)
  BY <1>2, LogTypes DEF EventLog!WriteOther, EventLog!Free, Half
<1>5. PICK cell \in EventLog!Cells : cell = [line |-> 0, nl |-> TRUE] /\ cell.line = 0 /\ cell.nl
  <2>1. [line |-> 0, nl |-> TRUE] \in EventLog!Cells
    BY LogTypes DEF EventLog!Cells
  <2>2. QED BY <2>1
<1>6. Recounted
  BY <1>1, <1>3, LogTypes DEF Recounted, EventLog!TypeOK
<1>7. text[g] # <<>> => text[g][Len(text[g])].nl
  BY <1>2, <1>4 DEF Halves
<1>8. /\ text' \in [EventLog!Gens -> Seq(EventLog!Cells)]
      /\ Files'
      /\ \A h \in EventLog!Gens \ {g} : text'[h] = text[h]
      /\ text'[g] # <<>> /\ text'[g][Len(text'[g])] = cell
      /\ \A h \in EventLog!Gens :
           /\ \A i \in DOMAIN text[h] : i \in DOMAIN text'[h] /\ text'[h][i] = text[h][i]
           /\ Len(text[h]) <= Len(text'[h])
           /\ text[h] # <<>> => text'[h] # <<>>
           /\ \A i \in DOMAIN text'[h] \ DOMAIN text[h] : text'[h][i] = cell
  <2>1. cell.line <= lines'.webhook
    BY <1>1, <1>5, LogTypes
  <2>2. /\ ~(cell.nl /\ cell.line # 0 /\ pen'[EventLog!Hook] = "half")
        /\ text[g] # <<>> /\ ~text[g][Len(text[g])].nl => cell.nl /\ cell.line = text[g][Len(text[g])].line
        /\ cell.nl /\ cell.line # 0 => Half(g) /\ cell.line = lines.webhook
    BY <1>5, <1>7
  <2>3. text' = [text EXCEPT ![g] = Append(@, cell)]
    BY <1>1, <1>2, <1>5
  <2>4. QED BY <1>6, <2>1, <2>2, <2>3, Grows
<1>9. EventLog!TypeOK'
  BY <1>1, <1>3, <1>8 DEF EventLog!TypeOK, EventLog!Times
<1>10. Pens'
  BY <1>1, <1>3 DEF Pens
<1>11. Halves'
  <2>1. \A h : Half(h)' <=> Half(h)
    BY <1>3 DEF Half
  <2>2. ASSUME NEW h \in EventLog!Gens
        PROVE  /\ text'[h] # <<>> /\ ~text'[h][Len(text'[h])].nl => Half(h)
               /\ Half(h) => text'[h] # <<>> /\ text'[h][Len(text'[h])] = [line |-> lines.webhook, nl |-> FALSE]
    <3>1. CASE h = g
      BY <1>4, <1>5, <1>8, <3>1
    <3>2. CASE h # g
      BY <1>8, <3>2 DEF Halves
    <3>3. QED BY <3>1, <3>2
  <2>3. QED BY <1>1, <2>1, <2>2 DEF Halves
<1>12. \A h \in EventLog!Gens : Created(h) => Created(h)'
  BY <1>2, <1>3, <1>8 DEF Created
<1>13. Appended
  <2>1. ASSUME NEW h \in EventLog!Gens, NEW i \in DOMAIN text'[h] \ DOMAIN text[h],
               text'[h][i].nl, text'[h][i].line # 0
        PROVE  text'[h][i].line = lines.webhook /\ pen[EventLog!Hook] = "half"
    <3>1. text'[h][i] = cell
      BY <1>8
    <3>2. QED BY <1>5, <2>1, <3>1
  <2>2. gen' = gen /\ UNCHANGED <<tail, offset, mtime, stat, told, book, passed>>
    BY <1>1
  <2>3. lines'.webhook \in Nat /\ lines.webhook <= lines'.webhook
    BY <1>1, LogTypes
  <2>4. pen'[EventLog!Hook] = "half" =>
          \/ lines'.webhook = lines.webhook + 1
          \/ pen[EventLog!Hook] = "half" /\ lines'.webhook = lines.webhook
    BY <1>6 DEF Recounted
  <2>5. QED BY <1>8, <1>12, <2>1, <2>2, <2>3, <2>4 DEF Appended
<1>14. QED BY <1>8, <1>9, <1>10, <1>11, <1>13

\* The first half of a webhook line.
LEMMA HookStep ==
  ASSUME LogInv, EventLog!WriteHook
  PROVE  LogInv' /\ Appended
<1> USE DEF LogInv
<1> DEFINE k == EventLog!Hook
<1>0. k \in EventLog!Writers
  BY LogTypes
<1>1. /\ pen[k] = "write" /\ pen' = [pen EXCEPT ![k] = "half"]
      /\ text' = [text EXCEPT ![fd[k]] = Append(@, [line |-> lines.webhook + 1, nl |-> FALSE])]
      /\ lines' = [lines EXCEPT !.webhook = @ + 1]
      /\ UNCHANGED <<gen, fd, tail, offset, mtime, stat, told, book, passed>>
  BY DEF EventLog!WriteHook, EventLog!Pen, EventLog!Appends, EventLog!tailVars
<1>2. PICK g \in EventLog!Gens : g = fd[k]
  BY <1>0, <1>1 DEF Pens
<1>3. /\ pen' \in [EventLog!Writers -> {"idle", "rotate", "open", "write", "half"}]
      /\ pen'[k] = "half"
      /\ \A v \in EventLog!Writers \ {k} : pen'[v] = pen[v]
  BY <1>0, <1>1 DEF EventLog!TypeOK
<1>4. \A h : ~Half(h) /\ (Half(h)' <=> h = g)
  BY <1>1, <1>2, <1>3 DEF Half
<1>5. /\ lines.webhook < lines.all /\ lines.all <= MaxLines
      /\ lines' \in [webhook : 0..MaxLines, all : 0..MaxLines]
      /\ lines'.webhook = lines.webhook + 1 /\ lines'.all = lines.all
      /\ lines.webhook \in Nat /\ MaxLines \in Nat
  <2>1. lines.webhook < lines.all /\ lines \in [webhook : 0..MaxLines, all : 0..MaxLines]
    BY <1>1 DEF Pens, EventLog!TypeOK
  <2>2. QED BY <1>1, <2>1, LogTypes
<1>6. PICK cell \in EventLog!Cells :
        /\ cell = [line |-> lines.webhook + 1, nl |-> FALSE]
        /\ cell.line = lines'.webhook /\ ~cell.nl
  <2>1. [line |-> lines.webhook + 1, nl |-> FALSE] \in EventLog!Cells
    BY <1>5 DEF EventLog!Cells
  <2>2. QED BY <1>5, <2>1
<1>7. Recounted
  BY <1>5 DEF Recounted
<1>8. text[g] # <<>> => text[g][Len(text[g])].nl
  BY <1>2, <1>4 DEF Halves
<1>9. cell = [line |-> lines'.webhook, nl |-> FALSE]
  BY <1>5, <1>6
<1> HIDE DEF k
<1>10. /\ text' \in [EventLog!Gens -> Seq(EventLog!Cells)]
       /\ Files'
       /\ \A h \in EventLog!Gens \ {g} : text'[h] = text[h]
       /\ text'[g] # <<>> /\ text'[g][Len(text'[g])] = cell
       /\ \A h \in EventLog!Gens :
            /\ \A i \in DOMAIN text[h] : i \in DOMAIN text'[h] /\ text'[h][i] = text[h][i]
            /\ Len(text[h]) <= Len(text'[h])
            /\ text[h] # <<>> => text'[h] # <<>>
            /\ \A i \in DOMAIN text'[h] \ DOMAIN text[h] : text'[h][i] = cell
  <2>1. cell.line <= lines'.webhook
    BY <1>5, <1>6
  <2>2. /\ ~(cell.nl /\ cell.line # 0 /\ pen'[EventLog!Hook] = "half")
        /\ text[g] # <<>> /\ ~text[g][Len(text[g])].nl => cell.nl /\ cell.line = text[g][Len(text[g])].line
        /\ cell.nl /\ cell.line # 0 => Half(g) /\ cell.line = lines.webhook
    BY <1>6, <1>8
  <2>3. text' = [text EXCEPT ![g] = Append(@, cell)]
    BY <1>1, <1>2, <1>6
  <2>4. QED BY <1>7, <2>1, <2>2, <2>3, Grows
<1>11. EventLog!TypeOK'
  BY <1>1, <1>3, <1>5, <1>10 DEF EventLog!TypeOK, EventLog!Times
<1>12. Pens'
  <2>1. lines'.webhook <= lines'.all
    BY <1>5, LogTypes
  <2>2. \A w \in EventLog!Writers :
          /\ IF pen'[w] \in {"write", "half"} THEN fd'[w] \in EventLog!Gens ELSE fd'[w] = 0
          /\ pen'[w] = "half" => w = EventLog!Hook
    BY <1>1, <1>2, <1>3 DEF Pens, k
  <2>3. QED BY <1>3, <2>1, <2>2 DEF Pens, k
<1>13. Halves'
  <2>1. ASSUME NEW h \in EventLog!Gens
        PROVE  /\ text'[h] # <<>> /\ ~text'[h][Len(text'[h])].nl => h = g
               /\ h = g => text'[h] # <<>> /\ text'[h][Len(text'[h])] = [line |-> lines'.webhook, nl |-> FALSE]
    <3>1. CASE h = g
      BY <1>9, <1>10, <3>1
    <3>2. CASE h # g
      BY <1>4, <1>10, <3>2 DEF Halves
    <3>3. QED BY <3>1, <3>2
  <2>2. QED BY <1>4, <2>1 DEF Halves
<1>14. \A h \in EventLog!Gens : Created(h) => Created(h)'
  BY <1>1, <1>10 DEF Created
<1>15. Appended
  <2>1. ASSUME NEW h \in EventLog!Gens, NEW i \in DOMAIN text'[h] \ DOMAIN text[h],
               text'[h][i].nl, text'[h][i].line # 0
        PROVE  text'[h][i].line = lines.webhook /\ pen[EventLog!Hook] = "half"
    <3>1. text'[h][i] = cell
      BY <1>10
    <3>2. QED BY <1>6, <2>1, <3>1
  <2>2. gen' = gen /\ UNCHANGED <<tail, offset, mtime, stat, told, book, passed>>
    BY <1>1
  <2>3. lines'.webhook \in Nat /\ lines.webhook <= lines'.webhook
    BY <1>5, LogTypes
  <2>4. pen'[EventLog!Hook] = "half" =>
          \/ lines'.webhook = lines.webhook + 1
          \/ pen[EventLog!Hook] = "half" /\ lines'.webhook = lines.webhook
    BY <1>7 DEF Recounted
  <2>5. QED BY <1>10, <1>14, <2>1, <2>2, <2>3, <2>4 DEF Appended
<1>16. QED BY <1>10, <1>11, <1>12, <1>13, <1>15

\* The end of a webhook line.
LEMMA EndStep ==
  ASSUME LogInv, EventLog!EndHook
  PROVE  LogInv' /\ Appended
<1> USE DEF LogInv
<1> DEFINE k == EventLog!Hook
<1>0. k \in EventLog!Writers
  BY LogTypes
<1>1. /\ pen[k] = "half" /\ pen' = [pen EXCEPT ![k] = "idle"]
      /\ text' = [text EXCEPT ![fd[k]] = Append(@, [line |-> lines.webhook, nl |-> TRUE])]
      /\ fd' = [fd EXCEPT ![k] = 0]
      /\ UNCHANGED <<gen, lines, tail, offset, mtime, stat, told, book, passed>>
  BY DEF EventLog!EndHook, EventLog!Pen, EventLog!Appends, EventLog!tailVars
<1>2. PICK g \in EventLog!Gens : g = fd[k]
  BY <1>0, <1>1 DEF Pens
<1>3. /\ pen' \in [EventLog!Writers -> {"idle", "rotate", "open", "write", "half"}]
      /\ fd' \in [EventLog!Writers -> 0..MaxGens]
      /\ pen'[k] = "idle" /\ fd'[k] = 0
      /\ \A v \in EventLog!Writers \ {k} : pen'[v] = pen[v] /\ fd'[v] = fd[v]
  BY <1>0, <1>1, LogTypes DEF EventLog!TypeOK
<1>4. \A h : (Half(h) <=> h = g) /\ ~Half(h)'
  BY <1>1, <1>2, <1>3 DEF Half
<1>5. PICK cell \in EventLog!Cells :
        cell = [line |-> lines.webhook, nl |-> TRUE] /\ cell.line = lines.webhook /\ cell.nl
  <2>1. [line |-> lines.webhook, nl |-> TRUE] \in EventLog!Cells
    BY DEF EventLog!Cells, EventLog!TypeOK
  <2>2. QED BY <2>1
<1>6. Recounted
  BY <1>1, <1>3, LogTypes DEF Recounted, EventLog!TypeOK
<1>7. text[g] # <<>> /\ text[g][Len(text[g])].line = lines.webhook
  BY <1>2, <1>4 DEF Halves
<1>8. /\ text' \in [EventLog!Gens -> Seq(EventLog!Cells)]
      /\ Files'
      /\ \A h \in EventLog!Gens \ {g} : text'[h] = text[h]
      /\ text'[g] # <<>> /\ text'[g][Len(text'[g])] = cell
      /\ \A h \in EventLog!Gens :
           /\ \A i \in DOMAIN text[h] : i \in DOMAIN text'[h] /\ text'[h][i] = text[h][i]
           /\ Len(text[h]) <= Len(text'[h])
           /\ text[h] # <<>> => text'[h] # <<>>
           /\ \A i \in DOMAIN text'[h] \ DOMAIN text[h] : text'[h][i] = cell
  <2>1. cell.line <= lines'.webhook
    BY <1>1, <1>5, LogTypes
  <2>2. /\ ~(cell.nl /\ cell.line # 0 /\ pen'[EventLog!Hook] = "half")
        /\ text[g] # <<>> /\ ~text[g][Len(text[g])].nl => cell.nl /\ cell.line = text[g][Len(text[g])].line
        /\ cell.nl /\ cell.line # 0 => Half(g) /\ cell.line = lines.webhook
    BY <1>3, <1>4, <1>5, <1>7
  <2>3. text' = [text EXCEPT ![g] = Append(@, cell)]
    BY <1>1, <1>2, <1>5
  <2>4. QED BY <1>6, <2>1, <2>2, <2>3, Grows
<1>9. EventLog!TypeOK'
  BY <1>1, <1>3, <1>8 DEF EventLog!TypeOK, EventLog!Times
<1>10. Pens'
  BY <1>1, <1>3 DEF Pens
<1>11. Halves'
  <2>1. ASSUME NEW h \in EventLog!Gens PROVE text'[h] # <<>> => text'[h][Len(text'[h])].nl
    <3>1. CASE h = g
      BY <1>5, <1>8, <3>1
    <3>2. CASE h # g
      BY <1>4, <1>8, <3>2 DEF Halves
    <3>3. QED BY <3>1, <3>2
  <2>2. QED BY <1>4, <2>1 DEF Halves
<1>12. \A h \in EventLog!Gens : Created(h) => Created(h)'
  BY <1>2, <1>3, <1>8 DEF Created
<1>13. Appended
  <2>1. ASSUME NEW h \in EventLog!Gens, NEW i \in DOMAIN text'[h] \ DOMAIN text[h],
               text'[h][i].nl, text'[h][i].line # 0
        PROVE  text'[h][i].line = lines.webhook /\ pen[EventLog!Hook] = "half"
    <3>1. text'[h][i] = cell
      BY <1>8
    <3>2. QED BY <1>1, <1>5, <2>1, <3>1
  <2>2. gen' = gen /\ UNCHANGED <<tail, offset, mtime, stat, told, book, passed>>
    BY <1>1
  <2>3. lines'.webhook \in Nat /\ lines.webhook <= lines'.webhook
    BY <1>1, LogTypes
  <2>4. pen'[EventLog!Hook] = "half" =>
          \/ lines'.webhook = lines.webhook + 1
          \/ pen[EventLog!Hook] = "half" /\ lines'.webhook = lines.webhook
    BY <1>6 DEF Recounted
  <2>5. QED BY <1>8, <1>12, <2>1, <2>2, <2>3, <2>4 DEF Appended
<1>14. QED BY <1>8, <1>9, <1>10, <1>11, <1>13

-----------------------------------------------------------------------------
(* The invariant: the tailer.                                              *)

\* The file that has the name, and the one the offset was measured in, have
\* been created, so that no file to come is either; and the offset lies within
\* the one it was measured in.
Books ==
  /\ \A g \in EventLog!Gens : g \in {gen, book} => Created(g)
  /\ gen \in EventLog!Gens /\ book = gen => offset <= Len(text[gen])

\* What was told is behind what may still be told: the line that is being
\* written, those of the file that follow the offset, and all of a file the
\* offset was not measured in.
Ahead ==
  \A k \in DOMAIN told :
    /\ told[k] <= lines.webhook /\ (pen[EventLog!Hook] = "half" => told[k] < lines.webhook)
    /\ gen \in EventLog!Gens =>
         \A i \in DOMAIN text[gen] : LET c == text[gen][i] IN
           c.nl /\ c.line # 0 /\ (book = gen => i > offset) => told[k] < c.line

\* Each line with a cell behind the offset was told, or was behind it already.
Dealt(line) == line \in passed \/ \E k \in DOMAIN told : told[k] = line

NoneLeft ==
  gen \in EventLog!Gens /\ book = gen =>
    \A i \in 1..offset : text[gen][i].line # 0 => Dealt(text[gen][i].line)

TailInv == Books /\ Ahead /\ NoneLeft /\ EventLog!ToldOnce

\* Whatever the writers do, the tailer's part holds.
LEMMA TailStays ==
  ASSUME LogInv, TailInv, LogInv', Appended
  PROVE  TailInv'
<1> USE DEF TailInv
<1>0. /\ UNCHANGED <<tail, offset, mtime, stat, told, book, passed>>
      /\ \A k \in DOMAIN told : told[k] \in Nat
      /\ lines.webhook \in Nat /\ lines'.webhook \in Nat /\ lines.webhook <= lines'.webhook
      /\ offset \in Nat
  <2>1. told \in Seq(1..MaxLines)
    BY DEF LogInv, EventLog!TypeOK
  <2>2. \A k \in DOMAIN told : told[k] \in 1..MaxLines
    BY <2>1, LenProperties
  <2>3. QED BY <2>2, LogTypes DEF Appended, LogInv, EventLog!TypeOK
<1>1. ASSUME gen' \in EventLog!Gens, book = gen' PROVE gen' = gen
  <2>1. Created(gen')
    BY <1>1 DEF Books
  <2>2. 0 \notin EventLog!Gens
    BY LogTypes DEF LogInv
  <2>3. QED BY <1>1, <2>1, <2>2 DEF Appended
<1>2. ASSUME gen' \in EventLog!Gens, gen' # gen PROVE DOMAIN text'[gen'] = {}
  <2>1. text'[gen'] = <<>>
    BY <1>2, LogTypes DEF Appended, LogInv
  <2>2. QED BY <2>1
<1>3. Books'
  <2>1. ASSUME NEW g \in EventLog!Gens, g \in {gen', book} PROVE Created(g)'
    BY <1>0, <2>1 DEF Appended, Books
  <2>2. ASSUME gen' \in EventLog!Gens, book = gen' PROVE offset <= Len(text'[gen'])
    <3>1. gen' = gen /\ offset <= Len(text[gen]) /\ Len(text[gen]) <= Len(text'[gen])
      BY <1>1, <2>2 DEF Appended, Books
    <3>2. Len(text[gen]) \in Nat
      BY <2>2, <3>1, LogTypes DEF LogInv
    <3>3. text'[gen] \in Seq(EventLog!Cells)
      BY <2>2, <3>1 DEF LogInv, EventLog!TypeOK
    <3>4. Len(text'[gen]) \in Nat
      BY <3>3, LenProperties
    <3>5. QED BY <1>0, <3>1, <3>2, <3>4
  <2>3. QED BY <1>0, <2>1, <2>2 DEF Books
<1>4. Ahead'
  <2>1. ASSUME NEW k \in DOMAIN told
        PROVE  told[k] <= lines'.webhook /\ (pen'[EventLog!Hook] = "half" => told[k] < lines'.webhook)
    <3>1. told[k] <= lines.webhook /\ (pen[EventLog!Hook] = "half" => told[k] < lines.webhook)
      BY DEF Ahead
    <3>2. pen'[EventLog!Hook] = "half" =>
            \/ lines'.webhook = lines.webhook + 1
            \/ pen[EventLog!Hook] = "half" /\ lines'.webhook = lines.webhook
      BY DEF Appended
    <3>3. QED BY <1>0, <3>1, <3>2
  <2>2. ASSUME NEW k \in DOMAIN told, gen' \in EventLog!Gens, NEW i \in DOMAIN text'[gen'],
               text'[gen'][i].nl, text'[gen'][i].line # 0, book = gen' => i > offset
        PROVE  told[k] < text'[gen'][i].line
    <3>1. gen' = gen
      BY <1>2, <2>2
    <3>2. CASE i \in DOMAIN text[gen]
      <4>1. text'[gen][i] = text[gen][i]
        BY <2>2, <3>1, <3>2 DEF Appended
      <4>2. QED BY <2>2, <3>1, <3>2, <4>1 DEF Ahead
    <3>3. CASE i \notin DOMAIN text[gen]
      <4>1. text'[gen][i].line = lines.webhook /\ pen[EventLog!Hook] = "half"
        BY <2>2, <3>1, <3>3 DEF Appended
      <4>2. QED BY <3>1, <4>1 DEF Ahead
    <3>4. QED BY <3>2, <3>3
  <2>3. QED BY <1>0, <2>1, <2>2 DEF Ahead
<1>5. NoneLeft'
  <2>1. ASSUME gen' \in EventLog!Gens, book = gen', NEW i \in 1..offset, text'[gen'][i].line # 0
        PROVE  Dealt(text'[gen'][i].line)
    <3>1. gen' = gen /\ offset <= Len(text[gen]) /\ gen \in EventLog!Gens
      BY <1>1, <2>1 DEF Books
    <3>2. i \in DOMAIN text[gen]
      BY <1>0, <3>1, LogTypes DEF LogInv
    <3>3. text'[gen][i] = text[gen][i]
      BY <3>1, <3>2 DEF Appended
    <3>4. QED BY <2>1, <3>1, <3>3 DEF NoneLeft
  <2>2. QED BY <1>0, <2>1 DEF NoneLeft, Dealt
<1>6. EventLog!ToldOnce'
  BY <1>0 DEF EventLog!ToldOnce
<1>7. QED BY <1>3, <1>4, <1>5, <1>6

\* The lines behind an offset.
LEMMA BehindIs ==
  ASSUME EventLog!TypeOK, NEW n \in Nat
  PROVE  /\ EventLog!Behind(n) \subseteq 1..MaxLines
         /\ gen \in EventLog!Gens /\ n <= Len(text[gen]) =>
              \A i \in 1..n : text[gen][i].line # 0 => text[gen][i].line \in EventLog!Behind(n)
<1>1. CASE gen = 0
  BY <1>1, LogTypes DEF EventLog!Behind
<1>2. CASE gen # 0
  <2>1. gen \in EventLog!Gens
    BY <1>2, LogTypes DEF EventLog!TypeOK, EventLog!Gens
  <2>2. EventLog!Size = Len(text[gen]) /\ Len(text[gen]) \in Nat
    BY <1>2, <2>1, LogTypes DEF EventLog!Size
  <2> DEFINE m == IF n < EventLog!Size THEN n ELSE EventLog!Size
  <2>3. EventLog!Behind(n) = {text[gen][i].line : i \in 1..m} \ {0}
    BY <1>2 DEF EventLog!Behind
  <2>4. m \in Nat /\ m <= Len(text[gen]) /\ (n <= Len(text[gen]) => m = n)
    BY <2>2
  <2> HIDE DEF m
  <2>5. \A i \in 1..m : text[gen][i].line \in 0..MaxLines
    <3>1. \A i \in 1..m : i \in DOMAIN text[gen]
      BY <2>1, <2>2, <2>4, LogTypes
    <3>2. QED BY <2>1, <3>1, LogTypes DEF EventLog!Cells
  <2>6. EventLog!Behind(n) \subseteq 1..MaxLines
    <3>1. (0..MaxLines) \ {0} \subseteq 1..MaxLines
      BY LogTypes
    <3>2. QED BY <2>3, <2>5, <3>1
  <2>7. QED BY <2>3, <2>4, <2>6
<1>3. QED BY <1>1, <1>2

\* The steps of the tailer that read nothing.
LEMMA LookStep ==
  ASSUME LogInv, TailInv, EventLog!Start \/ EventLog!Stat \/ EventLog!OpenFails
  PROVE  LogInv' /\ TailInv'
<1> USE DEF LogInv, TailInv
<1>1. UNCHANGED <<text, gen, lines, pen, fd, told>>
  BY DEF EventLog!Start, EventLog!Stat, EventLog!OpenFails, EventLog!logVars
<1>2. Pens' /\ Halves' /\ Files' /\ EventLog!ToldOnce'
  BY <1>1 DEF Pens, Halves, Half, Files, EventLog!ToldOnce
<1>3. \A g : Created(g)' <=> Created(g)
  BY <1>1 DEF Created
<1>4. /\ EventLog!Size \in Nat
      /\ gen \in EventLog!Gens => EventLog!Size = Len(text[gen])
      /\ gen # 0 <=> gen \in EventLog!Gens
      /\ gen # 0 => EventLog!Now \in EventLog!Times
      /\ offset \in Nat
  <2>1. gen # 0 <=> gen \in EventLog!Gens
    BY LogTypes DEF EventLog!TypeOK, EventLog!Gens
  <2>2. EventLog!Size \in Nat /\ (gen # 0 => EventLog!Size = Len(text[gen]))
    BY <2>1, LogTypes DEF EventLog!Size
  <2>3. QED BY <2>1, <2>2 DEF EventLog!Now, EventLog!Times, EventLog!TypeOK
<1>5. CASE EventLog!Start
  <2>1. /\ tail' = "sleep" /\ offset' = EventLog!Size /\ stat' = stat
        /\ mtime' = (IF gen = 0 THEN <<>> ELSE EventLog!Now)
        /\ book' = gen /\ passed' = EventLog!Behind(EventLog!Size)
    BY <1>5 DEF EventLog!Start
  <2>2. /\ EventLog!Behind(EventLog!Size) \subseteq 1..MaxLines
        /\ gen \in EventLog!Gens =>
             \A i \in 1..EventLog!Size :
               text[gen][i].line # 0 => text[gen][i].line \in EventLog!Behind(EventLog!Size)
    BY <1>4, BehindIs
  <2>3. EventLog!TypeOK'
    BY <1>1, <1>4, <2>1, <2>2 DEF EventLog!TypeOK, EventLog!Times
  <2>4. Books'
    BY <1>1, <1>3, <1>4, <2>1 DEF Books
  <2>5. Ahead'
    <3>1. gen \in EventLog!Gens => \A i \in DOMAIN text[gen] : ~(i > offset')
      BY <1>4, <2>1, LogTypes
    <3>2. QED BY <1>1, <2>1, <3>1 DEF Ahead
  <2>6. NoneLeft'
    BY <1>1, <2>1, <2>2 DEF NoneLeft, Dealt
  <2>7. QED BY <1>2, <2>3, <2>4, <2>5, <2>6
<1>6. CASE EventLog!Stat
  <2>1. /\ gen # 0 /\ tail' = "open" /\ stat' = EventLog!Now
        /\ offset' = (IF EventLog!Size < offset THEN 0 ELSE offset)
        /\ UNCHANGED <<mtime, book, passed>>
    BY <1>6 DEF EventLog!Stat, EventLog!Shrunk
  <2>2. offset' \in Nat /\ (book = gen => offset' = offset)
    BY <1>4, <2>1 DEF Books
  <2>3. EventLog!TypeOK'
    BY <1>1, <1>4, <2>1, <2>2 DEF EventLog!TypeOK, EventLog!Times
  <2>4. Books' /\ Ahead' /\ NoneLeft'
    BY <1>1, <1>3, <2>1, <2>2 DEF Books, Ahead, NoneLeft, Dealt
  <2>5. QED BY <1>2, <2>3, <2>4
<1>7. CASE EventLog!OpenFails
  <2>1. tail' = "sleep" /\ UNCHANGED <<offset, mtime, stat, book, passed>>
    BY <1>7 DEF EventLog!OpenFails
  <2>2. EventLog!TypeOK'
    BY <1>1, <2>1 DEF EventLog!TypeOK, EventLog!Times
  <2>3. Books' /\ Ahead' /\ NoneLeft'
    BY <1>1, <1>3, <2>1 DEF Books, Ahead, NoneLeft, Dealt
  <2>4. QED BY <1>2, <2>2, <2>3
<1>8. QED BY <1>5, <1>6, <1>7

\* What a read tells: the webhook lines that end among the cells it takes and
\* did not begin before them, in the order of their numbers.
LEMMA ReadTells ==
  ASSUME LogInv, gen \in EventLog!Gens
  PROVE  LET t == text[gen]
             n == EventLog!Taken(EventLog!Chunk)
             p == EventLog!Parsed(SubSeq(EventLog!Chunk, 1, n))
         IN /\ n \in Nat /\ p \in Seq(1..MaxLines)
            /\ n # 0 => offset + n \in DOMAIN t
            /\ n = 0 => DOMAIN p = {}
            /\ \A k \in DOMAIN p : \E i \in (offset + 1)..(offset + n) :
                 i \in DOMAIN t /\ t[i].nl /\ t[i].line # 0 /\ t[i].line = p[k]
            /\ \A k, l \in DOMAIN p : k < l => p[k] < p[l]
            /\ \A i \in (offset + 1)..(offset + n) : t[i].line # 0 =>
                 \/ \E k \in DOMAIN p : p[k] = t[i].line
                 \/ offset \in DOMAIN t /\ t[offset].line = t[i].line
<1> USE DEF LogInv
<1> DEFINE t == text[gen]
           n == EventLog!Taken(EventLog!Chunk)
           c == SubSeq(EventLog!Chunk, 1, n)
           p == EventLog!Parsed(c)
<1>1. /\ t \in Seq(EventLog!Cells) /\ Len(t) \in Nat /\ DOMAIN t = 1..Len(t) /\ offset \in Nat
      /\ Paired(t) /\ Increasing(t)
  BY LogTypes DEF EventLog!TypeOK, Files
<1>2. /\ n \in Nat /\ c \in Seq(EventLog!Cells) /\ Len(c) = n /\ DOMAIN c = 1..n
      /\ n # 0 => offset + n \in DOMAIN t /\ offset + n <= Len(t) /\ t[offset + n].nl
      /\ \A i \in 1..n : offset + i \in DOMAIN t /\ c[i] = t[offset + i]
  BY <1>1, ChunkIs
<1>3. /\ p \in Seq(1..MaxLines)
      /\ \A k \in DOMAIN p : \E i : WholeIn(c, i) /\ p[k] = c[i].line
      /\ \A k, l \in DOMAIN p : k < l =>
           \E i, j : /\ WholeIn(c, i) /\ WholeIn(c, j) /\ i < j
                     /\ p[k] = c[i].line /\ p[l] = c[j].line
      /\ \A i : WholeIn(c, i) => \E k \in DOMAIN p : p[k] = c[i].line
  BY <1>2, ParsedIs
<1> HIDE DEF n, c, p, t
<1>4. ASSUME NEW i, WholeIn(c, i)
      PROVE  /\ i \in 1..n /\ offset + i \in (offset + 1)..(offset + n) /\ offset + i \in DOMAIN t
             /\ c[i] = t[offset + i] /\ t[offset + i].nl /\ t[offset + i].line # 0
  BY <1>1, <1>2, <1>4 DEF WholeIn
<1>5. ASSUME NEW k \in DOMAIN p
      PROVE  \E i \in (offset + 1)..(offset + n) :
               i \in DOMAIN t /\ t[i].nl /\ t[i].line # 0 /\ t[i].line = p[k]
  <2>1. PICK i : WholeIn(c, i) /\ p[k] = c[i].line
    BY <1>3
  <2>2. QED BY <1>4, <2>1
<1>6. ASSUME NEW k \in DOMAIN p, NEW l \in DOMAIN p, k < l PROVE p[k] < p[l]
  <2>1. PICK i, j : /\ WholeIn(c, i) /\ WholeIn(c, j) /\ i < j
                    /\ p[k] = c[i].line /\ p[l] = c[j].line
    BY <1>3, <1>6
  <2>2. offset + i < offset + j
    BY <1>1, <1>2, <1>4, <2>1
  <2>3. t[offset + i].line < t[offset + j].line
    BY <1>1, <1>4, <2>1, <2>2 DEF Increasing
  <2>4. QED BY <1>4, <2>1, <2>3
<1>7. ASSUME NEW i \in (offset + 1)..(offset + n), t[i].line # 0
      PROVE  \/ \E k \in DOMAIN p : p[k] = t[i].line
             \/ offset \in DOMAIN t /\ t[offset].line = t[i].line
  <2>1. i - offset \in 1..n /\ offset + (i - offset) = i /\ i \in Nat
    BY <1>1, <1>2
  <2>2. i \in DOMAIN t /\ c[i - offset] = t[i]
    BY <1>2, <2>1
  <2>3. CASE t[i].nl
    <3>1. i > 1 /\ t[i - 1].line = t[i].line
      BY <1>1, <1>7, <2>2, <2>3 DEF Paired
    <3>2. CASE i = offset + 1
      <4>1. i - 1 = offset /\ offset \in DOMAIN t
        BY <1>1, <2>2, <3>1, <3>2
      <4>2. QED BY <3>1, <4>1
    <3>3. CASE i # offset + 1
      <4>1. i - 1 - offset \in 1..n /\ offset + (i - 1 - offset) = i - 1 /\ i - offset > 1
            /\ (i - offset) - 1 = i - 1 - offset
        BY <1>1, <1>2, <2>1, <3>3
      <4>2. c[i - 1 - offset] = t[i - 1]
        BY <1>2, <4>1
      <4>3. c[(i - offset) - 1].line = c[i - offset].line
        BY <2>2, <3>1, <4>1, <4>2
      <4>4. WholeIn(c, i - offset)
        BY <1>2, <1>7, <2>1, <2>2, <2>3, <4>1, <4>3 DEF WholeIn
      <4>5. QED BY <1>3, <2>2, <4>4
    <3>4. QED BY <3>2, <3>3
  <2>4. CASE ~t[i].nl
    <3>1. i # offset + n /\ n # 0
      BY <1>1, <1>2, <2>4
    <3>2. i < Len(t) /\ i < offset + n
      BY <1>1, <1>2, <2>1, <3>1
    <3>3. t[i + 1].nl /\ t[i + 1].line = t[i].line
      BY <1>1, <2>2, <2>4, <3>2 DEF Paired
    <3>4. i + 1 - offset \in 1..n /\ offset + (i + 1 - offset) = i + 1 /\ i + 1 - offset > 1
          /\ (i + 1 - offset) - 1 = i - offset
      BY <1>1, <1>2, <2>1, <3>2
    <3>5. c[i + 1 - offset] = t[i + 1] /\ c[(i + 1 - offset) - 1] = t[i]
      BY <1>2, <2>2, <3>4
    <3>6. WholeIn(c, i + 1 - offset)
      BY <1>2, <1>7, <3>3, <3>4, <3>5 DEF WholeIn
    <3>7. QED BY <1>3, <3>3, <3>5, <3>6
  <2>5. QED BY <2>3, <2>4
<1>8. n = 0 => DOMAIN p = {}
  <2>1. n = 0 => (offset + 1)..(offset + n) = {}
    BY <1>1
  <2>2. QED BY <1>5, <2>1
<1>9. n # 0 => offset + n \in DOMAIN t
  BY <1>2
<1>10. QED BY <1>2, <1>3, <1>5, <1>6, <1>7, <1>8, <1>9 DEF n, c, p, t

\* The step of the tailer that reads.
LEMMA ReadStep ==
  ASSUME LogInv, TailInv, EventLog!Read
  PROVE  LogInv' /\ TailInv'
<1> USE DEF LogInv, TailInv
<1> DEFINE t == text[gen]
           n == EventLog!Taken(EventLog!Chunk)
           p == EventLog!Parsed(SubSeq(EventLog!Chunk, 1, n))
<1>1. /\ UNCHANGED <<text, gen, lines, pen, fd, stat>>
      /\ tail' = "sleep" /\ mtime' = stat /\ told' = told \o p /\ offset' = offset + n
      /\ book' = (IF n = 0 THEN book ELSE gen)
      /\ passed' = IF n = 0 \/ book = gen THEN passed ELSE passed \cup EventLog!Behind(offset)
  BY DEF EventLog!Read, EventLog!logVars
<1>2. Pens' /\ Halves' /\ Files'
  BY <1>1 DEF Pens, Halves, Half, Files
<1>3. \A g : Created(g)' <=> Created(g)
  BY <1>1 DEF Created
<1>4. gen \in EventLog!Gens
  BY LogTypes DEF EventLog!TypeOK, EventLog!Gens, EventLog!Read
<1>5. /\ n \in Nat /\ p \in Seq(1..MaxLines)
      /\ n # 0 => offset + n \in DOMAIN t
      /\ n = 0 => DOMAIN p = {}
      /\ \A k \in DOMAIN p : \E i \in (offset + 1)..(offset + n) :
           i \in DOMAIN t /\ t[i].nl /\ t[i].line # 0 /\ t[i].line = p[k]
      /\ \A k, l \in DOMAIN p : k < l => p[k] < p[l]
      /\ \A i \in (offset + 1)..(offset + n) : t[i].line # 0 =>
           \/ \E k \in DOMAIN p : p[k] = t[i].line
           \/ offset \in DOMAIN t /\ t[offset].line = t[i].line
  BY <1>4, ReadTells
<1>6. /\ offset \in Nat /\ told \in Seq(1..MaxLines)
      /\ Len(t) \in Nat /\ DOMAIN t = 1..Len(t) /\ \A i \in DOMAIN t : t[i].line \in Nat
      /\ lines.webhook \in Nat
      /\ Increasing(t) /\ Counted(t, lines.webhook, pen[EventLog!Hook] = "half")
  BY <1>4, LogTypes DEF EventLog!TypeOK, Files
<1>7. EventLog!Behind(offset) \subseteq 1..MaxLines
      /\ (offset <= Len(t) => \A i \in 1..offset : t[i].line # 0 => t[i].line \in EventLog!Behind(offset))
  BY <1>4, <1>6, BehindIs
<1> HIDE DEF n, p
<1>8. /\ told' \in Seq(1..MaxLines)
      /\ Len(told) \in Nat /\ Len(p) \in Nat
      /\ DOMAIN told = 1..Len(told) /\ DOMAIN p = 1..Len(p) /\ DOMAIN told' = 1..(Len(told) + Len(p))
      /\ \A k \in DOMAIN told : told'[k] = told[k] /\ k \in DOMAIN told'
      /\ \A k \in DOMAIN p : told'[Len(told) + k] = p[k] /\ Len(told) + k \in DOMAIN told'
      /\ \A k \in DOMAIN told' : k \in DOMAIN told \/ k - Len(told) \in DOMAIN p
      /\ \A k \in DOMAIN told : told[k] \in Nat
      /\ \A k \in DOMAIN p : p[k] \in Nat
  <2>1. /\ Len(told) \in Nat /\ Len(p) \in Nat
        /\ DOMAIN told = 1..Len(told) /\ DOMAIN p = 1..Len(p)
        /\ \A k \in DOMAIN told : told[k] \in 1..MaxLines
        /\ \A k \in DOMAIN p : p[k] \in 1..MaxLines
    <3>1. p \in Seq(1..MaxLines) /\ told \in Seq(1..MaxLines)
      BY <1>5, <1>6
    <3>2. QED BY <3>1, LenProperties
  <2>2. /\ told' \in Seq(1..MaxLines) /\ Len(told') = Len(told) + Len(p)
        /\ \A k \in 1..(Len(told) + Len(p)) :
             told'[k] = IF k <= Len(told) THEN told[k] ELSE p[k - Len(told)]
    BY <1>1, <1>5, <1>6, ConcatProperties
  <2>3. DOMAIN told' = 1..(Len(told) + Len(p))
    BY <2>2, LenProperties
  <2>4. ASSUME NEW k \in 1..Len(p)
        PROVE  told'[Len(told) + k] = p[k] /\ Len(told) + k \in 1..(Len(told) + Len(p))
    <3>1. /\ Len(told) + k \in 1..(Len(told) + Len(p)) /\ ~(Len(told) + k <= Len(told))
          /\ (Len(told) + k) - Len(told) = k
      BY <2>1
    <3>2. QED BY <2>2, <3>1
  <2>5. ASSUME NEW k \in 1..Len(told)
        PROVE  told'[k] = told[k] /\ k \in 1..(Len(told) + Len(p))
    BY <2>1, <2>2
  <2>6. \A k \in 1..(Len(told) + Len(p)) : k \in 1..Len(told) \/ k - Len(told) \in 1..Len(p)
    BY <2>1
  <2>7. QED BY <2>1, <2>2, <2>3, <2>4, <2>5, <2>6
<1>9. EventLog!TypeOK'
  <2>1. offset' \in Nat /\ book' \in 0..MaxGens /\ passed' \subseteq 1..MaxLines
    <3>1. offset' \in Nat
      BY <1>1, <1>5, <1>6
    <3>2. passed' \subseteq 1..MaxLines /\ book' \in 0..MaxGens
      BY <1>1, <1>7 DEF EventLog!TypeOK
    <3>3. QED BY <3>1, <3>2
  <2>2. QED BY <1>1, <1>8, <2>1 DEF EventLog!TypeOK, EventLog!Times
<1>10. Books'
  <2>1. CASE n = 0
    BY <1>1, <1>3, <1>6, <2>1 DEF Books
  <2>2. CASE n # 0
    <3>1. offset' <= Len(t)
      BY <1>1, <1>5, <1>6, <2>2
    <3>2. QED BY <1>1, <1>3, <2>2, <3>1 DEF Books
  <2>3. QED BY <2>1, <2>2
<1>11. Ahead'
  <2>1. ASSUME NEW k \in DOMAIN told
        PROVE  /\ told[k] <= lines.webhook /\ (pen[EventLog!Hook] = "half" => told[k] < lines.webhook)
               /\ \A i \in DOMAIN t :
                    t[i].nl /\ t[i].line # 0 /\ (book' = gen => i > offset') => told[k] < t[i].line
    <3>1. book' = gen => (book = gen => offset <= offset')
      BY <1>1, <1>5, <1>6
    <3>2. \A i \in DOMAIN t : (book' = gen => i > offset') => (book = gen => i > offset)
      BY <1>1, <1>5, <1>6
    <3>3. QED BY <1>4, <3>2 DEF Ahead
  <2>2. ASSUME NEW k \in DOMAIN p
        PROVE  /\ p[k] <= lines.webhook /\ (pen[EventLog!Hook] = "half" => p[k] < lines.webhook)
               /\ \A i \in DOMAIN t :
                    t[i].nl /\ t[i].line # 0 /\ (book' = gen => i > offset') => p[k] < t[i].line
    <3>1. PICK i \in (offset + 1)..(offset + n) :
            i \in DOMAIN t /\ t[i].nl /\ t[i].line # 0 /\ t[i].line = p[k]
      BY <1>5
    <3>2. p[k] <= lines.webhook /\ (pen[EventLog!Hook] = "half" => p[k] < lines.webhook)
      BY <1>6, <3>1 DEF Counted
    <3>3. n # 0
      BY <1>5
    <3>4. book' = gen /\ offset' = offset + n
      BY <1>1, <3>3
    <3>5. \A j \in DOMAIN t : j > offset' => i < j
      BY <1>5, <1>6, <3>4
    <3>6. \A j \in DOMAIN t : t[j].nl /\ t[j].line # 0 /\ j > offset' => t[i].line < t[j].line
      BY <3>1, <3>5, <1>6 DEF Increasing
    <3>7. QED BY <3>1, <3>2, <3>4, <3>6
  <2>3. ASSUME NEW k \in DOMAIN told'
        PROVE  /\ told'[k] <= lines.webhook /\ (pen[EventLog!Hook] = "half" => told'[k] < lines.webhook)
               /\ \A i \in DOMAIN t :
                    t[i].nl /\ t[i].line # 0 /\ (book' = gen => i > offset') => told'[k] < t[i].line
    <3>1. CASE k \in DOMAIN told
      BY <1>8, <2>1, <3>1
    <3>2. CASE k - Len(told) \in DOMAIN p
      <4>1. Len(told) + (k - Len(told)) = k
        BY <1>8
      <4>2. told'[k] = p[k - Len(told)]
        BY <1>8, <3>2, <4>1
      <4>3. QED BY <2>2, <3>2, <4>2
    <3>3. QED BY <1>8, <3>1, <3>2
  <2>4. QED BY <1>1, <2>3 DEF Ahead
<1>12. NoneLeft'
  <2> DEFINE dealt(line) == line \in passed' \/ \E k \in DOMAIN told' : told'[k] = line
  <2>1. \A line : Dealt(line) => dealt(line)
    <3>1. passed \subseteq passed'
      BY <1>1
    <3>2. QED BY <1>8, <3>1 DEF Dealt
  <2>2. CASE n = 0
    <3>1. UNCHANGED <<offset, book>>
      BY <1>1, <1>6, <2>2
    <3>2. QED BY <1>1, <2>1, <3>1 DEF NoneLeft, Dealt
  <2>3. CASE n # 0
    <3>1. offset <= Len(t) /\ offset' = offset + n
      BY <1>1, <1>5, <1>6, <2>3
    <3>2. ASSUME NEW i \in 1..offset, t[i].line # 0 PROVE dealt(t[i].line)
      <4>1. CASE book = gen
        BY <1>4, <2>1, <3>2, <4>1 DEF NoneLeft
      <4>2. CASE book # gen
        <5>1. t[i].line \in passed'
          BY <1>1, <1>7, <2>3, <3>1, <3>2, <4>2
        <5>2. QED BY <5>1
      <4>3. QED BY <4>1, <4>2
    <3>3. ASSUME NEW i \in (offset + 1)..(offset + n), t[i].line # 0 PROVE dealt(t[i].line)
      <4>1. CASE \E k \in DOMAIN p : p[k] = t[i].line
        BY <1>8, <4>1
      <4>2. CASE offset \in DOMAIN t /\ t[offset].line = t[i].line
        <5>1. offset \in 1..offset
          BY <1>6, <4>2
        <5>2. dealt(t[offset].line)
          BY <3>2, <3>3, <4>2, <5>1
        <5>3. QED BY <4>2, <5>2
      <4>3. QED BY <1>5, <3>3, <4>1, <4>2
    <3>4. \A i \in 1..(offset + n) : i \in 1..offset \/ i \in (offset + 1)..(offset + n)
      BY <1>5, <1>6
    <3>5. QED BY <1>1, <3>1, <3>2, <3>3, <3>4 DEF NoneLeft, Dealt
  <2>4. QED BY <2>2, <2>3
<1>13. EventLog!ToldOnce'
  <2>1. ASSUME NEW k \in DOMAIN told, NEW l \in DOMAIN p PROVE told[k] < p[l]
    <3>1. PICK i \in (offset + 1)..(offset + n) :
            i \in DOMAIN t /\ t[i].nl /\ t[i].line # 0 /\ t[i].line = p[l]
      BY <1>5
    <3>2. i > offset
      BY <1>5, <1>6
    <3>3. QED BY <1>4, <3>1, <3>2 DEF Ahead
  <2>2. ASSUME NEW k \in DOMAIN told', NEW l \in DOMAIN told', k < l
        PROVE  told'[k] < told'[l]
    <3>0. /\ Len(told) + (l - Len(told)) = l /\ Len(told) + (k - Len(told)) = k
          /\ k - Len(told) < l - Len(told)
      BY <1>8, <2>2
    <3>1. CASE l \in DOMAIN told
      <4>1. k \in DOMAIN told
        BY <1>8, <2>2, <3>1
      <4>2. told[k] < told[l]
        BY <2>2, <3>1, <4>1 DEF EventLog!ToldOnce
      <4>3. QED BY <1>8, <3>1, <4>1, <4>2
    <3>2. CASE l - Len(told) \in DOMAIN p
      <4>1. told'[l] = p[l - Len(told)]
        BY <1>8, <3>0, <3>2
      <4>2. CASE k \in DOMAIN told
        BY <1>8, <2>1, <3>2, <4>1, <4>2
      <4>3. CASE k - Len(told) \in DOMAIN p
        <5>1. told'[k] = p[k - Len(told)]
          BY <1>8, <3>0, <4>3
        <5>2. QED BY <1>5, <3>0, <3>2, <4>1, <4>3, <5>1
      <4>4. QED BY <1>8, <4>2, <4>3
    <3>3. QED BY <1>8, <3>1, <3>2
  <2>3. QED BY <2>2 DEF EventLog!ToldOnce
<1>14. QED BY <1>2, <1>9, <1>10, <1>11, <1>12, <1>13

-----------------------------------------------------------------------------
(* The theorems.                                                           *)

\* The files and the tailer.
EventLogInv == LogInv /\ TailInv

\* Nothing is written, and the tailer has not started.
LEMMA EventLogStart == EventLog!Init => EventLogInv
<1> SUFFICES ASSUME EventLog!Init PROVE EventLogInv
  OBVIOUS
<1>1. /\ text = [g \in EventLog!Gens |-> <<>>] /\ gen = 0 /\ lines = [webhook |-> 0, all |-> 0]
      /\ pen = [w \in EventLog!Writers |-> "idle"] /\ fd = [w \in EventLog!Writers |-> 0]
      /\ tail = "off" /\ offset = 0 /\ mtime = <<>> /\ stat = <<>> /\ told = <<>>
      /\ book = 0 /\ passed = {}
  BY DEF EventLog!Init
<1>2. EventLog!TypeOK
  <2>1. MaxLines \in Nat /\ MaxGens \in Nat
    BY EventLogAssumption DEF EventLogAssumption
  <2>2. told \in Seq(1..MaxLines) /\ text \in [EventLog!Gens -> Seq(EventLog!Cells)]
    BY <1>1
  <2>3. QED BY <1>1, <2>1, <2>2 DEF EventLog!TypeOK, EventLog!Times
<1>3. /\ 0 \notin EventLog!Gens /\ EventLog!Hook \in EventLog!Writers
      /\ \A g \in EventLog!Gens : text[g] = <<>> /\ DOMAIN text[g] = {}
      /\ \A w \in EventLog!Writers : pen[w] = "idle" /\ fd[w] = 0
      /\ DOMAIN told = {}
  BY <1>1, <1>2, LogTypes
<1>4. Pens /\ Halves /\ Files
  BY <1>1, <1>3 DEF Pens, Halves, Half, Files, Paired, Increasing, Counted
<1>5. TailInv
  BY <1>1, <1>3 DEF TailInv, Books, Ahead, NoneLeft, EventLog!ToldOnce
<1>6. QED BY <1>2, <1>4, <1>5 DEF EventLogInv, LogInv

\* Every step of a writer or of the tailer preserves all of it.
LEMMA EventLogStep == EventLogInv /\ [EventLog!Next]_tailVars => EventLogInv'
<1> SUFFICES ASSUME EventLogInv, [EventLog!Next]_tailVars PROVE EventLogInv'
  OBVIOUS
<1> USE DEF EventLogInv
<1>1. ASSUME NEW w \in EventLog!Writers, EventLog!Check(w) \/ EventLog!Rotate(w) \/ EventLog!Open(w)
      PROVE  EventLogInv'
  BY <1>1, PenStep, TailStays
<1>2. ASSUME NEW w \in EventLog!Writers, EventLog!WriteOther(w) PROVE EventLogInv'
  BY <1>2, OtherStep, TailStays
<1>3. CASE EventLog!WriteHook
  BY <1>3, HookStep, TailStays
<1>4. CASE EventLog!EndHook
  BY <1>4, EndStep, TailStays
<1>5. CASE EventLog!Start \/ EventLog!Stat \/ EventLog!OpenFails
  BY <1>5, LookStep
<1>6. CASE EventLog!Read
  BY <1>6, ReadStep
<1>7. CASE UNCHANGED tailVars
  BY <1>7 DEF tailVars, LogInv, EventLog!TypeOK, EventLog!Times, Pens, Halves, Half, Files,
              TailInv, Books, Created, Ahead, NoneLeft, Dealt, EventLog!ToldOnce
<1>8. QED
  BY <1>1, <1>2, <1>3, <1>4, <1>5, <1>6, <1>7 DEF EventLog!Next, EventLog!Writing, EventLog!Tailing

\* Nothing behind the offset is skipped, in the terms of the model.
LEMMA LeftIsSkipped == EventLogInv => EventLog!NoneSkipped
<1> SUFFICES ASSUME EventLogInv PROVE EventLog!NoneSkipped
  OBVIOUS
<1> USE DEF EventLogInv, LogInv
<1>1. told \in Seq(1..MaxLines) /\ DOMAIN told = 1..Len(told)
  <2>1. told \in Seq(1..MaxLines)
    BY DEF EventLog!TypeOK
  <2>2. QED BY <2>1, LenProperties
<1>2. gen # 0 => gen \in EventLog!Gens
  BY LogTypes DEF EventLog!TypeOK, EventLog!Gens
<1>3. \A line : (\E k \in DOMAIN told : told[k] = line) => EventLog!SX!Contains(told, line)
  BY <1>1 DEF EventLog!SX!Contains
<1>4. QED
  BY <1>2, <1>3 DEF EventLog!NoneSkipped, TailInv, NoneLeft, Dealt

\* The invariant holds always.
THEOREM EventLogInvariance == EventLog!Spec => []EventLogInv
<1>1. UNCHANGED EventLog!vars => UNCHANGED tailVars
  BY DEF EventLog!vars, EventLog!logVars, EventLog!tailVars, tailVars
<1>2. EventLogInv /\ [EventLog!Next]_(EventLog!vars) => EventLogInv'
  BY <1>1, EventLogStep
<1>3. QED BY EventLogStart, <1>2, PTL DEF EventLog!Spec

\* Type correctness of the log and its tailer (append_line, Tailer).
THEOREM EventLogTypeCorrect == EventLog!Spec => []EventLog!TypeOK
<1>1. EventLogInv => EventLog!TypeOK
  BY DEF EventLogInv, LogInv
<1>2. QED BY <1>1, EventLogInvariance, PTL

\* No webhook is returned twice, none overtakes another (Tailer::poll).
THEOREM TailTellsOnce == EventLog!Spec => []EventLog!ToldOnce
<1>1. EventLogInv => EventLog!ToldOnce
  BY DEF EventLogInv, TailInv
<1>2. QED BY <1>1, EventLogInvariance, PTL

\* What the offset has passed was returned (Tailer::poll and the offset it
\* advances to the last newline only).
THEOREM TailSkipsNone == EventLog!Spec => []EventLog!NoneSkipped
  BY LeftIsSkipped, EventLogInvariance, PTL

\* The three files side by side, as the runs check them.
LocalInv == IInv /\ DeadIsAttended /\ FileInv /\ EventLogInv

\* A step of one leaves the others at rest.
THEOREM LocalFilesInvariance == MCSpec => []LocalInv
<1>1. MCInit => LocalInv
  <2>1. Init => DeadIsAttended
    BY DEF Init, DeadIsAttended
  <2>2. QED BY <2>1, BoundInit, InitHolds, EventLogStart DEF MCInit, LocalInv
<1>2. LocalInv /\ [MCNext]_<<part, vars, tailVars, fileVars>> => LocalInv'
  <2>1. SUFFICES ASSUME LocalInv, [MCNext]_<<part, vars, tailVars, fileVars>> PROVE LocalInv'
    OBVIOUS
  <2>2. [Next]_vars /\ [FileNext]_fileVars /\ [EventLog!Next]_tailVars
    BY <2>1 DEF MCNext
  <2>3. IInv' /\ FileInv' /\ EventLogInv'
    BY <2>1, <2>2, BoundStep, StepKeeps, EventLogStep DEF LocalInv
  <2>4. DeadIsAttended'
    BY <2>1, <2>2, AttendedStep DEF LocalInv, IInv
  <2>5. QED BY <2>3, <2>4 DEF LocalInv
<1>3. QED BY <1>1, <1>2, PTL DEF MCSpec

\* Type correctness of all three.
THEOREM LocalFilesTypeCorrect == MCSpec => []AllTypeOK
<1>1. LocalInv => AllTypeOK
  BY DEF LocalInv, AllTypeOK, IInv, FileInv, EventLogInv, LogInv
<1>2. QED BY <1>1, LocalFilesInvariance, PTL

\* Webhooks are returned once and in order, in the instance the runs check.
THEOREM LocalFilesToldOnce == MCSpec => []ToldOnce
<1>1. LocalInv => ToldOnce
  BY DEF LocalInv, ToldOnce, EventLogInv, TailInv
<1>2. QED BY <1>1, LocalFilesInvariance, PTL

\* What the offset has passed was returned, in the instance the runs check.
THEOREM LocalFilesNoneSkipped == MCSpec => []NoneSkipped
<1>1. LocalInv => NoneSkipped
  BY LeftIsSkipped DEF LocalInv, NoneSkipped
<1>2. QED BY <1>1, LocalFilesInvariance, PTL

\* The bound on restarts, the dead panes somebody attends to, and the file
\* that is whole unless rewrites overlapped, in the instance the runs check
\* (recover_pane.go, subscriptions.rs).
THEOREM LocalFilesSafe == MCSpec => [](RestartsBounded /\ DeadIsAttended /\ AloneAtomic)
<1>1. LocalInv => RestartsBounded /\ DeadIsAttended /\ AloneAtomic
  BY RestartsSplit DEF LocalInv, IInv, FileInv, Alone, AloneAtomic
<1>2. QED BY <1>1, LocalFilesInvariance, PTL
=============================================================================
