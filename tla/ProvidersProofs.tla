--------------------------- MODULE ProvidersProofs ---------------------------
(***************************************************************************)
(* The caches of the daemon, each by itself and the three together.        *)
(*                                                                         *)
(* GitHub: what GhCache says of one pull request, for any set of callers   *)
(* and any number of revisions.  The invariant adds that a caller with an  *)
(* answer in its hand holds one of the kind it asked for.                  *)
(* Conversations: the cache catches up with its files, for any             *)
(* transcripts, readers and channel capacity.  What a job has read and not *)
(* yet put into the cache is what the file holds, or about to be read      *)
(* again.                                                                  *)
(* tmux: every subscriber is told of the last change of its node, for any  *)
(* items, stores, subscribers and capacity.                                *)
(***************************************************************************)
EXTENDS MCProviders, FiniteSetTheorems, SequenceTheorems, TLAPS

(* GitHub.                                                                 *)

\* An answer is of the kind its caller asked for, and only ListPullRequests
\* goes on to seed the entries (provider.go, graphql_enrich.go).
AnswersFit ==
  \A c \in Callers :
    /\ pc[c] \in {"answered", "seed"} =>
         reply[c] \in IF kind[c] \in {"list", "get"} THEN Payloads ELSE Enrichments
    /\ pc[c] = "seed" => kind[c] = "list"

IInv == TypeOK /\ AnswersFit /\ StampedIsEnriched /\ NoHardUnknown

-----------------------------------------------------------------------------
\* None is no entry, payload or enrichment.
LEMMA NoneApart ==
  /\ 0 \in Revs
  /\ None \notin Payloads /\ None \notin Enrichments /\ None \notin Entries
  BY GhAssumption DEF GhAssumption, Revs

\* The daemon starts with an empty cache.
LEMMA InitHolds == Init => IInv
  <1>1. Init => TypeOK
    <2> SUFFICES ASSUME Init PROVE TypeOK
      OBVIOUS
    <2>1. hub \in [rev : Revs, state : {"open", "over"}, sure : BOOLEAN]
      BY NoneApart DEF Init
    <2>2. /\ entry \in Entries \cup {None} /\ entryNew \in BOOLEAN
          /\ stamp \in {"none", "fresh", "old"} /\ list \in Payloads \cup {None}
          /\ cooldown \in BOOLEAN /\ hook \in BOOLEAN
      BY DEF Init
    <2>3. hooks \in 0..1
      BY DEF Init
    <2>4. /\ pc \in [Callers -> {"idle", "asked", "answered", "seed"}]
          /\ kind \in [Callers -> Kinds]
          /\ reply \in [Callers -> Payloads \cup Enrichments \cup {None}]
      BY DEF Init, Kinds
    <2> QED
      BY <2>1, <2>2, <2>3, <2>4 DEF TypeOK
  <1>2. Init => AnswersFit
    BY DEF Init, AnswersFit
  <1> QED
    BY <1>1, <1>2 DEF IInv, Init, StampedIsEnriched, NoHardUnknown

\* What a REST payload leaves in the cache (ListPullRequests, GetPullRequest):
\* an entry of the right type whose stamp still vouches for its fields.
LEMMA StoreKeeps ==
  ASSUME IInv, NEW p \in Payloads, StorePayload(p)
  PROVE  /\ entry' \in Entries /\ entryNew' \in BOOLEAN
         /\ stamp' \in {"none", "fresh", "old"}
         /\ StampedIsEnriched' /\ NoHardUnknown'
  <1> DEFINE keep == entry # None /\ StillValid(entry, p)
  <1>0. /\ entry \in Entries \cup {None}
        /\ stamp \in {"none", "fresh", "old"}
        /\ p.rev \in Revs /\ p.state \in {"open", "over"}
    BY DEF IInv, TypeOK, Payloads
  <1>1. CASE keep
    <2>1. /\ entry \in Entries /\ entry.state = p.state
          /\ entry' = [rev |-> p.rev, state |-> p.state, fields |-> entry.fields]
          /\ stamp' = stamp /\ entryNew' = TRUE
      BY <1>0, <1>1 DEF StorePayload, StillValid, Carried
    <2>2. entry.fields \in Enrichments \cup {None}
      BY <2>1 DEF Entries
    <2>3. entry' \in Entries
      BY <1>0, <2>1, <2>2 DEF Entries
    <2>4. entry' # None
      BY <2>3, NoneApart
    <2>5. StampedIsEnriched' /\ NoHardUnknown'
      BY <2>1, <2>4 DEF IInv, StampedIsEnriched, NoHardUnknown
    <2> QED
      BY <1>0, <2>1, <2>3, <2>5
  <1>2. CASE ~keep
    <2>1. /\ entry' = [rev |-> p.rev, state |-> p.state, fields |-> None]
          /\ stamp' = "none" /\ entryNew' = TRUE
      BY <1>2 DEF StorePayload
    <2> QED
      BY <1>0, <2>1 DEF Entries, StampedIsEnriched, NoHardUnknown
  <1> QED
    BY <1>1, <1>2

\* What an enrichment leaves there (applyEnrichment): UNKNOWN is stamped only
\* onto a pull request that is not known to be open.
LEMMA EnrichKeeps ==
  ASSUME IInv, NEW c \in Callers, ApplyEnrichment(c)
  PROVE  /\ entry' \in Entries \cup {None} /\ entryNew' \in BOOLEAN
         /\ stamp' \in {"none", "fresh", "old"}
         /\ StampedIsEnriched' /\ NoHardUnknown'
  <1>1. reply[c] \in Enrichments
    BY DEF IInv, AnswersFit, ApplyEnrichment
  <1>2. Base \in Entries
    <2>1. CASE entry = None
      BY <2>1, NoneApart DEF Base, Entries
    <2>2. CASE entry # None
      BY <2>2 DEF Base, IInv, TypeOK
    <2> QED
      BY <2>1, <2>2
  <1>3. CASE ShouldCache(reply[c].sure, Base.state)
    <2>1. /\ entry' = [Base EXCEPT !.fields = reply[c]]
          /\ stamp' = "fresh" /\ entryNew' = (entryNew /\ entry # None)
      BY <1>3 DEF ApplyEnrichment
    <2>2. /\ entry' \in Entries
          /\ entry'.fields = reply[c] /\ entry'.state = Base.state
      BY <1>1, <1>2, <2>1 DEF Entries
    <2>3. entry' # None /\ reply[c] # None
      BY <1>1, <2>2, NoneApart
    <2>4. entry'.state = "open" => reply[c].sure
      BY <1>3, <2>2 DEF ShouldCache
    <2>5. entryNew' \in BOOLEAN
      BY <2>1
    <2> QED
      BY <2>1, <2>2, <2>3, <2>4, <2>5 DEF StampedIsEnriched, NoHardUnknown
  <1>4. CASE ~ShouldCache(reply[c].sure, Base.state)
    <2>1. UNCHANGED <<entry, stamp, entryNew>>
      BY <1>4 DEF ApplyEnrichment
    <2> QED
      BY <2>1 DEF IInv, TypeOK, StampedIsEnriched, NoHardUnknown
  <1> QED
    BY <1>3, <1>4

\* How a call ends: what it holds of GitHub's answer is dropped, unless the
\* list goes on to its seeds.
LEMMA FinishKeeps ==
  ASSUME IInv, NEW c \in Callers, NEW next \in {"idle", "seed"}, Finish(c, next),
         next = "seed" => pc[c] = "answered" /\ kind[c] = "list"
  PROVE  /\ hub' = hub /\ hook' = hook /\ hooks' = hooks
         /\ pc' \in [Callers -> {"idle", "asked", "answered", "seed"}]
         /\ kind' \in [Callers -> Kinds]
         /\ reply' \in [Callers -> Payloads \cup Enrichments \cup {None}]
         /\ AnswersFit'
  <1>1. /\ UNCHANGED <<hub, kind, hook, hooks>>
        /\ pc' = [pc EXCEPT ![c] = next]
        /\ reply' \in {reply, [reply EXCEPT ![c] = None]}
        /\ next = "seed" => reply' = reply
    BY DEF Finish
  <1>2. /\ pc' \in [Callers -> {"idle", "asked", "answered", "seed"}]
        /\ kind' \in [Callers -> Kinds]
        /\ reply' \in [Callers -> Payloads \cup Enrichments \cup {None}]
    BY <1>1 DEF IInv, TypeOK
  <1>3. ASSUME NEW d \in Callers
        PROVE  /\ pc'[d] \in {"answered", "seed"} =>
                    reply'[d] \in IF kind'[d] \in {"list", "get"} THEN Payloads
                                                                ELSE Enrichments
               /\ pc'[d] = "seed" => kind'[d] = "list"
    <2>1. CASE d = c
      BY <1>1, <2>1 DEF IInv, TypeOK, AnswersFit
    <2>2. CASE d # c
      <3>1. pc'[d] = pc[d] /\ reply'[d] = reply[d] /\ kind'[d] = kind[d]
        BY <1>1, <2>2 DEF IInv, TypeOK
      <3> QED
        BY <3>1 DEF IInv, AnswersFit
    <2> QED
      BY <2>1, <2>2
  <1> QED
    BY <1>1, <1>2, <1>3 DEF AnswersFit

-----------------------------------------------------------------------------
(* One lemma per group of actions.                                         *)

\* GitHub and the clock: a stamp may expire, what is cached stays.
LEMMA WorldStep ==
  ASSUME IInv, Change \/ Compute \/ Age
  PROVE  IInv'
  <1>1. CASE Change
    <2>1. hub' \in [rev : Revs, state : {"open", "over"}, sure : BOOLEAN]
      <3>1. hub.rev + 1 \in Revs
        BY <1>1, GhAssumption DEF Change, IInv, TypeOK, GhAssumption, Revs
      <3> QED
        BY <1>1, <3>1 DEF Change
    <2> QED
      BY <1>1, <2>1 DEF Change, IInv, TypeOK, AnswersFit, StampedIsEnriched,
           NoHardUnknown, cacheVars
  <1>2. CASE Compute
    BY <1>2 DEF Compute, IInv, TypeOK, AnswersFit, StampedIsEnriched, NoHardUnknown,
         cacheVars
  <1>3. CASE Age
    BY <1>3 DEF Age, IInv, TypeOK, AnswersFit, StampedIsEnriched, NoHardUnknown
  <1> QED
    BY <1>1, <1>2, <1>3

\* A caller asks, and is answered or refused: the cache is not touched.
LEMMA AskStep ==
  ASSUME IInv, NEW c \in Callers,
         Answer(c) \/ Refuse(c) \/ \E k \in Kinds : Ask(c, k)
  PROVE  IInv'
  <1>1. /\ UNCHANGED <<hub, entry, entryNew, stamp, list, hook, hooks>>
        /\ cooldown' \in BOOLEAN
    BY DEF Answer, Refuse, Ask, cacheVars, IInv, TypeOK
  <1>2. /\ pc' \in [Callers -> {"idle", "asked", "answered", "seed"}]
        /\ kind' \in [Callers -> Kinds]
        /\ reply' \in [Callers -> Payloads \cup Enrichments \cup {None}]
        /\ AnswersFit'
    <2>1. ASSUME NEW k \in Kinds, Ask(c, k)
          PROVE  <1>2!1 /\ <1>2!2 /\ <1>2!3 /\ <1>2!4
      BY <2>1 DEF Ask, IInv, TypeOK, AnswersFit
    <2>2. CASE Answer(c)
      <3>1. hub.rev \in Revs /\ hub.state \in {"open", "over"} /\ hub.sure \in BOOLEAN
        BY DEF IInv, TypeOK
      <3>2. /\ [rev |-> hub.rev, state |-> hub.state] \in Payloads
            /\ [of |-> hub.rev, sure |-> hub.sure] \in Enrichments
        BY <3>1 DEF Payloads, Enrichments
      <3> QED
        BY <2>2, <3>2 DEF Answer, IInv, TypeOK, AnswersFit
    <2>3. CASE Refuse(c)
      BY <2>3 DEF Refuse, IInv, TypeOK, AnswersFit
    <2> QED
      BY <2>1, <2>2, <2>3
  <1> QED
    BY <1>1, <1>2 DEF IInv, TypeOK, StampedIsEnriched, NoHardUnknown

\* A caller writes what it was answered.
LEMMA ApplyStep ==
  ASSUME IInv, NEW c \in Callers, Apply(c)
  PROVE  IInv'
  <1>1. CASE ApplyGet(c) \/ Seed(c)
    <2>1. reply[c] \in Payloads
      BY <1>1 DEF ApplyGet, Seed, IInv, AnswersFit
    <2>2. StorePayload(reply[c]) /\ Finish(c, "idle") /\ UNCHANGED <<list, cooldown>>
      BY <1>1 DEF ApplyGet, Seed
    <2> QED
      BY <2>1, <2>2, StoreKeeps, FinishKeeps DEF IInv, TypeOK
  <1>2. CASE ApplyList(c)
    <2>1. /\ reply[c] \in Payloads /\ pc[c] = "answered" /\ kind[c] = "list"
          /\ list' = reply[c] /\ Finish(c, "seed")
          /\ UNCHANGED <<entry, entryNew, stamp, cooldown>>
      BY <1>2 DEF ApplyList, IInv, AnswersFit
    <2> QED
      BY <2>1, FinishKeeps DEF IInv, TypeOK, StampedIsEnriched, NoHardUnknown
  <1>3. CASE ApplyEnrichment(c)
    <2>1. Finish(c, "idle") /\ UNCHANGED list /\ cooldown' \in {cooldown, FALSE}
      BY <1>3 DEF ApplyEnrichment
    <2> QED
      BY <1>3, <2>1, EnrichKeeps, FinishKeeps DEF IInv, TypeOK
  <1> QED
    BY <1>1, <1>2, <1>3 DEF Apply

\* A webhook delivery drops the entry together with its stamp (dropPRCache).
LEMMA WebhookStep ==
  ASSUME IInv, WebhookDrop \/ WebhookDropLists
  PROVE  IInv'
  <1>1. TypeOK'
    <2>1. CASE WebhookDrop
      <3>1. /\ entry' \in Entries \cup {None} /\ entryNew' \in BOOLEAN
            /\ stamp' \in {"none", "fresh", "old"}
            /\ hook' \in BOOLEAN
        BY <2>1, Zenon DEF WebhookDrop
      <3>2. hooks' \in 0..1
        BY <2>1, SMT DEF WebhookDrop
      <3> QED
        BY <2>1, <3>1, <3>2 DEF WebhookDrop, IInv, TypeOK
    <2>2. CASE WebhookDropLists
      <3>1. list' \in Payloads \cup {None} /\ hook' \in BOOLEAN
        BY <2>2 DEF WebhookDropLists
      <3> QED
        BY <2>2, <3>1 DEF WebhookDropLists, IInv, TypeOK
    <2> QED
      BY <2>1, <2>2
  <1>2. AnswersFit' /\ StampedIsEnriched' /\ NoHardUnknown'
    BY DEF WebhookDrop, WebhookDropLists, IInv, AnswersFit, StampedIsEnriched,
         NoHardUnknown
  <1> QED
    BY <1>1, <1>2 DEF IInv

\* Every step preserves the invariant.
LEMMA StepKeeps == IInv /\ [Next]_vars => IInv'
  <1> SUFFICES ASSUME IInv, [Next]_vars PROVE IInv'
    OBVIOUS
  <1>1. CASE Next
    BY <1>1, WorldStep, AskStep, ApplyStep, WebhookStep DEF Next
  <1>2. CASE UNCHANGED vars
    BY <1>2 DEF vars, IInv, TypeOK, AnswersFit, StampedIsEnriched, NoHardUnknown
  <1> QED
    BY <1>1, <1>2

-----------------------------------------------------------------------------
\* The invariant holds in every reachable state of the cache.
THEOREM GhInvariance == Spec => []IInv
  BY InitHolds, StepKeeps, PTL DEF Spec

\* Type correctness of the pull-request cache.
THEOREM GhTypeCorrect == Spec => []TypeOK
  <1>1. IInv => TypeOK
    BY DEF IInv
  <1> QED
    BY <1>1, GhInvariance, PTL

\* No REST refresh, webhook or enrichment leaves a time stamp over blank
\* enrichment fields (carryEnrichment), for any callers and revisions.
THEOREM StampVouches == Spec => []StampedIsEnriched
  <1>1. IInv => StampedIsEnriched
    BY DEF IInv
  <1> QED
    BY <1>1, GhInvariance, PTL

\* An uncomputed verdict is never stamped onto an open pull request
\* (shouldCacheEnrichment), in whatever order replies arrive.
THEOREM UnknownNotKept == Spec => []NoHardUnknown
  <1>1. IInv => NoHardUnknown
    BY DEF IInv
  <1> QED
    BY <1>1, GhInvariance, PTL

-----------------------------------------------------------------------------
(* Conversations.                                                          *)

\* An event for k is on its way.
Pending(k) == <<"file", k>> \in events \/ Contains(out, k)

\* What the job in hand has read is right, or an event says it is not.
JobRight ==
  \A k \in Keys \ missed :
    /\ job = "boot" => k \in left \/ got[k] = disk[k]
    /\ job = "watch" => cache[k] = disk[k]
    /\ job = "walk" => k \in left \/ got[k] = disk[k] \/ Pending(k)
    /\ job = "put" /\ jobKey = k => got[k] = disk[k] \/ Pending(k)

\* What is cached is right, or its key is on its way or in hand.
CacheRight ==
  \A k \in Keys \ missed :
    \/ job \in {"boot", "watch", "walk"} \/ cache[k] = disk[k] \/ Pending(k)
    \/ job \in {"read", "put"} /\ jobKey = k

\* Before the watch nothing tells of a change.
NoneYet == ~Watching => \A k \in Keys : <<"file", k>> \notin events

CacheInv == CacheTypeOK /\ JobRight /\ CacheRight /\ NoneYet

-----------------------------------------------------------------------------
(* Types.                                                                  *)

\* There is a transcript to start from.
LEMMA SomeKeyType == SomeKey \in Keys
  BY CacheAssumption DEF CacheAssumption, SomeKey

\* The types hold at first.
LEMMA TypeInit == CacheInit => CacheTypeOK
<1> SUFFICES ASSUME CacheInit PROVE CacheTypeOK
  OBVIOUS
<1>1. disk \in Contents /\ cache \in Contents /\ got \in Contents
  BY DEF CacheInit, Contents, Nothing
<1>2. writes \in 0..MaxWrites /\ out \in Seq(Keys) /\ Len(out) <= Slots
  BY CacheAssumption DEF CacheInit, CacheAssumption
<1>3. QED BY <1>1, <1>2, SomeKeyType DEF CacheInit, CacheTypeOK

\* Every step keeps the types.
LEMMA TypeStep == CacheTypeOK /\ [CacheNext]_transcriptVars => CacheTypeOK'
<1> SUFFICES ASSUME CacheTypeOK, [CacheNext]_transcriptVars PROVE CacheTypeOK'
  OBVIOUS
<1> USE CacheAssumption DEF CacheTypeOK, worldVars, watchVars, jobVars, readerVars
<1>1. ASSUME NEW k \in Keys, Write(k) PROVE CacheTypeOK'
  <2>1. writes' \in 0..MaxWrites
    BY <1>1 DEF Write, CacheAssumption
  <2>2. disk' \in Contents
    BY <1>1 DEF Write, Contents
  <2>3. QED BY <1>1, <2>1, <2>2 DEF Write
<1>2. ASSUME NEW k \in Keys, MakeDir(k) PROVE CacheTypeOK'
  BY <1>2 DEF MakeDir
<1>3. ASSUME NEW k \in Keys, CoverDir(k) \/ Emit(k) PROVE CacheTypeOK'
  <2>1. CASE Emit(k)
    <3>1. CASE HasRoom
      <4>1. out' = Append(out, k) /\ Len(out) < Slots /\ Slots \in Nat
        BY <2>1, <3>1 DEF Emit, HasRoom, CacheAssumption
      <4>2. out' \in Seq(Keys) /\ Len(out') = Len(out) + 1 /\ Len(out) \in Nat
        BY <4>1
      <4>3. Len(out') <= Slots
        BY <4>1, <4>2
      <4>4. QED BY <2>1, <4>2, <4>3 DEF Emit
    <3>2. CASE ~HasRoom
      BY <2>1, <3>2 DEF Emit
    <3>3. QED BY <3>1, <3>2
  <2>2. CASE CoverDir(k)
    BY <2>2 DEF CoverDir
  <2>3. QED BY <1>3, <2>1, <2>2
<1>4. ASSUME NEW k \in Keys, ReadFile(k) PROVE CacheTypeOK'
  BY <1>4 DEF ReadFile, Contents
<1>5. CASE Swap
  BY <1>5 DEF Swap, Reloaded
<1>6. CASE Watch
  BY <1>6 DEF Watch
<1>7. CASE TakeKey
  <2>1. Head(out) \in Keys /\ Tail(out) \in Seq(Keys) /\ Len(Tail(out)) <= Slots
    BY <1>7 DEF TakeKey, CacheAssumption
  <2>2. QED BY <1>7, <2>1 DEF TakeKey, Nothing, Contents
<1>8. CASE ReadKey
  BY <1>8 DEF ReadKey, Contents
<1>9. CASE PutKey
  BY <1>9 DEF PutKey, Refreshed, Contents
<1>10. ASSUME NEW r \in Readers,
              Get(r) \/ Fetch(r) \/ Put(r) \/ \E k \in Keys : Found(r, k)
       PROVE  CacheTypeOK'
  BY <1>10 DEF Get, Fetch, Put, Found, Contents
<1>11. CASE UNCHANGED transcriptVars
  BY <1>11 DEF transcriptVars
<1>12. QED BY <1>1, <1>2, <1>3, <1>4, <1>5, <1>6, <1>7, <1>8, <1>9, <1>10, <1>11
          DEF CacheNext, Run

-----------------------------------------------------------------------------
(* Keys on their way.                                                      *)

\* What is in a channel stays in it when another key is sent, or another
\* one received.
LEMMA ContainsAppend ==
  ASSUME NEW s \in Seq(Keys), NEW k \in Keys
  PROVE  /\ Contains(Append(s, k), k)
         /\ \A j \in Keys : Contains(s, j) => Contains(Append(s, k), j)
<1>1. Len(s) + 1 \in 1..Len(Append(s, k)) /\ Append(s, k)[Len(s) + 1] = k
  OBVIOUS
<1>2. \A i \in 1..Len(s) : i \in 1..Len(Append(s, k)) /\ Append(s, k)[i] = s[i]
  OBVIOUS
<1>3. QED BY <1>1, <1>2 DEF Contains

\* What a sequence contains is its head, or among the rest.
LEMMA ContainsTail ==
  ASSUME NEW s \in Seq(Keys), s # <<>>, NEW j \in Keys, Contains(s, j), j # Head(s)
  PROVE  Contains(Tail(s), j)
<1>1. PICK i \in 1..Len(s) : s[i] = j
  BY DEF Contains
<1>2. i # 1 /\ i - 1 \in 1..Len(Tail(s)) /\ Tail(s)[i - 1] = j
  BY <1>1
<1>3. QED BY <1>2 DEF Contains

\* Once a change of k is not missed, its event stays until the job takes it.
LEMMA PendingStays ==
  ASSUME CacheTypeOK, NEW k \in Keys, Pending(k), k \notin missed',
         \/ UNCHANGED <<events, out>>
         \/ UNCHANGED out /\ events \subseteq events'
         \/ \E j \in Keys : Emit(j)
         \/ \E j \in Keys : CoverDir(j)
         \/ TakeKey /\ k # Head(out)
  PROVE  Pending(k)'
<1>1. CASE UNCHANGED out /\ events \subseteq events'
  BY <1>1 DEF Pending
<1>2. ASSUME NEW j \in Keys, CoverDir(j) PROVE Pending(k)'
  BY <1>2 DEF CoverDir, Pending
<1>3. ASSUME NEW j \in Keys, Emit(j) PROVE Pending(k)'
  <2>1. CASE HasRoom
    <3>1. out \in Seq(Keys) /\ out' = Append(out, j) /\ events' = events \ {<<"file", j>>}
      BY <1>3, <2>1 DEF CacheTypeOK, Emit
    <3>2. QED BY <3>1, ContainsAppend DEF Pending
  <2>2. CASE ~HasRoom
    <3>1. /\ out' = out /\ events' = events \ {<<"file", j>>}
          /\ j \notin missed' => Contains(out, j)
      BY <1>3, <2>2 DEF Emit
    <3>2. QED BY <3>1 DEF Pending
  <2>3. QED BY <2>1, <2>2
<1>4. CASE TakeKey /\ k # Head(out)
  <2>1. out \in Seq(Keys) /\ out # <<>> /\ out' = Tail(out) /\ events' = events
    BY <1>4 DEF CacheTypeOK, TakeKey
  <2>2. QED BY <1>4, <2>1, ContainsTail DEF Pending
<1>5. QED BY <1>1, <1>2, <1>3, <1>4

-----------------------------------------------------------------------------
(* The invariant.                                                          *)

\* Claude Code's writes: what no event tells of is missed.
LEMMA CacheWorldStep ==
  ASSUME CacheInv, NEW j \in Keys, Write(j) \/ MakeDir(j)
  PROVE  JobRight' /\ CacheRight'
<1>1. /\ UNCHANGED <<out, job, jobKey, left, got, cache>> /\ events \subseteq events'
      /\ missed \subseteq missed'
      /\ \A k \in Keys \ {j} : disk'[k] = disk[k]
  BY DEF CacheInv, CacheTypeOK, Contents, Write, MakeDir, jobVars
<1>2. \A k \in Keys \ missed' : Pending(k) => Pending(k)'
  BY <1>1, PendingStays DEF CacheInv
<1>3. \/ disk'[j] = disk[j]
      \/ j \in missed'
      \/ job \notin {"boot", "watch"} /\ Pending(j)'
  BY DEF Write, MakeDir, Watching, Pending
<1>4. QED BY <1>1, <1>2, <1>3 DEF CacheInv, JobRight, CacheRight

\* The watcher: an event goes to the channel, or its key is missed.
LEMMA WatcherStep ==
  ASSUME CacheInv, NEW j \in Keys, CoverDir(j) \/ Emit(j)
  PROVE  JobRight' /\ CacheRight'
<1>1. UNCHANGED <<disk, job, jobKey, left, got, cache>>
  BY DEF CoverDir, Emit, worldVars, jobVars
<1>2. \A k \in Keys \ missed' : Pending(k) => Pending(k)'
  BY PendingStays DEF CacheInv
<1>3. \A k \in Keys \ missed' : k \notin missed \/ Pending(k)'
  <2>1. CASE CoverDir(j)
    BY <2>1 DEF CoverDir
  <2>2. CASE Emit(j) /\ HasRoom
    <3>1. out \in Seq(Keys) /\ out' = Append(out, j) /\ missed' = missed \ {j}
      BY <2>2 DEF CacheInv, CacheTypeOK, Emit
    <3>2. Contains(out', j)
      BY <3>1, ContainsAppend
    <3>3. QED BY <3>1, <3>2 DEF Pending
  <2>3. CASE Emit(j) /\ ~HasRoom
    BY <2>3 DEF Emit
  <2>4. QED BY <2>1, <2>2, <2>3
<1>4. missed' = missed \/ Watching
  BY DEF CacheInv, NoneYet, CoverDir, Emit
<1>5. QED BY <1>1, <1>2, <1>3, <1>4 DEF CacheInv, JobRight, CacheRight, Watching

\* The walk: each file is read as it is, or its change is missed.
LEMMA WalkStep ==
  ASSUME CacheInv, (\E j \in Keys : ReadFile(j)) \/ Swap \/ Watch
  PROVE  JobRight' /\ CacheRight'
<1>1. UNCHANGED <<disk, events, out, jobKey>> /\ missed \subseteq missed'
  BY DEF ReadFile, Swap, Watch, worldVars, watchVars
<1>2. \A k \in Keys : Pending(k)' <=> Pending(k)
  BY <1>1 DEF Pending
<1>3. ASSUME NEW j \in Keys, ReadFile(j) PROVE JobRight' /\ CacheRight'
  <2>1. /\ job \in {"boot", "walk"} /\ job' = job /\ cache' = cache /\ left' = left \ {j}
        /\ \A k \in Keys \ {j} : got'[k] = got[k]
        /\ got'[j] = disk[j] \/ j \in missed'
    BY <1>3 DEF ReadFile, CacheInv, CacheTypeOK, Contents
  <2>2. QED BY <1>1, <1>2, <2>1 DEF CacheInv, JobRight, CacheRight
<1>4. CASE Swap
  <2>1. /\ left = {} /\ job \in {"boot", "walk"} /\ cache' = got /\ missed' = missed
        /\ got' = got /\ job' = IF job = "boot" THEN "watch" ELSE "idle"
    BY <1>4 DEF Swap, Reloaded
  <2>2. QED BY <1>1, <1>2, <2>1 DEF CacheInv, JobRight, CacheRight
<1>5. CASE Watch
  <2>1. /\ job = "watch" /\ job' = "idle" /\ UNCHANGED <<cache, got, left, missed>>
    BY <1>5 DEF Watch
  <2>2. QED BY <1>1, <1>2, <2>1 DEF CacheInv, JobRight, CacheRight
<1>6. QED BY <1>3, <1>4, <1>5

\* run and refreshOne: a key that is taken is read, one that is read is put.
LEMMA RefreshStep ==
  ASSUME CacheInv, TakeKey \/ ReadKey \/ PutKey
  PROVE  JobRight' /\ CacheRight'
<1>1. disk' = disk /\ events' = events /\ missed \subseteq missed'
  BY DEF TakeKey, ReadKey, PutKey, worldVars, watchVars
<1>2. CASE TakeKey
  <2>1. /\ job = "idle" /\ cache' = cache /\ missed' = missed /\ jobKey' = Head(out)
        /\ job' = "read" \/ (job' = "walk" /\ left' = Keys)
    BY <1>2 DEF TakeKey
  <2>2. \A k \in Keys \ missed : k # Head(out) /\ Pending(k) => Pending(k)'
    BY <1>2, <2>1, PendingStays DEF CacheInv
  <2>3. QED BY <1>1, <2>1, <2>2 DEF CacheInv, JobRight, CacheRight
<1>3. CASE ReadKey
  <2>1. /\ job = "read" /\ jobKey \in Keys /\ UNCHANGED <<out, cache, jobKey>>
        /\ \/ job' = "put" /\ got'[jobKey] = disk[jobKey]
           \/ job' = "idle" /\ jobKey \in missed'
    BY <1>3 DEF ReadKey, CacheInv, CacheTypeOK, Contents, watchVars
  <2>2. \A k \in Keys : Pending(k)' <=> Pending(k)
    BY <1>1, <2>1 DEF Pending
  <2>3. QED BY <1>1, <2>1, <2>2 DEF CacheInv, JobRight, CacheRight
<1>4. CASE PutKey
  <2>1. /\ job = "put" /\ job' = "idle" /\ jobKey \in Keys
        /\ UNCHANGED <<out, got, jobKey, missed>>
        /\ cache'[jobKey] = got[jobKey]
        /\ \A k \in Keys \ {jobKey} : cache'[k] = cache[k]
    BY <1>4 DEF PutKey, Refreshed, CacheInv, CacheTypeOK, Contents, watchVars
  <2>2. \A k \in Keys : Pending(k)' <=> Pending(k)
    BY <1>1, <2>1 DEF Pending
  <2>3. QED BY <1>1, <2>1, <2>2 DEF CacheInv, JobRight, CacheRight
<1>5. QED BY <1>2, <1>3, <1>4

\* Readers: a read-through that was overtaken is one of the changes missed.
LEMMA ReaderStep ==
  ASSUME CacheInv, NEW r \in Readers,
         Get(r) \/ Fetch(r) \/ Put(r) \/ \E k \in Keys : Found(r, k)
  PROVE  JobRight' /\ CacheRight'
<1>1. UNCHANGED <<disk, events, out, job, jobKey, left, got>> /\ missed \subseteq missed'
  BY DEF Get, Fetch, Put, Found, worldVars, watchVars, jobVars
<1>2. \A k \in Keys : Pending(k)' <=> Pending(k)
  BY <1>1 DEF Pending
<1>3. \A k \in Keys \ missed' : cache'[k] = cache[k] \/ cache'[k] = disk[k]
  BY DEF Get, Fetch, Put, Found, CacheInv, CacheTypeOK, Contents
<1>4. QED BY <1>1, <1>2, <1>3 DEF CacheInv, JobRight, CacheRight

\* File events come with the watch.
LEMMA NoneYetStep == CacheTypeOK /\ NoneYet /\ [CacheNext]_transcriptVars => NoneYet'
<1> SUFFICES ASSUME CacheTypeOK, NoneYet, [CacheNext]_transcriptVars, ~Watching'
             PROVE  ~Watching /\ \A k \in Keys : <<"file", k>> \in events' => <<"file", k>> \in events
  BY DEF NoneYet
<1> USE DEF Watching, worldVars, watchVars, jobVars
<1>1. ASSUME NEW j \in Keys, Write(j) \/ MakeDir(j) \/ CoverDir(j) \/ Emit(j) \/ ReadFile(j)
      PROVE  ~Watching /\ \A k \in Keys : <<"file", k>> \in events' => <<"file", k>> \in events
  BY <1>1 DEF Write, MakeDir, CoverDir, Emit, ReadFile
<1>2. ASSUME NEW r \in Readers, Get(r) \/ Fetch(r) \/ Put(r) \/ \E k \in Keys : Found(r, k)
      PROVE  ~Watching /\ UNCHANGED events
  BY <1>2 DEF Get, Fetch, Put, Found
<1>3. CASE Run
  BY <1>3 DEF Run, Swap, Watch, TakeKey, ReadKey, PutKey
<1>4. CASE UNCHANGED transcriptVars
  BY <1>4 DEF transcriptVars
<1>5. QED BY <1>1, <1>2, <1>3, <1>4 DEF CacheNext

\* Every step preserves the invariant.
LEMMA CacheStepKeeps == CacheInv /\ [CacheNext]_transcriptVars => CacheInv'
<1> SUFFICES ASSUME CacheInv, [CacheNext]_transcriptVars PROVE CacheInv'
  OBVIOUS
<1>1. CacheTypeOK' /\ NoneYet'
  BY TypeStep, NoneYetStep DEF CacheInv
<1>2. CASE CacheNext
  <2>1. JobRight' /\ CacheRight'
    BY <1>2, CacheWorldStep, WatcherStep, WalkStep, RefreshStep, ReaderStep DEF CacheNext, Run
  <2>2. QED BY <1>1, <2>1 DEF CacheInv
<1>3. CASE UNCHANGED transcriptVars
  <2>1. UNCHANGED <<disk, events, out, job, jobKey, left, got, cache, missed>>
    BY <1>3 DEF transcriptVars, worldVars, watchVars, jobVars
  <2>2. \A k \in Keys : Pending(k)' <=> Pending(k)
    BY <2>1 DEF Pending
  <2>3. JobRight' /\ CacheRight'
    BY <2>1, <2>2 DEF CacheInv, JobRight, CacheRight
  <2>4. QED BY <1>1, <2>3 DEF CacheInv
<1>4. QED BY <1>2, <1>3

\* Before the first walk everything is yet to be read.
LEMMA CacheInitHolds == CacheInit => CacheInv
<1>1. CacheInit => JobRight /\ CacheRight /\ NoneYet
  BY DEF CacheInit, JobRight, CacheRight, NoneYet
<1>2. QED BY <1>1, TypeInit DEF CacheInv

-----------------------------------------------------------------------------
\* The invariant holds in every reachable state.
THEOREM CacheInvariance == CacheSpec => []CacheInv
<1>1. QED BY CacheInitHolds, CacheStepKeeps, PTL DEF CacheSpec

\* Type correctness of the conversation cache.
THEOREM CacheTypeCorrect == CacheSpec => []CacheTypeOK
<1>1. CacheInv => CacheTypeOK
  BY DEF CacheInv
<1>2. QED BY <1>1, CacheInvariance, PTL

\* The conversation cache catches up with every change it was told of, for any
\* number of transcripts and readers and any capacity of the channel.
THEOREM CacheCatchesUp == CacheSpec => []CatchesUp
<1>1. CacheInv => CatchesUp
  BY DEF CacheInv, JobRight, CacheRight, CatchesUp, Pending, Watching
<1>2. QED BY <1>1, CacheInvariance, PTL

-----------------------------------------------------------------------------
(* tmux.                                                                   *)

\* A relay runs from its subscription to the end of its context, a channel is
\* closed only after that, and a relay that is sending has a node in its hand.
Registered ==
  /\ shut \subseteq gone
  /\ \A s \in Subs :
       /\ relay[s] = "off" => s \notin gone \cup subbed /\ buf[s] = 0
       /\ relay[s] # "off" /\ s \notin gone => s \in subbed
       /\ relay[s] = "send" => node[s] # 0

\* A fan-out that is sending has a key to send.
Rounds == poll = "send" => news # <<>>

\* Told is all but inductive: these two say which steps can meet which state.
TmuxInv == Tmux!TypeOK /\ Registered /\ Rounds /\ Told

\* Told, with its two sides named: s lacks what the store holds, and a key
\* that will make its relay resolve again is on its way.
Due(s) ==
  /\ relay[s] \in {"wait", "resolve", "send"} /\ s \notin gone \cup dropped
  /\ store[SubItem[s]] \notin {0, Tmux!Newest(s)}

Coming(s) ==
  \/ Contains(chan[s], SubItem[s]) \/ relay[s] = "resolve"
  \/ poll = "send" /\ Head(news) = SubItem[s] /\ s \in to
  \/ Contains(news, SubItem[s]) /\ (poll = "send" => Contains(Tail(news), SubItem[s]))

\* Told in these terms, of this state and of the next.
LEMMA ToldMeans ==
  /\ Told <=> \A s \in Subs : Due(s) => Coming(s)
  /\ Told' <=> \A s \in Subs : Due(s)' => Coming(s)'
  BY Zenon DEF Told, Tmux!Told, Due, Coming, Contains, Tmux!SX!Contains

\* The types hold at first, and with them the invariant.
LEMMA TmuxTypeInit == Tmux!Init => Tmux!TypeOK
<1> SUFFICES ASSUME Tmux!Init PROVE Tmux!TypeOK
  OBVIOUS
<1>1. live \in Tmux!Contents /\ store \in Tmux!Contents /\ snap \in Tmux!Contents
  BY DEF Tmux!Init
<1>2. /\ poll \in {"wait", "store", "fan", "send"} /\ turn \in Stores
      /\ news \in Seq(Items)
  BY TmuxAssumption DEF Tmux!Init, TmuxAssumption
<1>3. /\ gone \subseteq Subs /\ to \subseteq Subs /\ subbed \subseteq Subs \ shut
      /\ dropped \subseteq Subs /\ panicked \in BOOLEAN
  BY DEF Tmux!Init
<1>4. chan \in [Subs -> Seq(Items)] /\ \A s \in Subs : Len(chan[s]) <= Slots
  BY CacheAssumption DEF Tmux!Init, CacheAssumption
<1>5. /\ relay \in [Subs -> {"off", "wait", "resolve", "send", "over"}]
      /\ node \in Tmux!Nodes /\ buf \in Tmux!Nodes /\ shown \in Tmux!Nodes
  BY DEF Tmux!Init, Tmux!Nodes
<1>6. QED BY <1>1, <1>2, <1>3, <1>4, <1>5 DEF Tmux!TypeOK

\* At first nothing is stored, so nothing is due.
LEMMA TmuxInit == Tmux!Init => TmuxInv
<1>1. Tmux!Init => Registered /\ Rounds
  BY DEF Tmux!Init, Registered, Rounds
<1>2. Tmux!Init => Told
  BY DEF Tmux!Init, Told, Tmux!Told
<1>3. QED BY <1>1, <1>2, TmuxTypeInit DEF TmuxInv

\* The sequences SetToSeqs gives hold the members of the set and no other.
LEMMA SeqsCover ==
  ASSUME NEW S, IsFiniteSet(S), NEW f \in Tmux!SX!SetToSeqs(S)
  PROVE  f \in Seq(S) /\ \A x \in S : Contains(f, x)
<1> DEFINE n == Tmux!SX!Cardinality(S)
<1>1. n \in Nat /\ n = Cardinality(S)
  BY FS_CardinalityType DEF Tmux!SX!Cardinality, Cardinality
<1>2. /\ f \in [1..n -> S]
      /\ \A i, j \in 1..n : i # j => f[i] # f[j]
  BY DEF Tmux!SX!SetToSeqs
<1>3. f \in Injection(1..n, S)
  BY <1>2 DEF Injection, IsInjective
<1>4. Cardinality(1..n) = n /\ IsFiniteSet(1..n)
  BY <1>1, FS_Interval
<1>5. f \in Surjection(1..n, S)
  BY <1>1, <1>3, <1>4, FS_Surjection, FS_Injection
<1>6. f \in Seq(S) /\ Len(f) = n
  BY <1>1, <1>2
<1>7. \A x \in S : \E k \in 1..n : f[k] = x
  BY <1>5 DEF Surjection
<1>8. QED BY <1>6, <1>7 DEF Contains

\* Two conjuncts of the types are about sequences; these facts are all the
\* steps below use of them.
LEMMA KeysStay ==
  /\ \A q \in Seq(Items), i \in Items : /\ Append(q, i) \in Seq(Items)
                                        /\ Len(Append(q, i)) = Len(q) + 1
                                        /\ Contains(Append(q, i), i)
                                        /\ \A j \in Items : Contains(q, j) => Contains(Append(q, i), j)
  /\ \A q \in Seq(Items) : q # <<>> =>
       /\ Head(q) \in Items /\ Tail(q) \in Seq(Items) /\ Len(Tail(q)) = Len(q) - 1
       /\ \A j \in Items : Contains(q, j) => j = Head(q) \/ Contains(Tail(q), j)
  /\ \A q, r \in Seq(Items) : /\ q \o r \in Seq(Items)
                             /\ \A j \in Items : Contains(q, j) \/ Contains(r, j) => Contains(q \o r, j)
<1>1. ASSUME NEW q \in Seq(Items), NEW i \in Items
      PROVE  /\ Append(q, i) \in Seq(Items)
             /\ Len(Append(q, i)) = Len(q) + 1
             /\ Contains(Append(q, i), i)
             /\ \A j \in Items : Contains(q, j) => Contains(Append(q, i), j)
  BY AppendProperties DEF Contains
<1>2. ASSUME NEW q \in Seq(Items), q # <<>>
      PROVE  /\ Head(q) \in Items /\ Tail(q) \in Seq(Items) /\ Len(Tail(q)) = Len(q) - 1
             /\ \A j \in Items : Contains(q, j) => j = Head(q) \/ Contains(Tail(q), j)
  <2>1. /\ Head(q) \in Items /\ Tail(q) \in Seq(Items) /\ Len(Tail(q)) = Len(q) - 1
        /\ \A k \in 1 .. Len(Tail(q)) : Tail(q)[k] = q[k + 1]
    BY <1>2, HeadTailProperties
  <2>2. ASSUME NEW j \in Items, NEW k \in 1 .. Len(q), q[k] = j
        PROVE  j = Head(q) \/ Contains(Tail(q), j)
    <3>1. CASE k = 1
      BY <2>2, <3>1
    <3>2. CASE k # 1
      <4>1. k - 1 \in 1 .. Len(Tail(q)) /\ Tail(q)[k - 1] = j
        BY <2>1, <2>2, <3>2
      <4>2. QED BY <4>1 DEF Contains
    <3>3. QED BY <3>1, <3>2
  <2>3. QED BY <2>1, <2>2 DEF Contains
<1>3. ASSUME NEW q \in Seq(Items), NEW r \in Seq(Items)
      PROVE  /\ q \o r \in Seq(Items)
             /\ \A j \in Items : Contains(q, j) \/ Contains(r, j) => Contains(q \o r, j)
  <2>1. /\ q \o r \in Seq(Items) /\ Len(q \o r) = Len(q) + Len(r)
        /\ \A k \in 1 .. Len(q) + Len(r) : (q \o r)[k] = IF k <= Len(q) THEN q[k] ELSE r[k - Len(q)]
    BY ConcatProperties
  <2>2. ASSUME NEW k \in 1 .. Len(q) PROVE Contains(q \o r, q[k])
    BY <2>1 DEF Contains
  <2>3. ASSUME NEW k \in 1 .. Len(r) PROVE Contains(q \o r, r[k])
    <3>1. Len(q) + k \in 1 .. Len(q) + Len(r) /\ (q \o r)[Len(q) + k] = r[k]
      BY <2>1
    <3>2. QED BY <2>1, <3>1 DEF Contains
  <2>4. QED BY <2>1, <2>2, <2>3 DEF Contains
<1>4. QED BY <1>1, <1>2, <1>3

-----------------------------------------------------------------------------
(* One lemma per actor.                                                    *)

\* The poll loop: what it finds changed is on its way before it is stored.
LEMMA PollStep == ASSUME TmuxInv, Tmux!Poll PROVE TmuxInv'
<1> USE DEF TmuxInv, Tmux!TypeOK, Tmux!relayVars
<1>1. /\ UNCHANGED <<live, gone, subbed, shut, chan, relay, node, buf, shown, dropped, panicked>>
      /\ \A s \in Subs : Tmux!Newest(s)' = Tmux!Newest(s)
  BY DEF Tmux!Poll, Tmux!Fetch, Tmux!ReplaceAll, Tmux!FanOut, Tmux!Sent, Tmux!Refreshed, Tmux!Newest
<1>2. CASE Tmux!Fetch \/ Tmux!Refreshed
  <2>1. /\ UNCHANGED <<store, news, to>> /\ poll # "send" /\ poll' # "send" /\ poll' \in {"wait", "store"}
        /\ snap' \in {live, snap} /\ turn' \in {1, turn}
    BY <1>2 DEF Tmux!Fetch, Tmux!Refreshed
  <2>2. \A s \in Subs : (Due(s)' => Due(s)) /\ (Coming(s) => Coming(s)')
    BY <1>1, <2>1 DEF Due, Coming
  <2>3. Told'
    BY <2>2, ToldMeans
  <2>4. QED BY <1>1, <2>1, <2>3, TmuxAssumption DEF TmuxAssumption, Registered, Rounds
<1>3. CASE Tmux!ReplaceAll
  <2> DEFINE mine == {i \in Items : KindOf[i] = turn}
             turned == {i \in mine : Tmux!Changed(i)}
  <2>1. PICK keys \in Tmux!SX!SetToSeqs(turned) : news' = news \o keys
    BY <1>3 DEF Tmux!ReplaceAll
  <2>2. /\ poll = "store" /\ poll' \in {"store", "fan"} /\ turn' \in Stores
        /\ store' = [i \in Items |-> IF i \in mine THEN snap[i] ELSE store[i]]
        /\ UNCHANGED <<snap, to>>
    BY <1>3 DEF Tmux!ReplaceAll
  <2>3. turned \subseteq Items /\ IsFiniteSet(turned)
    BY FS_Subset, TmuxAssumption DEF TmuxAssumption
  <2>4. keys \in Seq(Items) /\ \A i \in turned : Contains(keys, i)
    BY <2>1, <2>3, SeqsCover
  <2>5. news' \in Seq(Items) /\ \A i \in Items : Contains(news, i) \/ Contains(keys, i) => Contains(news', i)
    BY <2>1, <2>4, KeysStay
  <2>6. \A i \in Items \ turned : store'[i] = store[i]
    BY <2>2 DEF Tmux!Changed, Tmux!Contents
  <2>7. store' \in Tmux!Contents
    BY <2>2 DEF Tmux!Contents
  <2>8. ASSUME NEW s \in Subs, Due(s)' PROVE Coming(s)'
    <3>1. SubItem[s] \in Items
      BY TmuxAssumption DEF TmuxAssumption
    <3>2. CASE SubItem[s] \in turned
      BY <2>2, <2>4, <2>5, <3>1, <3>2 DEF Coming
    <3>3. CASE SubItem[s] \notin turned
      <4>1. Due(s)
        BY <1>1, <2>6, <2>8, <3>1, <3>3 DEF Due
      <4>2. Coming(s)
        BY <4>1, ToldMeans
      <4>3. QED BY <1>1, <2>2, <2>5, <3>1, <4>2 DEF Coming
    <3>4. QED BY <3>2, <3>3
  <2>9. Told'
    BY <2>8, ToldMeans
  <2>10. QED BY <1>1, <2>2, <2>5, <2>7, <2>9 DEF Registered, Rounds
<1>4. CASE Tmux!FanOut
  <2>1. /\ poll = "fan" /\ news # <<>> /\ poll' = "send" /\ to' = Tmux!Listeners(Head(news))
        /\ UNCHANGED <<store, snap, turn, news>>
    BY <1>4 DEF Tmux!FanOut
  <2>2. to' \subseteq Subs
    BY <2>1 DEF Tmux!Listeners
  <2>3. ASSUME NEW s \in Subs, Due(s)' PROVE Coming(s)'
    <3>1. Due(s) /\ SubItem[s] \in Items /\ s \in subbed
      BY <1>1, <2>1, <2>3, TmuxAssumption DEF Due, TmuxAssumption, Registered
    <3>2. Coming(s)
      BY <3>1, ToldMeans
    <3>3. CASE Contains(news, SubItem[s])
      <4>1. CASE Head(news) = SubItem[s]
        <5>1. s \in to'
          BY <2>1, <3>1, <4>1 DEF Tmux!Listeners
        <5>2. QED BY <2>1, <4>1, <5>1 DEF Coming
      <4>2. CASE Head(news) # SubItem[s]
        <5>1. Contains(Tail(news), SubItem[s])
          BY <2>1, <3>1, <3>3, <4>2, KeysStay
        <5>2. QED BY <2>1, <3>3, <5>1 DEF Coming
      <4>3. QED BY <4>1, <4>2
    <3>4. QED BY <1>1, <2>1, <3>2, <3>3 DEF Coming
  <2>4. Told'
    BY <2>3, ToldMeans
  <2>5. QED BY <1>1, <2>1, <2>2, <2>4 DEF Registered, Rounds
<1>5. CASE Tmux!Sent
  <2>1. /\ poll = "send" /\ to = {} /\ poll' = "fan" /\ news' = Tail(news)
        /\ news # <<>> /\ UNCHANGED <<store, snap, turn, to>>
    BY <1>5 DEF Tmux!Sent, Rounds
  <2>2. news' \in Seq(Items)
    BY <2>1, KeysStay
  <2>3. \A s \in Subs : (Due(s)' => Due(s)) /\ (Coming(s) => Coming(s)')
    BY <1>1, <2>1 DEF Due, Coming
  <2>4. Told'
    BY <2>3, ToldMeans
  <2>5. QED BY <1>1, <2>1, <2>2, <2>4 DEF Registered, Rounds
<1>6. QED BY <1>2, <1>3, <1>4, <1>5 DEF Tmux!Poll

\* Change: what tmux has is known to no one yet.
LEMMA ChangeStep == ASSUME TmuxInv, NEW i \in Items, Tmux!Change(i) PROVE TmuxInv'
<1>1. live' \in Tmux!Contents
  BY DEF TmuxInv, Tmux!TypeOK, Tmux!Contents, Tmux!Change
<1>2. UNCHANGED <<store, snap, poll, turn, news, to, gone, subbed, shut, chan, relay,
                  node, buf, shown, dropped, panicked>>
  BY DEF Tmux!Change, Tmux!pollVars, Tmux!relayVars
<1>3. \A s \in Subs : (Due(s)' <=> Due(s)) /\ (Coming(s) <=> Coming(s)')
  BY <1>2 DEF Due, Coming, Tmux!Newest
<1>4. Told'
  BY <1>3, ToldMeans DEF TmuxInv
<1>5. QED BY <1>1, <1>2, <1>4 DEF TmuxInv, Tmux!TypeOK, Registered, Rounds

\* The sends of a fan-out: a key for a subscriber reaches its channel, or finds
\* another of it there or the relay about to resolve, or is noted as dropped.
LEMMA SendStep == ASSUME TmuxInv, NEW s \in Subs, Tmux!Send(s) PROVE TmuxInv'
<1> DEFINE i == Head(news)
<1> USE DEF TmuxInv, Tmux!TypeOK
<1>1. /\ poll = "send" /\ s \in to /\ to' = to \ {s}
      /\ UNCHANGED <<live, store, snap, turn, poll, news, gone, subbed, shut, relay, node, buf, shown>>
  BY DEF Tmux!Send, Tmux!relayVars
<1>2. i \in Items /\ SubItem \in [Subs -> Items]
  BY <1>1, KeysStay, TmuxAssumption DEF Rounds, TmuxAssumption
<1>3. /\ chan' \in [Subs -> Seq(Items)]
      /\ \A u \in Subs : Len(chan'[u]) <= Slots
      /\ \A u \in Subs, j \in Items : Contains(chan[u], j) => Contains(chan'[u], j)
      /\ dropped' \subseteq Subs /\ panicked' \in BOOLEAN
      /\ \A u \in Subs \ {s} : u \in dropped' <=> u \in dropped
      /\ s \notin gone \cup dropped' /\ i = SubItem[s] =>
           Contains(chan'[s], i) \/ relay[s] = "resolve"
      /\ i # SubItem[s] \/ s \in shut => dropped' = dropped
  <2>1. CASE s \in shut
    <3>1. panicked' = TRUE /\ UNCHANGED <<chan, dropped>> /\ s \in gone
      BY <2>1 DEF Tmux!Send, Registered
    <3>2. QED BY <3>1
  <2>2. CASE s \notin shut /\ Tmux!HasRoom(s)
    <3>1. /\ panicked' = panicked /\ chan' = [chan EXCEPT ![s] = Append(@, i)]
          /\ dropped' = IF i # SubItem[s] THEN dropped ELSE dropped \ {s}
      BY <2>2 DEF Tmux!Send
    <3>2. chan[s] \in Seq(Items) /\ Len(chan[s]) \in Nat /\ Len(chan[s]) < Slots /\ Slots \in Nat
      BY <2>2, CacheAssumption DEF Tmux!HasRoom, CacheAssumption
    <3>3. /\ Append(chan[s], i) \in Seq(Items) /\ Len(Append(chan[s], i)) <= Slots
          /\ Contains(Append(chan[s], i), i)
          /\ \A j \in Items : Contains(chan[s], j) => Contains(Append(chan[s], i), j)
      BY <1>2, <3>2, KeysStay
    <3>4. chan'[s] = Append(chan[s], i) /\ \A u \in Subs \ {s} : chan'[u] = chan[u]
      BY <3>1
    <3>5. /\ chan' \in [Subs -> Seq(Items)]
          /\ \A u \in Subs : Len(chan'[u]) <= Slots
          /\ \A u \in Subs, j \in Items : Contains(chan[u], j) => Contains(chan'[u], j)
          /\ Contains(chan'[s], i)
      BY <3>1, <3>3, <3>4
    <3>6. dropped' \subseteq Subs /\ \A u \in Subs \ {s} : u \in dropped' <=> u \in dropped
      BY <3>1
    <3>7. QED BY <2>2, <3>1, <3>5, <3>6
  <2>3. CASE s \notin shut /\ ~Tmux!HasRoom(s)
    <3>1. /\ panicked' = panicked /\ chan' = chan
          /\ dropped' = IF i # SubItem[s] THEN dropped
                        ELSE IF Tmux!SX!Contains(chan[s], i) \/ relay[s] = "resolve"
                        THEN dropped \ {s} ELSE dropped \cup {s}
      BY <2>3 DEF Tmux!Send
    <3>2. Tmux!SX!Contains(chan[s], i) <=> Contains(chan[s], i)
      BY DEF Tmux!SX!Contains, Contains
    <3>3. dropped' \subseteq Subs /\ \A u \in Subs \ {s} : u \in dropped' <=> u \in dropped
      BY <3>1
    <3>4. s \notin dropped' /\ i = SubItem[s] => Contains(chan'[s], i) \/ relay[s] = "resolve"
      BY <3>1, <3>2
    <3>5. QED BY <2>3, <3>1, <3>3, <3>4
  <2>4. QED BY <2>1, <2>2, <2>3
<1>4. ASSUME NEW u \in Subs, Due(u)' PROVE Coming(u)'
  <2>1. SubItem[u] \in Items
    BY <1>2
  <2>2. CASE u = s /\ i = SubItem[s]
    BY <1>1, <1>3, <1>4, <2>2 DEF Due, Coming
  <2>3. CASE ~(u = s /\ i = SubItem[s])
    <3>1. u \in dropped' <=> u \in dropped
      BY <1>3, <2>3
    <3>2. Due(u)
      BY <1>1, <1>4, <3>1 DEF Due, Tmux!Newest
    <3>3. Coming(u)
      BY <3>2, ToldMeans
    <3>4. QED BY <1>1, <1>3, <2>1, <2>3, <3>3 DEF Coming
  <2>4. QED BY <2>2, <2>3
<1>5. Told'
  BY <1>4, ToldMeans
<1>6. QED BY <1>1, <1>3, <1>5 DEF Registered, Rounds

\* Subscribe: the client has read what the store holds.
LEMMA SubscribeStep == ASSUME TmuxInv, NEW s \in Subs, Tmux!Subscribe(s) PROVE TmuxInv'
<1> USE DEF TmuxInv, Tmux!TypeOK
<1>1. /\ relay[s] = "off" /\ relay' = [relay EXCEPT ![s] = "wait"] /\ subbed' = subbed \cup {s}
      /\ shown' = [shown EXCEPT ![s] = store[SubItem[s]]]
      /\ UNCHANGED <<live, store, snap, poll, turn, news, to, gone, shut, chan, node, buf,
                     dropped, panicked>>
  BY DEF Tmux!Subscribe, Tmux!pollVars
<1>2. s \notin gone /\ s \notin shut /\ buf[s] = 0
  BY <1>1 DEF Registered
<1>3. store[SubItem[s]] \in Values \cup {0}
  BY TmuxAssumption DEF TmuxAssumption, Tmux!Contents
<1>4. relay'[s] = "wait" /\ shown'[s] = store[SubItem[s]] /\ ~Due(s)'
  BY <1>1, <1>2 DEF Tmux!Nodes, Due, Tmux!Newest
<1>5. \A u \in Subs \ {s} : (Due(u)' <=> Due(u)) /\ (Coming(u) <=> Coming(u)')
  BY <1>1 DEF Due, Coming, Tmux!Newest
<1>6. Told'
  BY <1>4, <1>5, ToldMeans
<1>7. Tmux!TypeOK'
  BY <1>1, <1>2, <1>3 DEF Tmux!Nodes
<1>8. QED BY <1>1, <1>2, <1>4, <1>6, <1>7 DEF Registered, Rounds

\* A context that is done, and its teardown: whoever leaves is owed nothing.
LEMMA LeaveStep ==
  ASSUME TmuxInv, NEW s \in Subs, Tmux!Cancel(s) \/ Tmux!Teardown(s)
  PROVE  TmuxInv'
<1> USE DEF TmuxInv, Tmux!TypeOK
<1>1. /\ UNCHANGED <<live, store, snap, poll, turn, news, to, chan, relay, node, buf, shown,
                     dropped, panicked>>
      /\ gone \subseteq gone' /\ gone' \subseteq Subs
      /\ subbed' \subseteq Subs \ shut' /\ shut' \subseteq gone'
      /\ relay[s] # "off"
      /\ \A u \in Subs : u # s \/ u \notin gone' => (u \in gone' <=> u \in gone) /\ (u \in subbed' <=> u \in subbed)
  BY DEF Tmux!Cancel, Tmux!Teardown, Tmux!pollVars, Tmux!relayVars, Registered
<1>2. \A u \in Subs : (Due(u)' => Due(u)) /\ (Coming(u) <=> Coming(u)')
  BY <1>1 DEF Due, Coming, Tmux!Newest
<1>3. Told'
  BY <1>2, ToldMeans
<1>4. Registered' /\ Rounds'
  BY <1>1 DEF Registered, Rounds
<1>5. QED BY <1>1, <1>3, <1>4

\* Taking a key: its own makes the relay resolve, another's changes nothing.
LEMMA TakeStep == ASSUME TmuxInv, NEW s \in Subs, Tmux!Take(s) PROVE TmuxInv'
<1> USE DEF TmuxInv, Tmux!TypeOK
<1> DEFINE next == IF Head(chan[s]) = SubItem[s] THEN "resolve" ELSE "wait"
<1>1. /\ relay[s] = "wait" /\ relay' = [relay EXCEPT ![s] = next]
      /\ chan[s] # <<>> /\ chan' = [chan EXCEPT ![s] = Tail(@)]
      /\ UNCHANGED <<live, store, snap, poll, turn, news, to, gone, subbed, shut, dropped,
                     panicked, node, buf, shown>>
  BY DEF Tmux!Take, Tmux!RelayOnly, Tmux!pollVars
<1>2. chan[s] \in Seq(Items) /\ SubItem[s] \in Items /\ Len(chan[s]) <= Slots /\ Slots \in Nat
  BY TmuxAssumption, CacheAssumption DEF TmuxAssumption, CacheAssumption
<1>3. /\ Tail(chan[s]) \in Seq(Items) /\ Len(Tail(chan[s])) <= Slots
      /\ \A j \in Items : Contains(chan[s], j) => j = Head(chan[s]) \/ Contains(Tail(chan[s]), j)
  BY <1>1, <1>2, KeysStay
<1>4. /\ relay' \in [Subs -> {"off", "wait", "resolve", "send", "over"}]
      /\ relay'[s] = next /\ \A u \in Subs \ {s} : relay'[u] = relay[u]
  BY <1>1
<1>5. /\ chan' \in [Subs -> Seq(Items)] /\ \A u \in Subs : Len(chan'[u]) <= Slots
      /\ chan'[s] = Tail(chan[s]) /\ \A u \in Subs \ {s} : chan'[u] = chan[u]
  BY <1>1, <1>3
<1>6. \A u \in Subs : Due(u)' => Due(u)
  BY <1>1, <1>4 DEF Due, Tmux!Newest
<1>7. \A u \in Subs \ {s} : Coming(u) => Coming(u)'
  BY <1>1, <1>4, <1>5 DEF Coming
<1>8. Coming(s) => Coming(s)'
  BY <1>1, <1>2, <1>3, <1>4, <1>5 DEF Coming
<1>9. Told'
  BY <1>6, <1>7, <1>8, ToldMeans
<1>10. Registered' /\ Rounds'
  BY <1>1, <1>4 DEF Registered, Rounds
<1>11. QED BY <1>1, <1>4, <1>5, <1>9, <1>10

\* Resolving, delivering and ending, and the client who reads.
LEMMA RelayStep ==
  ASSUME TmuxInv, NEW s \in Subs,
         Tmux!Resolve(s) \/ Tmux!Deliver(s) \/ Tmux!RelayEnds(s) \/ Tmux!ClientReads(s)
  PROVE  TmuxInv'
<1> USE DEF TmuxInv, Tmux!TypeOK
<1>1. UNCHANGED <<live, store, snap, poll, turn, news, to, gone, subbed, shut, dropped, panicked, chan>>
  BY DEF Tmux!Resolve, Tmux!Deliver, Tmux!RelayEnds, Tmux!ClientReads, Tmux!RelayOnly, Tmux!pollVars
<1>2. store[SubItem[s]] \in Values \cup {0} /\ relay[s] # "off"
  <2>1. store[SubItem[s]] \in Values \cup {0}
    BY TmuxAssumption DEF TmuxAssumption, Tmux!Contents
  <2>2. relay[s] = "off" => buf[s] = 0
    BY DEF Registered
  <2>3. QED BY <2>1, <2>2 DEF Tmux!Resolve, Tmux!Deliver, Tmux!RelayEnds, Tmux!ClientReads, Tmux!RelayOnly
<1>3. /\ relay' \in [Subs -> {"off", "wait", "resolve", "send", "over"}]
      /\ node' \in Tmux!Nodes /\ buf' \in Tmux!Nodes /\ shown' \in Tmux!Nodes
      /\ relay'[s] # "off"
      /\ \A u \in Subs \ {s} : /\ relay'[u] = relay[u] /\ node'[u] = node[u]
                              /\ buf'[u] = buf[u] /\ shown'[u] = shown[u]
  BY <1>2 DEF Tmux!Resolve, Tmux!Deliver, Tmux!RelayEnds, Tmux!ClientReads, Tmux!RelayOnly, Tmux!Nodes
<1>4. relay'[s] = "send" => node'[s] # 0
  BY <1>2 DEF Tmux!Resolve, Tmux!Deliver, Tmux!RelayEnds, Tmux!ClientReads, Tmux!RelayOnly, Tmux!Nodes, Registered
<1>5. \A u \in Subs \ {s} : (Due(u)' <=> Due(u)) /\ (Coming(u) <=> Coming(u)')
  BY <1>1, <1>3 DEF Due, Coming, Tmux!Newest
<1>6. Due(s)' => Coming(s)'
  <2>1. CASE Tmux!Resolve(s)
    BY <1>1, <2>1 DEF Tmux!Resolve, Tmux!RelayOnly, Due, Tmux!Newest, Tmux!Nodes
  <2>2. CASE Tmux!RelayEnds(s)
    BY <2>2 DEF Tmux!RelayEnds, Tmux!RelayOnly, Due
  <2>3. CASE Tmux!Deliver(s) \/ Tmux!ClientReads(s)
    <3>1. /\ relay'[s] = "resolve" <=> relay[s] = "resolve"
          /\ Tmux!Newest(s)' = Tmux!Newest(s)
          /\ relay[s] \in {"wait", "resolve", "send"} <=> relay'[s] \in {"wait", "resolve", "send"}
      BY <2>3 DEF Tmux!Deliver, Tmux!ClientReads, Tmux!RelayOnly, Tmux!Newest, Tmux!Nodes, Registered
    <3>2. (Due(s)' => Due(s)) /\ (Coming(s) => Coming(s)')
      BY <1>1, <3>1 DEF Due, Coming
    <3>3. QED BY <3>2, ToldMeans
  <2>4. QED BY <2>1, <2>2, <2>3
<1>7. Told'
  BY <1>5, <1>6, ToldMeans
<1>8. Registered' /\ Rounds'
  BY <1>1, <1>2, <1>3, <1>4 DEF Registered, Rounds
<1>9. QED BY <1>1, <1>3, <1>7, <1>8

\* Every step of the tmux provider and its subscribers preserves the invariant.
LEMMA TmuxStepKeeps == TmuxInv /\ [Tmux!Next]_(Tmux!vars) => TmuxInv'
<1> SUFFICES ASSUME TmuxInv, [Tmux!Next]_(Tmux!vars) PROVE TmuxInv'
  OBVIOUS
<1>1. CASE Tmux!Next
  BY <1>1, PollStep, ChangeStep, SendStep, SubscribeStep, LeaveStep, TakeStep, RelayStep
  DEF Tmux!Next, Tmux!Subscriber
<1>2. CASE UNCHANGED Tmux!vars
  <2>1. UNCHANGED <<live, store, snap, poll, turn, news, to, gone, subbed, shut, chan, relay,
                    node, buf, shown, dropped, panicked>>
    BY <1>2 DEF Tmux!vars, Tmux!pollVars, Tmux!relayVars
  <2>2. \A s \in Subs : (Due(s)' <=> Due(s)) /\ (Coming(s) <=> Coming(s)')
    BY <2>1 DEF Due, Coming, Tmux!Newest
  <2>3. Told'
    BY <2>2, ToldMeans DEF TmuxInv
  <2>4. QED BY <2>1, <2>3 DEF TmuxInv, Tmux!TypeOK, Registered, Rounds
<1>3. QED BY <1>1, <1>2

-----------------------------------------------------------------------------
\* The invariant holds in every reachable state.
THEOREM TmuxInvariance == Tmux!Spec => []TmuxInv
  BY TmuxInit, TmuxStepKeeps, PTL DEF Tmux!Spec

\* Type correctness of the tmux provider and its subscribers: no channel is ever
\* over its capacity and none that is closed is registered.
THEOREM TmuxTypeCorrect == Tmux!Spec => []Tmux!TypeOK
<1>1. TmuxInv => Tmux!TypeOK
  BY DEF TmuxInv
<1>2. QED BY <1>1, TmuxInvariance, PTL

\* No subscriber is left with an old node unless a key was dropped on its full
\* channel (relayInvalidations), for any subscribers, stores and capacity.
THEOREM TmuxTells == Tmux!Spec => []Told
<1>1. TmuxInv => Told
  BY DEF TmuxInv
<1>2. QED BY <1>1, TmuxInvariance, PTL

-----------------------------------------------------------------------------
(* The three together.                                                     *)

\* The invariants of the three.
ProvidersInv == IInv /\ CacheInv /\ TmuxInv

\* Each provider starts as it does alone.
LEMMA ProvidersInit == MCInit => ProvidersInv
  BY InitHolds, CacheInitHolds, TmuxInit DEF MCInit, ProvidersInv

\* A step of one is a step of that one and leaves the others where they are.
LEMMA ProvidersStep ==
  ProvidersInv /\ [MCNext]_<<part, vars, transcriptVars, tmuxVars>> => ProvidersInv'
<1> SUFFICES ASSUME ProvidersInv, [MCNext]_<<part, vars, transcriptVars, tmuxVars>>
             PROVE  ProvidersInv'
  OBVIOUS
<1>1. UNCHANGED tmuxVars => UNCHANGED Tmux!vars
  BY DEF tmuxVars, Tmux!vars, Tmux!pollVars, Tmux!relayVars
<1>2. [Next]_vars /\ [CacheNext]_transcriptVars /\ [Tmux!Next]_(Tmux!vars)
  <2>1. CASE MCNext
    BY <1>1, <2>1 DEF MCNext
  <2>2. CASE UNCHANGED <<part, vars, transcriptVars, tmuxVars>>
    BY <1>1, <2>2
  <2>3. QED BY <2>1, <2>2
<1>3. QED BY <1>2, StepKeeps, CacheStepKeeps, TmuxStepKeeps DEF ProvidersInv

\* The three keep their invariants in a daemon that runs any of them.
THEOREM ProvidersInvariance == MCSpec => []ProvidersInv
  BY ProvidersInit, ProvidersStep, PTL DEF MCSpec

\* All three keep to their types and within the capacity of their channels.
THEOREM ProvidersTypeCorrect == MCSpec => []AllTypeOK
<1>1. ProvidersInv => AllTypeOK
  BY DEF ProvidersInv, IInv, CacheInv, TmuxInv, AllTypeOK
<1>2. QED BY <1>1, ProvidersInvariance, PTL

\* A subscriber is told of the last change of its node, whatever the other
\* providers do meanwhile.
THEOREM ProvidersTell == MCSpec => []Told
<1>1. ProvidersInv => Told
  BY DEF ProvidersInv, TmuxInv
<1>2. QED BY <1>1, ProvidersInvariance, PTL

\* What each cache promises holds in the daemon too (gh, claudeprojects).
THEOREM ProvidersServe == MCSpec => [](StampedIsEnriched /\ NoHardUnknown /\ CatchesUp)
<1>1. ProvidersInv => StampedIsEnriched /\ NoHardUnknown /\ CatchesUp
  BY DEF ProvidersInv, IInv, CacheInv, JobRight, CacheRight, CatchesUp, Pending, Watching
<1>2. QED BY <1>1, ProvidersInvariance, PTL
=============================================================================
