------------------------------ MODULE GhCache ------------------------------
(***************************************************************************)
(* The daemon's cache of one GitHub pull request                           *)
(* (internal/server/providers/gh).  REST calls (ListPullRequests,          *)
(* GetPullRequest) and GraphQL calls (EnrichPullRequest and its batch      *)
(* form) check the cache under a lock, ask GitHub without one and write    *)
(* what they got under the lock again; a webhook delivery drops entries at *)
(* any time.  The clock is abstracted: whatever has an age may grow older. *)
(* A revision stands for the UpdatedAt of a REST payload; what a call      *)
(* returns to its caller and the per-operation memo are not modelled.      *)
(***************************************************************************)
EXTENDS Naturals

CONSTANTS
  Callers,  \* goroutines that call the provider, one call at a time
  MaxRev,   \* bound on changes of the pull request
  None      \* nothing cached

Kinds == {"list", "get", "enrich", "batch"}

VARIABLES
  hub,       \* the pull request at GitHub; sure: mergeable is computed
  entry,     \* p.prs: revision, state, the enrichment fields
  entryNew,  \* the entry is younger than CacheTTL
  stamp,     \* p.enrichAt: none, fresh (< enrichmentTTL) or old
  list,      \* p.listPRsCache: the payload, or None
  cooldown,  \* p.rateLimitedUntil lies ahead
  pc, kind,  \* where each caller is, and in which call
  reply,     \* what GitHub answered it
  hook,      \* the webhook handler is between its two drops
  hooks      \* deliveries so far, bounded

vars == <<hub, entry, entryNew, stamp, list, cooldown, pc, kind, reply, hook, hooks>>
cacheVars == <<entry, entryNew, stamp, list>>

Revs == 0..MaxRev
\* "": the entry was never filled by REST.
Payloads == [rev : Revs, state : {"open", "over"}]
Enrichments == [of : Revs, sure : BOOLEAN]
Entries == [rev : Revs, state : {"open", "over", ""}, fields : Enrichments \cup {None}]

ASSUME GhAssumption ==
  MaxRev \in Nat /\ None \notin Payloads \cup Enrichments \cup Entries

TypeOK ==
  /\ hub \in [rev : Revs, state : {"open", "over"}, sure : BOOLEAN]
  /\ entry \in Entries \cup {None} /\ entryNew \in BOOLEAN
  /\ stamp \in {"none", "fresh", "old"}
  /\ list \in Payloads \cup {None}
  /\ cooldown \in BOOLEAN /\ hook \in BOOLEAN /\ hooks \in 0..1
  /\ pc \in [Callers -> {"idle", "asked", "answered", "seed"}]
  /\ kind \in [Callers -> Kinds]
  /\ reply \in [Callers -> Payloads \cup Enrichments \cup {None}]

Init ==
  /\ hub = [rev |-> 0, state |-> "open", sure |-> FALSE]
  /\ entry = None /\ entryNew = FALSE /\ stamp = "none" /\ list = None
  /\ cooldown = FALSE /\ hook = FALSE /\ hooks = 0
  /\ pc = [c \in Callers |-> "idle"] /\ kind = [c \in Callers |-> "get"]
  /\ reply = [c \in Callers |-> None]

-----------------------------------------------------------------------------
(* GitHub and the clock.                                                   *)

\* A push or a comment; a merge or a close; mergeable is computed lazily and,
\* once the pull request is over, no longer.
Change ==
  /\ hub.rev < MaxRev /\ hub.state = "open"
  /\ \E s \in {"open", "over"} :
       hub' = [rev |-> hub.rev + 1, state |-> s, sure |-> FALSE]
  /\ UNCHANGED <<cacheVars, cooldown, pc, kind, reply, hook, hooks>>

Compute ==
  /\ hub.state = "open" /\ ~hub.sure
  /\ hub' = [hub EXCEPT !.sure = TRUE]
  /\ UNCHANGED <<cacheVars, cooldown, pc, kind, reply, hook, hooks>>

Age ==
  /\ \/ entryNew' = FALSE /\ UNCHANGED <<stamp, list, cooldown>>
     \/ stamp = "fresh" /\ stamp' = "old" /\ UNCHANGED <<entryNew, list, cooldown>>
     \/ list' = None /\ UNCHANGED <<entryNew, stamp, cooldown>>
     \/ cooldown' = FALSE /\ UNCHANGED <<entryNew, stamp, list>>
  /\ UNCHANGED <<hub, entry, pc, kind, reply, hook, hooks>>

-----------------------------------------------------------------------------
(* A call that the cache cannot serve.                                     *)

EnrichHit == entry # None /\ stamp = "fresh"

Miss(k) ==
  CASE k = "list" -> list = None
    [] k = "get" -> entry = None \/ ~entryNew
    [] OTHER -> ~EnrichHit /\ ~cooldown

Ask(c, k) ==
  /\ pc[c] = "idle"
  /\ Miss(k)
  /\ pc' = [pc EXCEPT ![c] = "asked"] /\ kind' = [kind EXCEPT ![c] = k]
  /\ UNCHANGED <<hub, cacheVars, cooldown, reply, hook, hooks>>

Answer(c) ==
  /\ pc[c] = "asked"
  /\ pc' = [pc EXCEPT ![c] = "answered"]
  /\ reply' = [reply EXCEPT ![c] =
       IF kind[c] \in {"list", "get"} THEN [rev |-> hub.rev, state |-> hub.state]
                                      ELSE [of |-> hub.rev, sure |-> hub.sure]]
  /\ UNCHANGED <<hub, cacheVars, cooldown, kind, hook, hooks>>

\* Network failure, rate limit: the caller is served stale or gets an error.
\* A rate limit told in the GraphQL body arms the cooldown, one told by the
\* HTTP status on the batch path only.
Refuse(c) ==
  /\ pc[c] = "asked"
  /\ pc' = [pc EXCEPT ![c] = "idle"]
  /\ \E told \in {"failed", "body", "status"} :
       cooldown' = \/ cooldown
                   \/ told = "body" /\ kind[c] \in {"enrich", "batch"}
                   \/ told = "status" /\ kind[c] = "batch"
  /\ UNCHANGED <<hub, cacheVars, kind, reply, hook, hooks>>

Finish(c, to) ==
  /\ pc' = [pc EXCEPT ![c] = to]
  /\ reply' = IF to = "idle" THEN [reply EXCEPT ![c] = None] ELSE reply
  /\ UNCHANGED <<hub, kind, hook, hooks>>

\* enrichmentStillValid
StillValid(e, p) == e.rev = p.rev /\ e.state = p.state

MutCarryNothing(e) == None

\* carryEnrichment
Carried(e) == e.fields

\* A REST payload replaces the entry: it keeps enrichment and time stamp of
\* an unchanged revision, and loses both otherwise.
StorePayload(p) ==
  LET keep == entry # None /\ StillValid(entry, p)
  IN /\ entry' = [rev |-> p.rev, state |-> p.state,
                  fields |-> IF keep THEN Carried(entry) ELSE None]
     /\ stamp' = IF keep THEN stamp ELSE "none"
     /\ entryNew' = TRUE

ApplyGet(c) ==
  /\ pc[c] = "answered" /\ kind[c] = "get"
  /\ StorePayload(reply[c])
  /\ Finish(c, "idle") /\ UNCHANGED <<list, cooldown>>

\* ListPullRequests writes the list cache first, then seeds the entries.
ApplyList(c) ==
  /\ pc[c] = "answered" /\ kind[c] = "list"
  /\ list' = reply[c]
  /\ Finish(c, "seed") /\ UNCHANGED <<entry, entryNew, stamp, cooldown>>

Seed(c) ==
  /\ pc[c] = "seed"
  /\ StorePayload(reply[c])
  /\ Finish(c, "idle") /\ UNCHANGED <<list, cooldown>>

MutCacheUnknown(sure, state) == TRUE

\* shouldCacheEnrichment: UNKNOWN is final only once the pull request is over.
ShouldCache(sure, state) == sure \/ state = "over"

\* What an enrichment is written onto: whatever is cached by now, or nothing.
Base == IF entry = None THEN [rev |-> 0, state |-> "", fields |-> None] ELSE entry

\* applyEnrichment; a response without errors has cleared the cooldown before.
ApplyEnrichment(c) ==
  /\ pc[c] = "answered" /\ kind[c] \in {"enrich", "batch"}
  /\ IF ShouldCache(reply[c].sure, Base.state)
     THEN /\ entry' = [Base EXCEPT !.fields = reply[c]]
          /\ stamp' = "fresh"
          /\ entryNew' = (entryNew /\ entry # None)
     ELSE UNCHANGED <<entry, stamp, entryNew>>
  /\ cooldown' \in {cooldown, FALSE}
  /\ Finish(c, "idle") /\ UNCHANGED list

\* A webhook delivery: dropPRCache drops the entry, then the lists.
WebhookDrop ==
  /\ hooks = 0 /\ hooks' = 1 /\ hook' = TRUE
  /\ entry' = None /\ entryNew' = FALSE /\ stamp' = "none"
  /\ UNCHANGED <<hub, list, cooldown, pc, kind, reply>>

WebhookDropLists ==
  /\ hook /\ hook' = FALSE
  /\ list' = None
  /\ UNCHANGED <<hub, entry, entryNew, stamp, cooldown, pc, kind, reply, hooks>>

-----------------------------------------------------------------------------
Apply(c) == ApplyGet(c) \/ ApplyList(c) \/ Seed(c) \/ ApplyEnrichment(c)

Next ==
  \/ Change \/ Compute \/ Age
  \/ \E c \in Callers :
       Answer(c) \/ Refuse(c) \/ Apply(c) \/ \E k \in Kinds : Ask(c, k)
  \/ WebhookDrop \/ WebhookDropLists

Spec == Init /\ [][Next]_vars

-----------------------------------------------------------------------------
(* Properties.                                                             *)

\* A time stamp vouches for enrichment that is there: no REST refresh and no
\* webhook leaves the stamp over blank fields, which would stay blank until
\* it expires.  (provider.go, comment of carryEnrichment.)
StampedIsEnriched == stamp # "none" => entry # None /\ entry.fields # None

\* While a pull request is open, an uncomputed verdict is never served from
\* the cache (#367), whatever order REST and GraphQL replies arrive in.
NoHardUnknown ==
  stamp # "none" /\ entry.state = "open" => entry.fields.sure

(* What the comments promise and the code does not keep. *)

\* provider.go: "Any movement in UpdatedAt [...] means the enrichment may
\* describe an older revision, and the conservative answer is to refetch."
NoOlderEnrichment ==
  stamp = "fresh" /\ entry.state # "" => entry.fields.of >= entry.rev
=============================================================================
