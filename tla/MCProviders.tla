----------------------------- MODULE MCProviders -----------------------------
(* The daemon's caches for TLC.  Each provider has its own lock and its    *)
(* own goroutines and none reads another's state, so a behaviour of this   *)
(* instance exercises one of them and leaves the others at rest.           *)
EXTENDS GhCache, ConversationCache

CONSTANTS
  Items, Stores, KindOf, Subs, SubItem  \* Invalidation; Values and Slots too

ASSUME TmuxAssumption ==
  IsFiniteSet(Items) /\ 1 \in Stores /\ SubItem \in [Subs -> Items]

VARIABLES
  part,  \* the provider this behaviour is about
  live, store, snap, poll, turn, news, to, gone, subbed, shut, chan, relay,
  node, buf, shown, dropped, panicked

Tmux == INSTANCE Invalidation

\* Two items of the kind whose store is replaced last.
MCKindOf == [i \in Items |-> 2]
MCSubItem == [s \in Subs |-> CHOOSE i \in Items : TRUE]

tmuxVars == <<live, store, snap, poll, turn, news, to, gone, subbed, shut, chan,
  relay, node, buf, shown, dropped, panicked>>

MCInit ==
  /\ part \in {"gh", "conversations", "tmux"}
  /\ Init
  /\ CacheInit /\ (part # "conversations" => dirs = {})
  /\ Tmux!Init /\ (part # "tmux" => live = [i \in Items |-> 0])

MCNext ==
  \/ part = "gh" /\ Next /\ UNCHANGED <<part, transcriptVars, tmuxVars>>
  \/ part = "conversations" /\ CacheNext /\ UNCHANGED <<part, vars, tmuxVars>>
  \/ part = "tmux" /\ Tmux!Next /\ UNCHANGED <<part, vars, transcriptVars>>

MCSpec == MCInit /\ [][MCNext]_<<part, vars, transcriptVars, tmuxVars>>

\* All three keep to their types and within the capacity of their channels.
AllTypeOK == TypeOK /\ CacheTypeOK /\ Tmux!TypeOK

\* A subscriber is told of the last change of its node (Invalidation).
Told == Tmux!Told
=============================================================================
