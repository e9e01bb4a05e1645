----------------------------- MODULE Invalidation -----------------------------
(***************************************************************************)
(* How a change of tmux reaches a GraphQL subscriber.  The poll loop of    *)
(* the tmux provider fetches, replaces its stores one after the other and  *)
(* fans out the keys that changed; the relay of nodeChanged resolves its   *)
(* node anew for every key it is about and hands it to the client.  Items  *)
(* are sessions, windows, panes and clients, 0 is an item that is gone.    *)
(* The tick and PokeRefresh only say when a refresh begins.                *)
(***************************************************************************)
EXTENDS Naturals, Sequences

CONSTANTS
  Items, Values,  \* what tmux has; the values an item may take
  Stores, KindOf, \* 1..n as refresh goes (4 in the code); Items -> Stores
  Subs, SubItem,  \* subscribers; Subs -> Items: the one the id names
  Slots           \* capacity of a subscription (8 in the code)

SX == INSTANCE SequencesExt

VARIABLES
  live,          \* what tmux would answer now
  store, snap,   \* the stores, and what the poll loop fetched for them
  poll, turn,    \* where the poll loop is; the store it replaces next
  news,          \* keys that changed and are yet to be fanned out
  to,            \* subscribers the first of them is yet to be sent to
  gone,          \* subscribers whose context is done
  subbed, shut,  \* channels that are registered; that were closed
  chan,          \* their contents
  relay, node,   \* each relay: where it is, and the node it resolved
  buf, shown,    \* the relay's output, 0 when empty; the client's last node
  dropped,       \* history: the last change of the item was not queued
  panicked       \* a send on a closed channel has ended the daemon

pollVars  == <<snap, poll, turn, news, to>>
relayVars == <<relay, node, buf, shown>>
vars == <<live, store, pollVars, gone, subbed, shut, chan, relayVars, dropped, panicked>>

Contents == [Items -> Values \cup {0}]
Nodes == [Subs -> Values \cup {0}]

TypeOK ==
  /\ live \in Contents /\ store \in Contents /\ snap \in Contents
  /\ poll \in {"wait", "store", "fan", "send"} /\ turn \in Stores
  /\ news \in Seq(Items)
  /\ gone \subseteq Subs /\ to \subseteq Subs /\ subbed \subseteq Subs \ shut
  /\ chan \in [Subs -> Seq(Items)] /\ \A s \in Subs : Len(chan[s]) <= Slots
  /\ relay \in [Subs -> {"off", "wait", "resolve", "send", "over"}]
  /\ node \in Nodes /\ buf \in Nodes /\ shown \in Nodes
  /\ dropped \subseteq Subs /\ panicked \in BOOLEAN

Init ==
  /\ live \in Contents /\ store = live /\ snap = live
  /\ poll = "wait" /\ turn = 1 /\ news = <<>> /\ to = {}
  /\ gone = {} /\ subbed = {} /\ shut = {} /\ chan = [s \in Subs |-> <<>>]
  /\ relay = [s \in Subs |-> "off"] /\ node = [s \in Subs |-> 0]
  /\ buf = node /\ shown = node
  /\ dropped = {} /\ panicked = FALSE

Change(i) ==
  /\ \E v \in (Values \cup {0}) \ {live[i]} : live' = [live EXCEPT ![i] = v]
  /\ UNCHANGED <<store, pollVars, gone, subbed, shut, chan, relayVars, dropped, panicked>>

-----------------------------------------------------------------------------
(* refresh, in pollLoop's goroutine.                                       *)

\* A failed fetch ends the round where it began.
Fetch ==
  /\ poll = "wait" /\ poll' = "store" /\ turn' = 1
  /\ snap' = live
  /\ UNCHANGED <<live, store, news, to, gone, subbed, shut, chan, relayVars, dropped, panicked>>

MutAddedOnly(i) == store[i] = 0 /\ snap[i] # 0

\* Added, modified or removed.
Changed(i) == store[i] # snap[i]

ReplaceAll ==
  /\ poll = "store"
  /\ LET mine == {i \in Items : KindOf[i] = turn}
     IN /\ store' = [i \in Items |-> IF i \in mine THEN snap[i] ELSE store[i]]
        /\ \E keys \in SX!SetToSeqs({i \in mine : Changed(i)}) : news' = news \o keys
  /\ IF turn + 1 \in Stores THEN turn' = turn + 1 /\ UNCHANGED poll
                             ELSE poll' = "fan" /\ UNCHANGED turn
  /\ UNCHANGED <<live, snap, to, gone, subbed, shut, chan, relayVars, dropped, panicked>>

Listeners(i) == {s \in subbed : KindOf[SubItem[s]] = KindOf[i]}

\* fanoutSession and its like: copy the kind's subscribers under the lock ...
FanOut ==
  /\ poll = "fan" /\ news # <<>>
  /\ poll' = "send" /\ to' = Listeners(Head(news))
  /\ UNCHANGED <<live, store, snap, turn, news, gone, subbed, shut, chan, relayVars, dropped, panicked>>

MutOverfull(s) == Len(chan[s]) <= Slots

HasRoom(s) == Len(chan[s]) < Slots

\* ... and send without it, to a channel that may be full or closed by now.
Send(s) ==
  /\ poll = "send" /\ s \in to /\ to' = to \ {s}
  /\ LET i == Head(news)
     IN IF s \in shut
        THEN panicked' = TRUE /\ UNCHANGED <<chan, dropped>>
        ELSE /\ UNCHANGED panicked
             /\ chan' = IF HasRoom(s) THEN [chan EXCEPT ![s] = Append(@, i)] ELSE chan
             /\ dropped' = IF i # SubItem[s] THEN dropped
                           ELSE IF HasRoom(s) \/ SX!Contains(chan[s], i) \/ relay[s] = "resolve"
                           THEN dropped \ {s} ELSE dropped \cup {s}
  /\ UNCHANGED <<live, store, snap, turn, poll, news, gone, subbed, shut, relayVars>>

Sent ==
  /\ poll = "send" /\ to = {}
  /\ poll' = "fan" /\ news' = Tail(news)
  /\ UNCHANGED <<live, store, snap, turn, to, gone, subbed, shut, chan, relayVars, dropped, panicked>>

Refreshed ==
  /\ poll = "fan" /\ news = <<>> /\ poll' = "wait"
  /\ UNCHANGED <<live, store, snap, turn, news, to, gone, subbed, shut, chan, relayVars, dropped, panicked>>

-----------------------------------------------------------------------------
(* Subscribe of a facet, its teardown goroutine, and the relay.            *)

\* The client queries the node once it is subscribed.
Subscribe(s) ==
  /\ relay[s] = "off" /\ relay' = [relay EXCEPT ![s] = "wait"]
  /\ subbed' = subbed \cup {s}
  /\ shown' = [shown EXCEPT ![s] = store[SubItem[s]]]
  /\ UNCHANGED <<live, store, pollVars, gone, shut, chan, node, buf, dropped, panicked>>

Cancel(s) ==
  /\ relay[s] # "off" /\ s \notin gone /\ gone' = gone \cup {s}
  /\ UNCHANGED <<live, store, pollVars, subbed, shut, chan, relayVars, dropped, panicked>>

Teardown(s) ==
  /\ s \in gone \cap subbed
  /\ subbed' = subbed \ {s} /\ shut' = shut \cup {s}
  /\ UNCHANGED <<live, store, pollVars, gone, chan, relayVars, dropped, panicked>>

RelayOnly(s, from, to_) ==
  /\ relay[s] = from /\ relay' = [relay EXCEPT ![s] = to_]
  /\ UNCHANGED <<live, store, pollVars, gone, subbed, shut, dropped, panicked>>

\* A key the subscriber's id does not match is skipped.
Take(s) ==
  /\ RelayOnly(s, "wait", IF chan[s] # <<>> /\ Head(chan[s]) = SubItem[s] THEN "resolve" ELSE "wait")
  /\ chan[s] # <<>> /\ chan' = [chan EXCEPT ![s] = Tail(@)]
  /\ UNCHANGED <<node, buf, shown>>

\* A node that is gone, or cannot be resolved, is not sent.
Resolve(s) ==
  /\ RelayOnly(s, "resolve", IF store[SubItem[s]] = 0 THEN "wait" ELSE "send")
  /\ node' = [node EXCEPT ![s] = store[SubItem[s]]]
  /\ UNCHANGED <<chan, buf, shown>>

\* out <- node: waits for the client, who may be slow.
Deliver(s) ==
  /\ RelayOnly(s, "send", "wait")
  /\ buf[s] = 0 /\ buf' = [buf EXCEPT ![s] = node[s]]
  /\ UNCHANGED <<chan, node, shown>>

\* The context is done, or the channel is closed and drained.
RelayEnds(s) ==
  /\ \/ s \in gone /\ \E from \in {"wait", "send"} : RelayOnly(s, from, "over")
     \/ s \in shut /\ chan[s] = <<>> /\ RelayOnly(s, "wait", "over")
  /\ UNCHANGED <<chan, node, buf, shown>>

ClientReads(s) ==
  /\ buf[s] # 0 /\ shown' = [shown EXCEPT ![s] = buf[s]]
  /\ buf' = [buf EXCEPT ![s] = 0]
  /\ UNCHANGED <<live, store, pollVars, gone, subbed, shut, chan, relay, node, dropped, panicked>>

-----------------------------------------------------------------------------
Poll == Fetch \/ ReplaceAll \/ FanOut \/ Sent \/ Refreshed

Subscriber(s) ==
  \/ Send(s) \/ Subscribe(s) \/ Cancel(s) \/ Teardown(s)
  \/ Take(s) \/ Resolve(s) \/ Deliver(s) \/ RelayEnds(s) \/ ClientReads(s)

Next ==
  /\ ~panicked
  /\ Poll \/ (\E i \in Items : Change(i)) \/ \E s \in Subs : Subscriber(s)

Spec == Init /\ [][Next]_vars

-----------------------------------------------------------------------------
(* Properties.                                                             *)

\* The newest node of s that has left the stores.
Newest(s) == IF relay[s] = "send" THEN node[s] ELSE IF buf[s] # 0 THEN buf[s] ELSE shown[s]

\* A subscriber is not left behind: when the store holds something else than
\* the newest node on its way to the client, a key that will make the relay
\* resolve again is on its way too, unless the last one was dropped on a full
\* channel.  A node that is gone is never shown.  (relayInvalidations.)
Told ==
  \A s \in Subs : LET i == SubItem[s] IN
    relay[s] \in {"wait", "resolve", "send"} /\ s \notin gone \cup dropped
    /\ store[i] \notin {0, Newest(s)} =>
      \/ SX!Contains(chan[s], i) \/ relay[s] = "resolve"
      \/ poll = "send" /\ Head(news) = i /\ s \in to
      \/ SX!Contains(news, i) /\ (poll = "send" => SX!Contains(Tail(news), i))

(* What the comments promise and the code does not keep. *)

\* provider.go, before the fan-out: "the send is best-effort but the
\* goroutine still races other producers".
SendsAreSafe == ~panicked
=============================================================================
