----------------------------- MODULE PeerClient -----------------------------
(***************************************************************************)
(* The websocket client of one federated peer                              *)
(* (internal/server/providers/peerproxy/client.go).                        *)
(*                                                                         *)
(* Many goroutines share one connection: the callers of Subscribe, the     *)
(* teardown goroutine each successful Subscribe leaves behind, one read    *)
(* loop per connection and Close.  Client.mu guards conn, connOnce,        *)
(* connErr, subs and closed, but channels are sent on and closed, and      *)
(* sockets closed, OUTSIDE the lock, so each such step is an action of its *)
(* own here and may interleave with everything else.                       *)
(*                                                                         *)
(* A "generation" g names one sync.Once: the dial attempt it runs, the     *)
(* connection that attempt opens and the read loop of that connection.     *)
(* A call c names one call of Subscribe, hence also its subscription id    *)
(* (nextSub never repeats), its channel and its teardown goroutine.        *)
(***************************************************************************)
EXTENDS Naturals, FiniteSets

CONSTANTS
  Calls,    \* calls of Subscribe; each runs once
  MaxGen,   \* bound on dial attempts; |Calls| never runs out
  Events,   \* what may happen: kinds of frame the peer sends, Close
  BufCap,   \* capacity of a subscription channel (8 in the code)
  Closer,   \* the goroutine that runs Client.Close
  Nobody    \* no process, no subscription

ASSUME BoundsAssumption == MaxGen \in Nat /\ BufCap \in Nat \ {0}
ASSUME EventsAssumption ==
  Events \subseteq {"next", "error", "complete", "ping", "close"}
ASSUME NamesAssumption ==
  /\ \A c \in Calls : c \notin Nat /\ c # Closer /\ c # Nobody
  /\ Closer \notin Nat /\ Nobody \notin Nat /\ Closer # Nobody

Gens  == 1..MaxGen
Procs == Calls \cup Gens \cup {Closer}
NoGen == 0                       \* c.conn = nil, c.connErr = nil

VARIABLES
  once,     \* c.connOnce: the generation a caller of ensureConn takes
  attempt,  \* the sync.Once of each generation: fresh, running or done
  connErr,  \* c.connErr: the generation whose open failed, or NoGen
  conn,     \* c.conn, or NoGen
  subs,     \* the keys of c.subs
  closed,   \* c.closed
  wire,     \* each generation's socket
  chan,     \* each subscription's channel: made, open, closed
  buf,      \* results buffered in the channel
  writeMu,  \* the process whose send is parked while it holds c.writeMu
  pc,       \* where each goroutine is
  on,       \* its local variable `once`, later `conn`
  about,    \* the subscription id its next deliver/removeSub is about
  toFail,   \* failAll's local `subs`: to be sent an error, then closed
  toClose,  \* channels it took out of c.subs and will close next
  handed,   \* calls whose Subscribe has returned the channel
  panic     \* the run-time panic that ended the process, if any

connVars == <<once, attempt, connErr, conn>>
vars == <<connVars, subs, closed, wire, chan, buf, writeMu, pc, on, about,
          toFail, toClose, handed, panic>>

CallPC   == {"idle", "once", "dial", "init", "ack", "check", "register",
             "write", "stream", "complete", "failall", "hangup", "drain",
             "remove", "close", "over"}
ReaderPC == {"none", "read", "pong", "next", "error", "failall", "hangup",
             "drain", "remove", "close", "over"}
CloserPC == {"idle", "drain", "hangup", "over"}

TypeOK ==
  /\ once \in 1..(MaxGen + 1)
  /\ attempt \in [Gens -> {"fresh", "running", "done"}]
  /\ connErr \in Gens \cup {NoGen}
  /\ conn \in Gens \cup {NoGen}
  /\ subs \subseteq Calls
  /\ closed \in BOOLEAN
  /\ wire \in [Gens -> {"none", "up", "down", "shut"}]
  /\ chan \in [Calls -> {"none", "open", "closed"}]
  /\ buf \in [Calls -> 0..BufCap]
  /\ writeMu \in Procs \cup {Nobody}
  /\ pc \in [Procs -> CallPC \cup ReaderPC]
  /\ \A c \in Calls : pc[c] \in CallPC
  /\ \A g \in Gens : pc[g] \in ReaderPC
  /\ pc[Closer] \in CloserPC
  /\ on \in [Procs -> 0..(MaxGen + 1)]
  /\ about \in [Procs -> Calls \cup {Nobody}]
  /\ toFail \in [Procs -> SUBSET Calls]
  /\ toClose \in [Procs -> SUBSET Calls]
  /\ handed \subseteq Calls
  /\ panic \in {"none", "send", "close"}

Init ==
  /\ once = 1
  /\ attempt = [g \in Gens |-> "fresh"]
  /\ connErr = NoGen
  /\ conn = NoGen
  /\ subs = {}
  /\ closed = FALSE
  /\ wire = [g \in Gens |-> "none"]
  /\ chan = [c \in Calls |-> "none"]
  /\ buf = [c \in Calls |-> 0]
  /\ writeMu = Nobody
  /\ pc = [p \in Procs |-> IF p \in Gens THEN "none" ELSE "idle"]
  /\ on = [p \in Procs |-> IF p \in Gens THEN p ELSE NoGen]
  /\ about = [p \in Procs |-> IF p \in Calls THEN p ELSE Nobody]
  /\ toFail = [p \in Procs |-> {}]
  /\ toClose = [p \in Procs |-> {}]
  /\ handed = {}
  /\ panic = "none"

-----------------------------------------------------------------------------
(* Helpers.  A goroutine moves; a channel receives a result unless full.   *)

Goto(p, from, to) == pc[p] = from /\ pc' = [pc EXCEPT ![p] = to]

MutPushUnbounded(c) == [buf EXCEPT ![c] = @ + 1]

Push(c) == IF buf[c] < BufCap THEN [buf EXCEPT ![c] = @ + 1] ELSE buf

MutKeepSocket(g) == wire

\* conn.Close(); a nil conn is left alone.
ShutSocket(g) == IF g \in Gens THEN [wire EXCEPT ![g] = "shut"] ELSE wire

MutNoRearm == once' = once

\* c.connOnce = &sync.Once{}
Rearm == once' = once + 1

-----------------------------------------------------------------------------
(* writeJSON: one sender at a time, on any connection of the client.  A    *)
(* send to a peer that has stopped draining parks, writeMu held, until its *)
(* deadline fails it.  (A send that is merely slow is one not taken yet.)  *)

SendPc(p) == pc[p] \in {"init", "write", "complete", "pong"}

SendParks(p) ==
  /\ SendPc(p)
  /\ writeMu = Nobody
  /\ wire[on[p]] \in {"up", "down"}
  /\ writeMu' = p
  /\ UNCHANGED <<connVars, subs, closed, wire, chan, buf, pc, on, about,
                 toFail, toClose, handed, panic>>

\* The send got through, as far as the sender can tell.
SendOk(p) ==
  /\ writeMu = Nobody
  /\ wire[on[p]] \in {"up", "down"}
  /\ UNCHANGED writeMu

MutNoWriteDeadline(p) ==
  /\ writeMu = Nobody /\ wire[on[p]] \in {"down", "shut"}
  /\ UNCHANGED writeMu

\* An i/o error at once, or the write deadline of a parked send.
SendFails(p) ==
  /\ \/ writeMu = Nobody /\ wire[on[p]] \in {"down", "shut"}
     \/ writeMu = p
  /\ writeMu' = Nobody

-----------------------------------------------------------------------------
(* ensureConn: take the current sync.Once, run it or wait for it, read the *)
(* error.                                                                  *)

TakeOnce(c) ==
  /\ Goto(c, "idle", "once")
  /\ on' = [on EXCEPT ![c] = once]
  /\ UNCHANGED <<connVars, subs, closed, wire, chan, buf, writeMu, about,
                 toFail, toClose, handed, panic>>

MutOnceNotExclusive(g) == attempt[g] # "done"

\* sync.Once lets its first caller in.
MayRun(g) == attempt[g] = "fresh"

RunOnce(c) ==
  /\ Goto(c, "once", "dial")
  /\ on[c] \in Gens
  /\ MayRun(on[c])
  /\ attempt' = [attempt EXCEPT ![on[c]] = "running"]
  /\ UNCHANGED <<once, connErr, conn, subs, closed, wire, chan, buf, writeMu,
                 on, about, toFail, toClose, handed, panic>>

AwaitOnce(c) ==
  /\ Goto(c, "once", "check")
  /\ on[c] \in Gens
  /\ attempt[on[c]] = "done"
  /\ UNCHANGED <<connVars, subs, closed, wire, chan, buf, writeMu, on, about,
                 toFail, toClose, handed, panic>>

\* failOpen: remember why, re-arm connOnce.  The socket, not yet published,
\* is closed just before.
FailOpen(g) ==
  /\ connErr' = g
  /\ Rearm
  /\ attempt' = [attempt EXCEPT ![g] = "done"]
  /\ UNCHANGED conn

\* DialContext returns an error: refused, handshake timeout, caller's ctx.
DialFails(c) ==
  /\ Goto(c, "dial", "check")
  /\ FailOpen(on[c])
  /\ UNCHANGED <<subs, closed, wire, chan, buf, writeMu, on, about, toFail,
                 toClose, handed, panic>>

DialConnects(c) ==
  /\ Goto(c, "dial", "init")
  /\ wire' = [wire EXCEPT ![on[c]] = "up"]
  /\ UNCHANGED <<connVars, subs, closed, chan, buf, writeMu, on, about,
                 toFail, toClose, handed, panic>>

InitSent(c) ==
  /\ Goto(c, "init", "ack")
  /\ SendOk(c)
  /\ UNCHANGED <<connVars, subs, closed, wire, chan, buf, on, about, toFail,
                 toClose, handed, panic>>

\* connection_init cannot be written, or parks until its deadline.
InitFails(c) ==
  /\ Goto(c, "init", "check")
  /\ SendFails(c)
  /\ wire' = ShutSocket(on[c])
  /\ FailOpen(on[c])
  /\ UNCHANGED <<subs, closed, chan, buf, on, about, toFail, toClose, handed,
                 panic>>

\* The attempt ends without a connection.
NoAck(c) ==
  /\ Goto(c, "ack", "check")
  /\ wire' = ShutSocket(on[c])
  /\ FailOpen(on[c])
  /\ UNCHANGED <<subs, closed, chan, buf, writeMu, on, about, toFail,
                 toClose, handed, panic>>

\* A read error: the connection is lost, or was silent for readWait.
AckFails(c) == NoAck(c) /\ wire[on[c]] # "up"

\* The peer's first frame is no ack.
AckRefused(c) == NoAck(c) /\ wire[on[c]] = "up"

MutErrorKept(c) ==
  /\ pc[c] = "ack"
  /\ wire[on[c]] = "up"
  /\ conn' = on[c]
  /\ attempt' = [attempt EXCEPT ![on[c]] = "done"]
  /\ pc' = [pc EXCEPT ![c] = "check", ![on[c]] = "read"]
  /\ UNCHANGED <<once, connErr, subs, closed, wire, chan, buf, writeMu, on,
                 about, toFail, toClose, handed, panic>>

\* connection_ack: publish the connection and start its read loop.
AckArrives(c) ==
  /\ pc[c] = "ack"
  /\ wire[on[c]] = "up"
  /\ conn' = on[c]
  /\ connErr' = NoGen
  /\ attempt' = [attempt EXCEPT ![on[c]] = "done"]
  /\ pc' = [pc EXCEPT ![c] = "check", ![on[c]] = "read"]
  /\ UNCHANGED <<once, subs, closed, wire, chan, buf, writeMu, on, about,
                 toFail, toClose, handed, panic>>

\* return c.connErr
OpenFailed(c) ==
  /\ connErr # NoGen
  /\ Goto(c, "check", "over")
  /\ UNCHANGED <<connVars, subs, closed, wire, chan, buf, writeMu, on, about,
                 toFail, toClose, handed, panic>>

OpenReady(c) ==
  /\ connErr = NoGen
  /\ Goto(c, "check", "register")
  /\ UNCHANGED <<connVars, subs, closed, wire, chan, buf, writeMu, on, about,
                 toFail, toClose, handed, panic>>

-----------------------------------------------------------------------------
(* The rest of Subscribe and its teardown goroutine.                       *)

MutNilConnUnchecked == closed

\* "client closed" or "connection lost before subscribe".
CannotRegister == closed \/ conn = NoGen

RegisterRefused(c) ==
  /\ CannotRegister
  /\ Goto(c, "register", "over")
  /\ UNCHANGED <<connVars, subs, closed, wire, chan, buf, writeMu, on, about,
                 toFail, toClose, handed, panic>>

Register(c) ==
  /\ ~CannotRegister
  /\ Goto(c, "register", "write")
  /\ subs' = subs \cup {c}
  /\ chan' = [chan EXCEPT ![c] = "open"]
  /\ on' = [on EXCEPT ![c] = conn]
  /\ UNCHANGED <<connVars, closed, wire, buf, writeMu, about, toFail,
                 toClose, handed, panic>>

SubscribeSent(c) ==
  /\ Goto(c, "write", "stream")
  /\ SendOk(c)
  /\ handed' = handed \cup {c}
  /\ UNCHANGED <<connVars, subs, closed, wire, chan, buf, on, about, toFail,
                 toClose, panic>>

\* The subscribe, complete or pong frame cannot be written: on to failAll.
WriteFails(p) ==
  /\ \E from \in {"write", "complete", "pong"} : Goto(p, from, "failall")
  /\ SendFails(p)
  /\ wire' = [wire EXCEPT ![on[p]] = IF @ = "up" THEN "down" ELSE @]
  /\ UNCHANGED <<connVars, subs, closed, chan, buf, on, about, toFail,
                 toClose, handed, panic>>

\* ctx fires: the teardown goroutine wakes up.
CtxDone(c) ==
  /\ Goto(c, "stream", "complete")
  /\ UNCHANGED <<connVars, subs, closed, wire, chan, buf, writeMu, on, about,
                 toFail, toClose, handed, panic>>

MutCompleteThenWait(c) ==
  /\ Goto(c, "complete", "over")
  /\ SendOk(c)
  /\ UNCHANGED <<connVars, subs, closed, wire, chan, buf, on, about, toFail,
                 toClose, handed, panic>>

CompleteSent(c) ==
  /\ Goto(c, "complete", "remove")
  /\ SendOk(c)
  /\ UNCHANGED <<connVars, subs, closed, wire, chan, buf, on, about, toFail,
                 toClose, handed, panic>>

\* The consumer takes a buffered result.  (What it drains from a channel
\* already closed makes no difference to anyone.)
Receive(c) ==
  /\ c \in handed /\ chan[c] = "open"
  /\ buf[c] > 0
  /\ buf' = [buf EXCEPT ![c] = @ - 1]
  /\ UNCHANGED <<connVars, subs, closed, wire, chan, writeMu, pc, on, about,
                 toFail, toClose, handed, panic>>

-----------------------------------------------------------------------------
(* failAll, shared by Subscribe, the teardown goroutine and the read loop. *)
(* AfterDrain and AfterClose are where each caller resumes.                *)

AfterDrain(p) == IF p \in Calls THEN "remove" ELSE IF p \in Gens THEN "over" ELSE "hangup"
AfterClose(p) == IF p \in Calls THEN "over" ELSE "read"

MutUnscoped(p) == TRUE

\* The connection this goroutine saw fail is still the client's.
Current(p) == conn = on[p]

FailAllSuperseded(p) ==
  /\ ~Current(p)
  /\ Goto(p, "failall", AfterDrain(p))
  /\ UNCHANGED <<connVars, subs, closed, wire, chan, buf, writeMu, on, about,
                 toFail, toClose, handed, panic>>

MutMapNotSwapped == subs

\* c.subs = map[string]chan QueryResult{}
EmptyMap == {}

FailAll(p) ==
  /\ Current(p)
  /\ Goto(p, "failall", "hangup")
  /\ toFail' = [toFail EXCEPT ![p] = subs]
  /\ subs' = EmptyMap
  /\ conn' = NoGen
  /\ Rearm
  /\ connErr' = NoGen
  /\ UNCHANGED <<attempt, closed, wire, chan, buf, writeMu, on, about,
                 toClose, handed, panic>>

\* conn.Close(), before failAll's loop and at the end of Close.
Hangup(p) ==
  /\ Goto(p, "hangup", IF p = Closer THEN "over" ELSE "drain")
  /\ wire' = ShutSocket(on[p])
  /\ UNCHANGED <<connVars, subs, closed, chan, buf, writeMu, on, about,
                 toFail, toClose, handed, panic>>

\* One round of failAll's loop: the final error frame, dropped when full ...
SendFinal(p) ==
  /\ pc[p] = "drain"
  /\ toClose[p] = {}
  /\ \E c \in toFail[p] :
       /\ buf' = Push(c)
       /\ toFail' = [toFail EXCEPT ![p] = @ \ {c}]
       /\ toClose' = [toClose EXCEPT ![p] = {c}]
  /\ UNCHANGED <<connVars, subs, closed, wire, chan, writeMu, pc, on, about,
                 handed, panic>>

\* ... then close(ch), which panics on a channel closed before.
CloseChan(p) ==
  /\ \E c \in toClose[p] :
       /\ chan' = [chan EXCEPT ![c] = "closed"]
       /\ toClose' = [toClose EXCEPT ![p] = @ \ {c}]
       /\ panic' = IF chan[c] = "open" THEN panic ELSE "close"
  /\ UNCHANGED <<connVars, subs, closed, wire, buf, writeMu, pc, on, about,
                 toFail, handed>>

Drained(p) ==
  /\ toFail[p] = {} /\ toClose[p] = {}
  /\ Goto(p, "drain", AfterDrain(p))
  /\ UNCHANGED <<connVars, subs, closed, wire, chan, buf, writeMu, on, about,
                 toFail, toClose, handed, panic>>

MutRemovedNotClosed(p) ==
  /\ Goto(p, "remove", "close")
  /\ subs' = subs \ {about[p]}
  /\ UNCHANGED <<connVars, closed, wire, chan, buf, writeMu, on, about,
                 toFail, toClose, handed, panic>>

\* removeSub: out of the map under the lock, closed (CloseChan) after it.
RemoveSub(p) ==
  /\ Goto(p, "remove", "close")
  /\ subs' = subs \ {about[p]}
  /\ toClose' = [toClose EXCEPT ![p] = subs \cap {about[p]}]
  /\ UNCHANGED <<connVars, closed, wire, chan, buf, writeMu, on, about,
                 toFail, handed, panic>>

Removed(p) ==
  /\ toClose[p] = {}
  /\ Goto(p, "close", AfterClose(p))
  /\ about' = IF p \in Gens THEN [about EXCEPT ![p] = Nobody] ELSE about
  /\ UNCHANGED <<connVars, subs, closed, wire, chan, buf, writeMu, on, toFail,
                 toClose, handed, panic>>

-----------------------------------------------------------------------------
(* readLoop.  A frame names a subscription of this connection; deliver and *)
(* failOne look its channel up under the lock and send after releasing it. *)

ReadResult(g, c) ==
  /\ wire[g] = "up"
  /\ on[c] = g /\ c \in handed
  /\ \E kind \in Events \cap {"next", "error"} :
       Goto(g, "read", IF c \in subs THEN kind
                       ELSE IF kind = "error" THEN "remove" ELSE "read")
  /\ about' = [about EXCEPT ![g] = IF pc'[g] = "read" THEN Nobody ELSE c]
  /\ UNCHANGED <<connVars, subs, closed, wire, chan, buf, writeMu, on,
                 toFail, toClose, handed, panic>>

\* The non-blocking send of deliver and failOne on the channel looked up.
Deliver(g) ==
  /\ \/ Goto(g, "next", "read")
     \/ Goto(g, "error", "remove")
  /\ IF chan[about[g]] = "closed"
     THEN panic' = "send" /\ UNCHANGED buf
     ELSE buf' = Push(about[g]) /\ UNCHANGED panic
  /\ about' = [about EXCEPT ![g] = IF pc'[g] = "read" THEN Nobody ELSE @]
  /\ UNCHANGED <<connVars, subs, closed, wire, chan, writeMu, on, toFail,
                 toClose, handed>>

ReadComplete(g, c) ==
  /\ "complete" \in Events
  /\ wire[g] = "up"
  /\ on[c] = g /\ c \in handed
  /\ Goto(g, "read", "remove")
  /\ about' = [about EXCEPT ![g] = c]
  /\ UNCHANGED <<connVars, subs, closed, wire, chan, buf, writeMu, on,
                 toFail, toClose, handed, panic>>

ReadPing(g) ==
  /\ "ping" \in Events
  /\ wire[g] = "up"
  /\ Goto(g, "read", "pong")
  /\ UNCHANGED <<connVars, subs, closed, wire, chan, buf, writeMu, on, about,
                 toFail, toClose, handed, panic>>

PongSent(g) ==
  /\ Goto(g, "pong", "read")
  /\ SendOk(g)
  /\ UNCHANGED <<connVars, subs, closed, wire, chan, buf, on, about, toFail,
                 toClose, handed, panic>>

MutNoReadDeadline(g) ==
  /\ wire[g] = "shut"
  /\ Goto(g, "read", "failall")
  /\ UNCHANGED <<connVars, subs, closed, wire, chan, buf, writeMu, on, about,
                 toFail, toClose, handed, panic>>

\* The socket was closed or lost, or stayed silent for readWait.
ReadFails(g) ==
  /\ wire[g] # "up"
  /\ Goto(g, "read", "failall")
  /\ UNCHANGED <<connVars, subs, closed, wire, chan, buf, writeMu, on, about,
                 toFail, toClose, handed, panic>>

-----------------------------------------------------------------------------
(* Close, and the peer going away.                                         *)

Close ==
  /\ "close" \in Events
  /\ Goto(Closer, "idle", "drain")
  /\ closed' = TRUE
  /\ on' = [on EXCEPT ![Closer] = conn]
  /\ toClose' = [toClose EXCEPT ![Closer] = subs]
  /\ subs' = EmptyMap
  /\ UNCHANGED <<connVars, wire, chan, buf, writeMu, about, toFail, handed,
                 panic>>

Break(g) ==
  /\ wire[g] = "up"
  /\ wire' = [wire EXCEPT ![g] = "down"]
  /\ UNCHANGED <<connVars, subs, closed, chan, buf, writeMu, pc, on, about,
                 toFail, toClose, handed, panic>>

-----------------------------------------------------------------------------
\* Sends compete for writeMu; every other step of a goroutine is its own.
Sending(p) ==
  \/ WriteFails(p)
  \/ p \in Calls /\ (InitSent(p) \/ InitFails(p) \/ SubscribeSent(p)
                      \/ CompleteSent(p))
  \/ p \in Gens /\ PongSent(p)

Ensuring(c) ==
  \/ RunOnce(c) \/ AwaitOnce(c) \/ DialFails(c) \/ DialConnects(c)
  \/ AckFails(c) \/ OpenFailed(c) \/ OpenReady(c)
  \/ RegisterRefused(c) \/ Register(c)

Ending(p) ==
  \/ FailAllSuperseded(p) \/ FailAll(p) \/ Hangup(p) \/ SendFinal(p)
  \/ CloseChan(p) \/ Drained(p) \/ RemoveSub(p) \/ Removed(p)

\* What a running goroutine does without being asked.
Progress(p) ==
  \/ p \in Calls /\ Ensuring(p)
  \/ p \in Gens /\ (Deliver(p) \/ ReadFails(p))
  \/ Ending(p)

\* What callers, consumers, contexts and the peer decide.
Environment ==
  \/ \E c \in Calls : \/ TakeOnce(c) \/ CtxDone(c) \/ Receive(c)
                       \/ AckArrives(c) \/ AckRefused(c)
  \/ \E g \in Gens : ReadPing(g) \/ Break(g)
  \/ \E g \in Gens, c \in Calls : ReadResult(g, c) \/ ReadComplete(g, c)
  \/ \E p \in Calls \cup Gens : SendParks(p)
  \/ Close

\* A panic ends the process: nothing runs after it.
Next == panic = "none" /\ (Environment \/ \E p \in Procs : Progress(p) \/ Sending(p))

Spec == Init /\ [][Next]_vars

(* The Go scheduler runs every runnable goroutine; a dial is bounded by its *)
(* handshake timeout, and readWait bounds a read from a peer gone silent.   *)
(* It does not bound the wait for a frame: armReads re-arms the deadline on *)
(* every ping and pong, so a peer that is up acks, refuses, or neither, as  *)
(* it likes.  Weak fairness is enough for writeMu too: a send that parks    *)
(* fails and takes its connection down, so a waiting sender sees it taken   *)
(* only so often.                                                           *)
FairSpec ==
  /\ Spec
  /\ \A p \in Procs : WF_vars(panic = "none" /\ (Progress(p) \/ Sending(p)))

-----------------------------------------------------------------------------
(* Properties.                                                             *)

Live(p) == pc[p] \notin {"none", "idle", "over"}

\* No channel is ever closed twice, whoever ends its stream: of the racing
\* failAll, removeSub and Close calls exactly one takes it out of c.subs.
NoDoubleClose == panic # "close"

\* No stream is orphaned: an open channel is in c.subs or some goroutine that
\* has not finished holds it and is going to close it, so its consumer's
\* range loop ends.
NoOrphanStream ==
  \A c \in Calls : chan[c] = "open" =>
    c \in subs \/ \E p \in Procs : Live(p) /\ c \in toFail[p] \cup toClose[p]

\* Every registered stream rides the client's current connection, and that
\* connection has a read loop which has not given up, so its loss is noticed.
StreamsOnCurrentConn ==
  /\ \A c \in subs : conn # NoGen /\ on[c] = conn
  /\ conn # NoGen => Live(conn)

\* A spent connOnce always has its connection current: after a failed open or
\* a lost connection the next Subscribe dials afresh, never replays an error.
SpentOnceHasConn == once \in Gens /\ attempt[once] = "done" => conn = once

\* A Subscribe never returns the error of an attempt made before its own.
NoStaleOpenError ==
  \A c \in Calls : pc[c] = "check" /\ connErr # NoGen => connErr >= on[c]

\* At most one open is in progress, and none while a connection is current:
\* the client multiplexes one websocket however its callers race.
SingleFlight ==
  \A c \in Calls : pc[c] \in {"dial", "init", "ack"} =>
    /\ conn = NoGen
    /\ \A d \in Calls \ {c} : pc[d] \notin {"dial", "init", "ack"}

\* Every open socket is the current one, being opened, or about to be closed.
NoLostSocket ==
  \A g \in Gens : wire[g] \in {"up", "down"} =>
    \/ conn = g
    \/ \E p \in Procs : on[p] = g /\ pc[p] \in {"init", "ack", "hangup"}

\* A stream on a healthy connection ends only for a cause of its own: its
\* ctx, a final frame of the peer, or Close; never because some goroutine
\* reports the failure of another connection.
StreamsEndForCause ==
  [][\A c \in subs \ subs' :
       \/ closed'
       \/ wire[on[c]] # "up"
       \/ \E p \in {c, on[c]} : pc[p] = "remove" /\ about[p] = c]_vars

\* A peer that pings and neither acks nor refuses: every ping re-arms the read
\* deadline, so the one goroutine that waits for the ack waits on.
HeldOpen == <>[](\E c \in Calls : pc[c] = "ack" /\ wire[on[c]] = "up")

\* Every call of Subscribe that starts returns, through every failure, silence
\* and stalled send and behind any number of other callers' attempts, unless a
\* peer holds an attempt to connect open by pings alone.
SubscribeReturns ==
  \/ HeldOpen
  \/ \A c \in Calls : pc[c] = "once" ~> (c \in handed \/ ~Live(c) \/ panic # "none")

\* When a connection is lost, every stream on it is closed.
LossEndsStreams ==
  \A c \in Calls :
    (c \in subs /\ wire[on[c]] # "up") ~> (chan[c] = "closed" \/ panic # "none")

\* A cancelled subscription is closed and forgotten without the peer's help.
CancelEndsStream ==
  \A c \in Calls :
    pc[c] = "complete" ~> ((chan[c] = "closed" /\ c \notin subs) \/ panic # "none")

(* Client.Subscribe's promise to its callers (PeerStream), seen through    *)
(* this state: a call that has ended without a channel was refused.        *)
Unopened(c) ==
  IF pc[c] = "idle" THEN "idle" ELSE IF pc[c] = "over" THEN "refused" ELSE "asked"

StreamOf(c) ==
  IF chan[c] = "none" THEN Unopened(c) ELSE IF chan[c] = "open" THEN "open" ELSE "ended"

Streams == INSTANCE PeerStream WITH
  Streams <- Calls, stream <- [c \in Calls |-> StreamOf(c)], queue <- buf

\* The client keeps PeerStream's promise: one outcome per Subscribe, a stream
\* that opens once, carries only while it is open and never comes back.
ImplementsStream == Streams!Spec

(* What the comments promise and the code does not keep. *)

\* "No read deadline is set yet ... so the ack read below needs its own bound":
\* the bound is re-armed by every ping and pong.
AckIsBounded == ~HeldOpen

\* "Errors mid-stream surface as a final QueryResult whose Errors slice is
\* non-empty": failAll's error frame reaches the channel it is about to close.
FinalErrorDelivered ==
  [][\A p \in Procs : \A c \in toFail[p] \ toFail'[p] : buf'[c] = buf[c] + 1]_vars

\* "Close tears it down": once Close and every Subscribe have returned and
\* torn down, no socket is left open.
CloseTearsDown ==
  (pc[Closer] = "over" /\ \A c \in Calls : ~Live(c) /\ c \notin subs)
    => \A g \in Gens : wire[g] \notin {"up", "down"}

\* "[the channel] closes when the subscription completes or ctx is cancelled":
\* no goroutine sends on it after that.
NoSendAfterClose == panic # "send"
=============================================================================
