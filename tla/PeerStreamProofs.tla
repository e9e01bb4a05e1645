-------------------------- MODULE PeerStreamProofs --------------------------
(***************************************************************************)
(* PeerClient implements PeerStream, for any calls, dial bound and buffer: *)
(* every step of the client is a step of one stream, or none at all.       *)
(***************************************************************************)
EXTENDS PeerClientProofs

\* Past registration a call has its channel, unless it was refused before.
OpenedInv ==
  \A c \in Calls : ~Early(c) =>
    chan[c] # "none" \/ (pc[c] = "over" /\ c \notin handed)

-----------------------------------------------------------------------------
(* How steps of the client are seen as steps of a stream.                  *)

\* No step that leaves channels and buffers alone is seen from outside, unless
\* a call without a channel starts or ends.
LEMMA QuietStep ==
  ASSUME UNCHANGED <<chan, buf>>,
         \A c \in Calls :
           \/ pc'[c] = pc[c]
           \/ chan[c] # "none"
           \/ pc[c] \notin {"idle", "over"} /\ pc'[c] \notin {"idle", "over"}
  PROVE  UNCHANGED Streams!vars
<1>1. ASSUME NEW c \in Calls PROVE StreamOf(c)' = StreamOf(c)
  BY <1>1 DEF StreamOf, Unopened
<1>2. QED BY <1>1 DEF Streams!vars

\* A step that changes what is seen of one call only is a step of its stream.
LEMMA OneMoves ==
  ASSUME NEW c \in Calls, buf' = buf,
         \A d \in Calls \ {c} : StreamOf(d)' = StreamOf(d),
         NEW from, NEW to, StreamOf(c) = from, StreamOf(c)' = to
  PROVE  Streams!Moves(c, from, to)
  BY DEF Streams!Moves

\* What is seen of a call depends on its channel and program counter only.
LEMMA OthersStay ==
  ASSUME NEW c \in Calls,
         \A d \in Calls \ {c} : chan'[d] = chan[d] /\ pc'[d] = pc[d]
  PROVE  \A d \in Calls \ {c} : StreamOf(d)' = StreamOf(d)
  BY DEF StreamOf, Unopened

\* A goroutine that moves between inner points of its code, and touches
\* neither channel nor buffer, is not seen.
LEMMA InnerStep ==
  ASSUME IInv, NEW p \in Procs, NEW from, NEW to, Goto(p, from, to),
         UNCHANGED <<chan, buf>>,
         p \in Calls => chan[p] # "none" \/ (from \notin {"idle", "over"} /\ to \notin {"idle", "over"})
  PROVE  UNCHANGED Streams!vars
<1>1. \A c \in Calls : c # p => pc'[c] = pc[c]
  BY DEF IInv, TypeOK, Goto
<1>2. p \in Calls => pc[p] = from /\ pc'[p] = to
  BY DEF IInv, TypeOK, Goto
<1>3. QED BY <1>1, <1>2, QuietStep

-----------------------------------------------------------------------------
(* The actions that are seen.                                              *)

\* A call starts, or ends without a channel.
LEMMA CallSeen ==
  ASSUME IInv, NEW c \in Calls,
         TakeOnce(c) \/ OpenFailed(c) \/ RegisterRefused(c)
  PROVE  Streams!Next
<1>1. PICK from \in {"idle", "check", "register"}, to \in {"once", "over"} :
        /\ Goto(c, from, to) /\ (from = "idle" <=> to = "once")
  BY DEF TakeOnce, OpenFailed, RegisterRefused
<1>2. chan' = chan /\ buf' = buf
  BY DEF TakeOnce, OpenFailed, RegisterRefused
<1>3. /\ pc[c] = from /\ pc'[c] = to
      /\ \A d \in Calls \ {c} : pc'[d] = pc[d]
  BY <1>1 DEF IInv, TypeOK, Procs, Goto
<1>4. chan[c] = "none"
  BY <1>1, <1>3 DEF IInv, ChannelsInv, Early
<1>5. \A d \in Calls \ {c} : StreamOf(d)' = StreamOf(d)
  BY <1>2, <1>3, OthersStay
<1>6. CASE from = "idle"
  <2>1. StreamOf(c) = "idle" /\ StreamOf(c)' = "asked"
    BY <1>1, <1>2, <1>3, <1>4, <1>6 DEF StreamOf, Unopened
  <2>2. Streams!Ask(c)
    BY <1>2, <1>5, <2>1, OneMoves DEF Streams!Ask
  <2>3. QED BY <2>2 DEF Streams!Next
<1>7. CASE from # "idle"
  <2>1. StreamOf(c) = "asked" /\ StreamOf(c)' = "refused"
    BY <1>1, <1>2, <1>3, <1>4, <1>7 DEF StreamOf, Unopened
  <2>2. Streams!Refuse(c)
    BY <1>2, <1>5, <2>1, OneMoves DEF Streams!Refuse
  <2>3. QED BY <2>2 DEF Streams!Next
<1>8. QED BY <1>6, <1>7

\* Registration opens the stream.
LEMMA RegisterSeen ==
  ASSUME IInv, NEW c \in Calls, Register(c)
  PROVE  Streams!Next
<1>1. /\ pc[c] = "register" /\ chan'[c] = "open" /\ buf' = buf
      /\ \A d \in Calls \ {c} : chan'[d] = chan[d] /\ pc'[d] = pc[d]
  BY DEF IInv, TypeOK, Procs, Register, Goto
<1>2. chan[c] = "none"
  BY <1>1 DEF IInv, ChannelsInv, Early
<1>3. StreamOf(c) = "asked" /\ StreamOf(c)' = "open"
  BY <1>1, <1>2 DEF StreamOf, Unopened
<1>4. Streams!Open(c)
  BY <1>1, <1>3, OthersStay, OneMoves DEF Streams!Open
<1>5. QED BY <1>4 DEF Streams!Next

\* A closed channel ends its stream.
LEMMA CloseChanSeen ==
  ASSUME IInv, NEW p \in Procs, CloseChan(p)
  PROVE  Streams!Next
<1>1. PICK c \in toClose[p] : chan' = [chan EXCEPT ![c] = "closed"]
  BY DEF CloseChan
<1>2. c \in Calls /\ chan[c] = "open"
  BY <1>1 DEF IInv, TypeOK, HoldersInv, Holds
<1>3. /\ pc' = pc /\ buf' = buf /\ chan'[c] = "closed"
      /\ \A d \in Calls \ {c} : chan'[d] = chan[d] /\ pc'[d] = pc[d]
  BY <1>1, <1>2 DEF IInv, TypeOK, CloseChan
<1>4. StreamOf(c) = "open" /\ StreamOf(c)' = "ended"
  BY <1>2, <1>3 DEF StreamOf
<1>5. Streams!End(c)
  BY <1>2, <1>3, <1>4, OthersStay, OneMoves DEF Streams!End
<1>6. QED BY <1>2, <1>5 DEF Streams!Next

\* A push to an open channel carries a result, or drops it unseen.
LEMMA PushSeen ==
  ASSUME IInv, NEW c \in Calls, chan[c] = "open", chan' = chan, buf' = Push(c),
         \A d \in Calls : pc'[d] = pc[d]
  PROVE  Streams!Next \/ UNCHANGED Streams!vars
<1>1. \A d \in Calls : StreamOf(d)' = StreamOf(d)
  BY DEF StreamOf, Unopened
<1>2. CASE buf[c] < BufCap
  <2>1. Streams!Carry(c)
    BY <1>1, <1>2 DEF Streams!Carry, Push, StreamOf
  <2>2. QED BY <2>1 DEF Streams!Next
<1>3. CASE ~(buf[c] < BufCap)
  BY <1>1, <1>3 DEF Push, Streams!vars
<1>4. QED BY <1>2, <1>3

\* The consumer reads.
LEMMA ReceiveSeen ==
  ASSUME IInv, NEW c \in Calls, Receive(c)
  PROVE  Streams!Next
<1>1. /\ \A d \in Calls : StreamOf(d)' = StreamOf(d)
      /\ buf[c] > 0 /\ buf' = [buf EXCEPT ![c] = @ - 1]
  BY DEF Receive, StreamOf, Unopened
<1>2. Streams!Read(c)
  BY <1>1 DEF Streams!Read
<1>3. QED BY <1>2 DEF Streams!Next

\* No call moves when the read loop delivers.
LEMMA DeliverCalls ==
  ASSUME IInv, NEW g \in Gens, Deliver(g)
  PROVE  \A d \in Calls : pc'[d] = pc[d]
<1>1. \E to : pc' = [pc EXCEPT ![g] = to]
  BY DEF Deliver, Goto
<1>2. QED BY <1>1, ProcNames DEF IInv, TypeOK

\* The read loop hands a frame over (deliver, failOne).
LEMMA DeliverSeen ==
  ASSUME IInv, OpenedInv, NEW g \in Gens, Deliver(g)
  PROVE  Streams!Next \/ UNCHANGED Streams!vars
<1>1. pc[g] \in {"next", "error"} /\ chan' = chan
  BY DEF Deliver, Goto
<1>2. about[g] \in Calls /\ about[g] \in handed
  BY <1>1, NamesAssumption DEF IInv, ReadersInv
<1>3. chan[about[g]] \in {"open", "closed"}
  BY <1>2 DEF IInv, TypeOK, OpenedInv, ChannelsInv
<1>4. \A d \in Calls : pc'[d] = pc[d]
  BY DeliverCalls
<1>5. CASE chan[about[g]] = "closed"
  <2>1. buf' = buf
    BY <1>5 DEF Deliver
  <2>2. QED BY <1>1, <1>4, <2>1, QuietStep
<1>6. CASE chan[about[g]] = "open"
  <2>1. buf' = Push(about[g])
    BY <1>6 DEF Deliver
  <2>2. QED BY <1>1, <1>2, <1>4, <1>6, <2>1, PushSeen
<1>7. QED BY <1>3, <1>5, <1>6

\* The final error frame of failAll, to a channel that is still open.
LEMMA SendFinalSeen ==
  ASSUME IInv, NEW p \in Procs, SendFinal(p)
  PROVE  Streams!Next \/ UNCHANGED Streams!vars
<1>1. PICK c \in toFail[p] : buf' = Push(c)
  BY DEF SendFinal
<1>2. c \in Calls /\ chan[c] = "open"
  BY <1>1 DEF IInv, TypeOK, HoldersInv, Holds
<1>3. chan' = chan /\ pc' = pc
  BY DEF SendFinal
<1>4. QED BY <1>1, <1>2, <1>3, PushSeen

-----------------------------------------------------------------------------
(* The actions that are not.                                               *)

\* ensureConn, while the call is under way.
LEMMA EnsuringUnseen ==
  ASSUME IInv, NEW c \in Calls,
         RunOnce(c) \/ AwaitOnce(c) \/ DialFails(c) \/ DialConnects(c)
           \/ NoAck(c) \/ OpenReady(c) \/ InitSent(c) \/ InitFails(c)
  PROVE  UNCHANGED Streams!vars
<1>1. PICK from \in {"once", "dial", "ack", "check", "init"},
           to \in {"dial", "check", "init", "register", "ack"} : Goto(c, from, to)
  BY DEF RunOnce, AwaitOnce, DialFails, DialConnects, NoAck, OpenReady, InitSent,
    InitFails
<1>2. UNCHANGED <<chan, buf>>
  BY DEF RunOnce, AwaitOnce, DialFails, DialConnects, NoAck, OpenReady, InitSent,
    InitFails
<1>3. QED BY <1>1, <1>2, InnerStep DEF Procs

\* The connection is published and its read loop started.
LEMMA AckUnseen ==
  ASSUME IInv, NEW c \in Calls, AckArrives(c)
  PROVE  UNCHANGED Streams!vars
<1>1. on[c] \in Gens
  BY DEF IInv, AttemptsInv, AckArrives, Dialing
<1>2. /\ pc[c] = "ack" /\ pc'[c] = "check"
      /\ \A d \in Calls \ {c} : pc'[d] = pc[d]
  BY <1>1, ProcNames DEF IInv, TypeOK, Procs, AckArrives
<1>3. UNCHANGED <<chan, buf>>
  BY DEF AckArrives
<1>4. QED BY <1>2, <1>3, QuietStep

\* A registered call, and whoever ends its stream.
LEMMA LaterUnseen ==
  ASSUME IInv, OpenedInv, NEW p \in Procs,
         \/ p \in Calls /\ (SubscribeSent(p) \/ CompleteSent(p) \/ CtxDone(p))
         \/ WriteFails(p) \/ FailAllSuperseded(p) \/ FailAll(p) \/ Hangup(p)
         \/ Drained(p) \/ RemoveSub(p) \/ Removed(p)
  PROVE  UNCHANGED Streams!vars
<1>1. UNCHANGED <<chan, buf>>
  BY DEF SubscribeSent, CompleteSent, CtxDone, WriteFails, FailAllSuperseded, FailAll,
    Hangup, Drained, RemoveSub, Removed
<1>2. PICK from, to :
        /\ from \in {"write", "complete", "stream", "pong", "failall", "hangup", "drain",
                     "remove", "close"}
        /\ Goto(p, from, to)
  BY DEF SubscribeSent, CompleteSent, CtxDone, WriteFails, FailAllSuperseded, FailAll,
    Hangup, Drained, RemoveSub, Removed, Goto
<1>3. p \in Calls => chan[p] # "none"
  BY <1>2 DEF OpenedInv, Early, Goto
<1>4. QED BY <1>1, <1>2, <1>3, InnerStep

\* No call moves with the read loop, the peer or Close.
LEMMA OtherCalls ==
  ASSUME IInv,
         \/ \E g \in Gens : ReadPing(g) \/ Break(g) \/ PongSent(g) \/ ReadFails(g)
         \/ \E g \in Gens, c \in Calls : ReadResult(g, c) \/ ReadComplete(g, c)
         \/ \E p \in Calls \cup Gens : SendParks(p)
         \/ Close
  PROVE  \A c \in Calls : pc'[c] = pc[c]
<1>1. CASE pc' = pc
  BY <1>1
<1>2. CASE \E p \in Gens \cup {Closer} : \E to : pc' = [pc EXCEPT ![p] = to]
  BY <1>2, ProcNames DEF IInv, TypeOK
<1>3. CASE \E g \in Gens : ReadPing(g) \/ Break(g) \/ PongSent(g) \/ ReadFails(g)
  BY <1>1, <1>2, <1>3 DEF ReadPing, Break, PongSent, ReadFails, Goto
<1>4. CASE \E g \in Gens, c \in Calls : ReadResult(g, c) \/ ReadComplete(g, c)
  BY <1>2, <1>4 DEF ReadResult, ReadComplete, Goto
<1>5. CASE \E p \in Calls \cup Gens : SendParks(p)
  BY <1>1, <1>5 DEF SendParks
<1>6. CASE Close
  BY <1>2, <1>6 DEF Close, Goto
<1>7. QED BY <1>3, <1>4, <1>5, <1>6

\* The read loop, the peer and Close.
LEMMA OtherUnseen ==
  ASSUME IInv,
         \/ \E g \in Gens : ReadPing(g) \/ Break(g) \/ PongSent(g) \/ ReadFails(g)
         \/ \E g \in Gens, c \in Calls : ReadResult(g, c) \/ ReadComplete(g, c)
         \/ \E p \in Calls \cup Gens : SendParks(p)
         \/ Close
  PROVE  UNCHANGED Streams!vars
<1>1. UNCHANGED <<chan, buf>>
  BY DEF ReadPing, Break, PongSent, ReadFails, ReadResult, ReadComplete, SendParks, Close
<1>2. \A c \in Calls : pc'[c] = pc[c]
  BY OtherCalls
<1>3. QED BY <1>1, <1>2, QuietStep

-----------------------------------------------------------------------------
(* OpenedInv is inductive beside IInv.                                     *)

\* What every step respects: a channel is never unmade, a call that is over
\* stays so, one that leaves registration without a channel is over, and only
\* a call that has registered hands its channel out.
Steady(c) ==
  /\ chan'[c] = "none" => chan[c] = "none"
  /\ pc[c] = "over" => pc'[c] = "over"
  /\ Early(c) /\ ~Early(c)' /\ chan'[c] = "none" => pc'[c] = "over"
  /\ c \in handed' => c \in handed \/ pc[c] = "write"

\* A goroutine moves on in its code and makes no channel.
LEMMA MoveSteady ==
  ASSUME IInv, NEW p \in Procs, NEW from, NEW to, Goto(p, from, to),
         UNCHANGED chan, NEW c \in Calls,
         c \in handed' => c \in handed \/ pc[c] = "write",
         p \in Calls => /\ from # "over"
                        /\ from \in {"idle", "once", "dial", "init", "ack", "check", "register"}
                             => to \in {"once", "dial", "init", "ack", "check", "register", "over"}
  PROVE  Steady(c)
<1>1. CASE c = p
  <2>1. pc[c] = from /\ pc'[c] = to
    BY <1>1 DEF IInv, TypeOK, Goto
  <2>2. QED BY <1>1, <2>1 DEF Steady, Early
<1>2. CASE c # p
  <2>1. pc'[c] = pc[c]
    BY <1>2 DEF IInv, TypeOK, Procs, Goto
  <2>2. QED BY <2>1 DEF Steady, Early
<1>3. QED BY <1>1, <1>2

\* No call moves.
LEMMA StillSteady ==
  ASSUME NEW c \in Calls, pc'[c] = pc[c], UNCHANGED handed,
         chan'[c] = "none" => chan[c] = "none"
  PROVE  Steady(c)
  BY DEF Steady, Early

\* Every step of a call before it has its channel.
LEMMA EnsuringSteady ==
  ASSUME IInv, NEW d \in Calls, NEW c \in Calls,
         Ensuring(d) \/ TakeOnce(d) \/ AckArrives(d) \/ AckRefused(d) \/ InitSent(d) \/ InitFails(d)
  PROVE  Steady(c)
<1>1. CASE Register(d)
  <2>1. /\ pc' = [pc EXCEPT ![d] = "write"] /\ chan' = [chan EXCEPT ![d] = "open"]
        /\ pc[d] = "register" /\ handed' = handed
    BY <1>1 DEF Register, Goto
  <2>2. QED BY <2>1 DEF IInv, TypeOK, Procs, Steady, Early
<1>2. CASE AckArrives(d)
  <2>1. on[d] \in Gens
    BY <1>2 DEF IInv, AttemptsInv, AckArrives, Dialing
  <2>2. /\ pc[d] = "ack" /\ pc'[d] = "check"
        /\ \A e \in Calls \ {d} : pc'[e] = pc[e]
        /\ chan' = chan /\ handed' = handed
    BY <1>2, <2>1, ProcNames DEF IInv, TypeOK, Procs, AckArrives
  <2>3. QED BY <2>2 DEF Steady, Early
<1>3. CASE \/ RunOnce(d) \/ AwaitOnce(d) \/ DialFails(d) \/ DialConnects(d)
           \/ NoAck(d) \/ OpenFailed(d) \/ OpenReady(d) \/ RegisterRefused(d)
           \/ TakeOnce(d) \/ InitSent(d) \/ InitFails(d)
  <2>1. PICK from \in {"idle", "once", "dial", "init", "ack", "check", "register"},
             to \in {"once", "dial", "init", "ack", "check", "register", "over"} :
          Goto(d, from, to)
    BY <1>3 DEF RunOnce, AwaitOnce, DialFails, DialConnects, NoAck, OpenFailed,
      OpenReady, RegisterRefused, TakeOnce, InitSent, InitFails
  <2>2. UNCHANGED <<chan, handed>>
    BY <1>3 DEF RunOnce, AwaitOnce, DialFails, DialConnects, NoAck, OpenFailed,
      OpenReady, RegisterRefused, TakeOnce, InitSent, InitFails
  <2>3. QED BY <2>1, <2>2, MoveSteady DEF Procs
<1>4. QED BY <1>1, <1>2, <1>3 DEF Ensuring, AckFails, AckRefused

\* Every step of a registered call, and of whoever ends its stream.
LEMMA LaterSteady ==
  ASSUME IInv, NEW p \in Procs, NEW c \in Calls,
         \/ p \in Calls /\ (SubscribeSent(p) \/ CompleteSent(p) \/ CtxDone(p) \/ Receive(p))
         \/ WriteFails(p) \/ Ending(p)
  PROVE  Steady(c)
<1>1. CASE CloseChan(p)
  <2>1. PICK d \in toClose[p] : chan' = [chan EXCEPT ![d] = "closed"]
    BY <1>1 DEF CloseChan
  <2>2. chan'[c] = "none" => chan[c] = "none"
    BY <2>1 DEF IInv, TypeOK
  <2>3. pc' = pc /\ handed' = handed
    BY <1>1 DEF CloseChan
  <2>4. QED BY <2>2, <2>3, StillSteady
<1>2. CASE SendFinal(p) \/ Receive(p)
  BY <1>2, StillSteady DEF SendFinal, Receive
<1>3. CASE \/ p \in Calls /\ (SubscribeSent(p) \/ CompleteSent(p) \/ CtxDone(p))
           \/ WriteFails(p) \/ FailAllSuperseded(p) \/ FailAll(p) \/ Hangup(p)
           \/ Drained(p) \/ RemoveSub(p) \/ Removed(p)
  <2>1. PICK from, to :
          /\ from \in {"write", "complete", "stream", "pong", "failall", "hangup", "drain",
                       "remove", "close"}
          /\ Goto(p, from, to)
    BY <1>3 DEF SubscribeSent, CompleteSent, CtxDone, WriteFails, FailAllSuperseded,
      FailAll, Hangup, Drained, RemoveSub, Removed, Goto
  <2>2. UNCHANGED chan
    BY <1>3 DEF SubscribeSent, CompleteSent, CtxDone, WriteFails, FailAllSuperseded,
      FailAll, Hangup, Drained, RemoveSub, Removed
  <2>3. c \in handed' => c \in handed \/ pc[c] = "write"
    BY <1>3 DEF SubscribeSent, CompleteSent, CtxDone, WriteFails, FailAllSuperseded,
      FailAll, Hangup, Drained, RemoveSub, Removed, Goto
  <2>4. QED BY <2>1, <2>2, <2>3, MoveSteady
<1>4. QED BY <1>1, <1>2, <1>3 DEF Ending

\* No call moves when the read loop, the peer or Close does.
LEMMA OthersMove ==
  ASSUME IInv,
         \/ \E g \in Gens : ReadPing(g) \/ Break(g) \/ PongSent(g) \/ ReadFails(g)
         \/ \E g \in Gens : Deliver(g)
         \/ \E g \in Gens, c \in Calls : ReadResult(g, c) \/ ReadComplete(g, c)
         \/ \E p \in Calls \cup Gens : SendParks(p)
         \/ Close,
         NEW c \in Calls
  PROVE  Steady(c)
<1>1. chan' = chan /\ handed' = handed
  BY DEF ReadPing, Break, PongSent, ReadFails, Deliver, ReadResult, ReadComplete,
    SendParks, Close
<1>2. pc'[c] = pc[c]
  BY OtherCalls, DeliverCalls
<1>3. QED BY <1>1, <1>2, StillSteady

\* OpenedInv is preserved.
LEMMA OpenedKeeps == IInv /\ OpenedInv /\ [Next]_vars => OpenedInv'
<1> SUFFICES ASSUME IInv, OpenedInv, [Next]_vars, NEW c \in Calls, ~Early(c)'
             PROVE  chan'[c] # "none" \/ (pc'[c] = "over" /\ c \notin handed')
  BY DEF OpenedInv
<1>1. Steady(c)
  <2>1. CASE Environment
    BY <2>1, EnsuringSteady, LaterSteady, OthersMove DEF Environment, Procs
  <2>2. ASSUME NEW p \in Procs, Progress(p) PROVE Steady(c)
    BY <2>2, EnsuringSteady, LaterSteady, OthersMove DEF Progress
  <2>3. ASSUME NEW p \in Procs, Sending(p) PROVE Steady(c)
    BY <2>3, EnsuringSteady, LaterSteady, OthersMove DEF Sending
  <2>4. CASE UNCHANGED vars
    BY <2>4, StillSteady DEF vars
  <2>5. QED BY <2>1, <2>2, <2>3, <2>4 DEF Next
<1>2. CASE Early(c)
  <2>1. c \notin handed /\ pc[c] # "write"
    BY <1>2 DEF IInv, ChannelsInv, Early
  <2>2. QED BY <1>1, <1>2, <2>1 DEF Steady
<1>3. CASE ~Early(c)
  BY <1>1, <1>3 DEF Steady, OpenedInv
<1>4. QED BY <1>2, <1>3

\* Every step of the client is a step of a stream or unseen.
LEMMA StepSimulates ==
  IInv /\ OpenedInv /\ [Next]_vars => [Streams!Next]_(Streams!vars)
<1> SUFFICES ASSUME IInv, OpenedInv, [Next]_vars
             PROVE  Streams!Next \/ UNCHANGED Streams!vars
  OBVIOUS
<1>1. CASE Environment
  <2>1. ASSUME NEW c \in Calls, \/ TakeOnce(c) \/ CtxDone(c) \/ Receive(c)
                                \/ AckArrives(c) \/ AckRefused(c)
        PROVE  Streams!Next \/ UNCHANGED Streams!vars
    BY <2>1, CallSeen, LaterUnseen, ReceiveSeen, AckUnseen, EnsuringUnseen
    DEF Procs, AckRefused
  <2>2. QED BY <1>1, <2>1, OtherUnseen DEF Environment
<1>2. ASSUME NEW p \in Procs, Progress(p)
      PROVE  Streams!Next \/ UNCHANGED Streams!vars
  <2>1. CASE p \in Calls /\ Ensuring(p)
    BY <2>1, CallSeen, RegisterSeen, EnsuringUnseen DEF Ensuring, AckFails
  <2>2. CASE p \in Gens /\ (Deliver(p) \/ ReadFails(p))
    BY <2>2, DeliverSeen, OtherUnseen
  <2>3. CASE Ending(p)
    BY <2>3, CloseChanSeen, SendFinalSeen, LaterUnseen DEF Ending
  <2>4. QED BY <1>2, <2>1, <2>2, <2>3 DEF Progress
<1>3. ASSUME NEW p \in Procs, Sending(p)
      PROVE  Streams!Next \/ UNCHANGED Streams!vars
  BY <1>3, EnsuringUnseen, LaterUnseen, OtherUnseen DEF Sending
<1>4. CASE UNCHANGED vars
  BY <1>4, QuietStep DEF vars
<1>5. QED BY <1>1, <1>2, <1>3, <1>4 DEF Next

\* No subscription has been asked for at first.
LEMMA InitSimulates == Init => OpenedInv /\ Streams!Init
<1> SUFFICES ASSUME Init PROVE OpenedInv /\ Streams!Init
  OBVIOUS
<1>1. \A c \in Calls : pc[c] = "idle" /\ chan[c] = "none"
  BY ProcNames DEF Init, Procs
<1>2. OpenedInv
  BY <1>1 DEF OpenedInv, Early
<1>3. Streams!Init
  BY <1>1 DEF Init, Streams!Init, StreamOf, Unopened
<1>4. QED BY <1>2, <1>3

\* The client keeps the promise its callers rely on: each Subscribe is refused
\* or opens one stream, which carries results until it ends, once.
THEOREM ClientIsStream == Spec => ImplementsStream
<1>1. Init => OpenedInv /\ Streams!Init
  BY InitSimulates
<1>2. IInv /\ OpenedInv /\ [Next]_vars => OpenedInv'
  BY OpenedKeeps
<1>3. IInv /\ OpenedInv /\ [Next]_vars => [Streams!Next]_(Streams!vars)
  BY StepSimulates
<1>4. QED BY <1>1, <1>2, <1>3, Invariance, PTL DEF Spec, ImplementsStream, Streams!Spec
=============================================================================
