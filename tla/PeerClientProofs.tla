-------------------------- MODULE PeerClientProofs --------------------------
(***************************************************************************)
(* The safety of PeerClient for any number of calls, any bound on dials    *)
(* and any buffer size, by one inductive invariant, IInv.                  *)
(***************************************************************************)
EXTENDS PeerClient, TLAPS

Dialing(c) == pc[c] \in {"dial", "init", "ack"}
Early(c)   == pc[c] \in {"idle", "once", "dial", "init", "ack", "check", "register"}
Opens(p, g) == on[p] = g /\ pc[p] \in {"init", "ack", "hangup"}
Holds(p, c) == c \in toFail[p] \/ c \in toClose[p]

\* Generations are used one after the other: those before connOnce are done,
\* those after it untouched, and connOnce itself is spent exactly when its
\* connection is current.  An open error is always that of the last attempt.
AttemptsInv ==
  /\ \A g \in Gens : /\ g < once => attempt[g] = "done"
                     /\ g > once => attempt[g] = "fresh"
                     /\ g = once => (attempt[g] = "done" <=> conn = once)
  /\ conn # NoGen => conn = once
  /\ connErr # NoGen => conn = NoGen /\ connErr + 1 = once
  /\ \A c \in Calls :
       /\ Dialing(c) => on[c] = once /\ once \in Gens /\ attempt[once] = "running"
       /\ pc[c] = "once" => on[c] <= once
       /\ pc[c] = "check" => on[c] \in Gens /\ attempt[on[c]] = "done"
  /\ \A c, d \in Calls : Dialing(c) /\ Dialing(d) => c = d

\* A channel is made at registration; c.subs holds open channels of the
\* current connection only.
ChannelsInv ==
  \A c \in Calls :
    /\ Early(c) => chan[c] = "none" /\ c \notin handed
    /\ c \in subs => chan[c] = "open" /\ conn # NoGen /\ on[c] = conn

\* A channel out of c.subs that has yet to be closed is held by one goroutine
\* only, and that goroutine is on its way to close it.
HoldersInv ==
  /\ \A p \in Procs, c \in Calls :
       /\ c \in toFail[p] => pc[p] \in {"hangup", "drain"} /\ p # Closer
       /\ c \in toClose[p] => pc[p] \in {"drain", "close"}
       /\ c \in toFail[p] => c \notin toClose[p]
       /\ Holds(p, c) => chan[c] = "open" /\ c \notin subs
  /\ \A p, q \in Procs, c \in Calls : Holds(p, c) /\ Holds(q, c) => p = q
  /\ panic # "close"

\* No open channel is forgotten.
OpenInv ==
  \A c \in Calls : chan[c] = "open" => c \in subs \/ \E p \in Procs : Holds(p, c)

\* A call that has registered works on a generation that is done, and so does
\* a read loop; the loop of the current connection has not given up.
ReadersInv ==
  /\ \A c \in Calls :
       /\ ~Early(c) /\ pc[c] # "over" => on[c] \in Gens /\ attempt[on[c]] = "done"
       /\ c \in handed => on[c] \in Gens /\ attempt[on[c]] = "done"
       /\ about[c] = c
  /\ \A g \in Gens :
       /\ on[g] = g
       /\ pc[g] # "none" => attempt[g] = "done"
       /\ pc[g] \in {"hangup", "drain", "over"} => conn # g
       /\ conn = g => pc[g] # "none"
       /\ pc[g] \in {"next", "error"} => about[g] \in Calls
       /\ about[g] # Nobody => about[g] \in handed /\ on[about[g]] = g
  /\ about[Closer] = Nobody

\* Whoever is about to call failAll has seen its connection fail.
FailuresInv ==
  \A p \in Calls \cup Gens : pc[p] = "failall" => wire[on[p]] # "up"

IInv ==
  /\ TypeOK /\ AttemptsInv /\ ChannelsInv /\ HoldersInv /\ OpenInv
  /\ ReadersInv /\ FailuresInv /\ NoLostSocket

-----------------------------------------------------------------------------
\* The names of calls, generations and the closer are distinct.
LEMMA ProcNames ==
  /\ \A c \in Calls : c \notin Gens /\ c # Closer
  /\ Closer \notin Gens /\ NoGen \notin Gens
  BY BoundsAssumption, NamesAssumption DEF Gens, NoGen

\* A goroutine that deals with a connection, or with its failure, deals with
\* one whose attempt is done.
LEMMA DoneGeneration ==
  ASSUME TypeOK, ReadersInv, NEW p \in Calls \cup Gens,
         pc[p] \in {"write", "complete", "pong", "failall", "read"}
  PROVE  on[p] \in Gens /\ attempt[on[p]] = "done"
<1>1. CASE p \in Calls
  BY <1>1 DEF ReadersInv, Early
<1>2. CASE p \in Gens
  BY <1>2 DEF ReadersInv
<1>3. QED BY <1>1, <1>2

\* Generations are numbered from 1, and connOnce is at most one past the last.
LEMMA GenNumbers ==
  /\ Gens \cup {NoGen} \subseteq 0..(MaxGen + 1)
  /\ 1..(MaxGen + 1) \subseteq 0..(MaxGen + 1)
  /\ \A g \in Gens : g + 1 \in 1..(MaxGen + 1)
  BY BoundsAssumption DEF Gens, NoGen

\* A channel never holds more than its capacity.
LEMMA PushBounded ==
  ASSUME TypeOK, NEW c \in Calls
  PROVE  Push(c) \in [Calls -> 0..BufCap]
<1>1. buf[c] \in 0..BufCap /\ BufCap \in Nat
  BY BoundsAssumption DEF TypeOK
<1>2. buf[c] < BufCap => buf[c] + 1 \in 0..BufCap
  BY <1>1
<1>3. buf \in [Calls -> 0..BufCap]
  BY DEF TypeOK
<1>4. QED BY <1>2, <1>3 DEF Push

\* The connection that failAll is about to reset, if it still is current, is
\* the one the current connOnce opened.
LEMMA CurrentGeneration ==
  ASSUME IInv, NEW p \in Procs, FailAll(p)
  PROVE  /\ p \in Calls \cup Gens /\ p # Closer
         /\ on[p] \in Gens /\ conn = on[p] /\ once = on[p]
         /\ attempt[once] = "done" /\ connErr = NoGen
<1>1. pc[p] = "failall" /\ conn = on[p]
  BY DEF FailAll, Goto, Current
<1>2. p \in Calls \cup Gens /\ p # Closer
  BY <1>1, ProcNames DEF IInv, TypeOK, Procs, CloserPC
<1>3. on[p] \in Gens /\ attempt[on[p]] = "done"
  BY <1>1, <1>2, DoneGeneration DEF IInv
<1>4. conn # NoGen
  BY <1>1, <1>3, ProcNames
<1>5. QED BY <1>1, <1>2, <1>3, <1>4 DEF IInv, AttemptsInv

\* Reading c.connOnce keeps the invariant: the generation read is at most
\* the current one.
LEMMA TakeOnceKeeps ==
  ASSUME IInv, NEW c \in Calls, TakeOnce(c)
  PROVE  IInv'
<1> USE ProcNames
    DEF IInv, TypeOK, Procs, TakeOnce, Goto, connVars
<1>1. TypeOK' /\ AttemptsInv'
  BY SMTT(20), GenNumbers, BoundsAssumption, NamesAssumption DEF AttemptsInv,
      ReadersInv, Gens, NoGen, CallPC, ReaderPC, CloserPC, Dialing
<1>2. ChannelsInv'
  BY SMTT(20) DEF ChannelsInv, AttemptsInv, HoldersInv, ReadersInv, Early
<1>3. HoldersInv'
  BY SMTT(20) DEF HoldersInv, ChannelsInv, ReadersInv, Holds, Early
<1>4. OpenInv'
  BY SMTT(20) DEF OpenInv, Holds, Early
<1>5. ReadersInv' /\ FailuresInv' /\ NoLostSocket'
  BY SMTT(20) DEF ReadersInv, AttemptsInv, ChannelsInv, Early, FailuresInv,
      NoLostSocket, Dialing
<1> QED BY <1>1, <1>2, <1>3, <1>4, <1>5

\* Entering sync.Once keeps it: only the current generation is fresh, and
\* no one else is dialing it.
LEMMA RunOnceKeeps ==
  ASSUME IInv, NEW c \in Calls, RunOnce(c)
  PROVE  IInv'
<1> USE ProcNames
    DEF IInv, TypeOK, Procs, RunOnce, Goto, MayRun
<1>1. TypeOK' /\ AttemptsInv'
  BY SMTT(20), GenNumbers, BoundsAssumption, NamesAssumption DEF AttemptsInv,
      ReadersInv, Gens, NoGen, CallPC, ReaderPC, CloserPC, Dialing
<1>2. ChannelsInv'
  BY SMTT(20) DEF ChannelsInv, AttemptsInv, HoldersInv, ReadersInv, Early
<1>3. HoldersInv'
  BY SMTT(20) DEF HoldersInv, ChannelsInv, ReadersInv, Holds, Early
<1>4. OpenInv'
  BY SMTT(20) DEF OpenInv, Holds, Early
<1>5. ReadersInv' /\ FailuresInv' /\ NoLostSocket'
  BY SMTT(20) DEF ReadersInv, AttemptsInv, ChannelsInv, Early, FailuresInv,
      NoLostSocket, Dialing
<1> QED BY <1>1, <1>2, <1>3, <1>4, <1>5

\* Returning from a sync.Once someone else ran keeps it.
LEMMA AwaitOnceKeeps ==
  ASSUME IInv, NEW c \in Calls, AwaitOnce(c)
  PROVE  IInv'
<1> USE ProcNames
    DEF IInv, TypeOK, Procs, AwaitOnce, Goto, connVars
<1>1. TypeOK' /\ AttemptsInv'
  BY SMTT(20), GenNumbers, BoundsAssumption, NamesAssumption DEF AttemptsInv,
      ReadersInv, Gens, NoGen, CallPC, ReaderPC, CloserPC, Dialing
<1>2. ChannelsInv'
  BY SMTT(20) DEF ChannelsInv, AttemptsInv, HoldersInv, ReadersInv, Early
<1>3. HoldersInv'
  BY SMTT(20) DEF HoldersInv, ChannelsInv, ReadersInv, Holds, Early
<1>4. OpenInv'
  BY SMTT(20) DEF OpenInv, Holds, Early
<1>5. ReadersInv' /\ FailuresInv' /\ NoLostSocket'
  BY SMTT(20) DEF ReadersInv, AttemptsInv, ChannelsInv, Early, FailuresInv,
      NoLostSocket, Dialing
<1> QED BY <1>1, <1>2, <1>3, <1>4, <1>5

\* A failed dial keeps it: the generation is done, connOnce moves on and
\* connErr names the attempt.
LEMMA DialFailsKeeps ==
  ASSUME IInv, NEW c \in Calls, DialFails(c)
  PROVE  IInv'
<1> USE ProcNames
    DEF IInv, TypeOK, Procs, DialFails, Goto, Rearm, FailOpen
<1>1. TypeOK'
  <2>1. on[c] = once /\ once \in Gens
    BY DEF IInv, AttemptsInv, Dialing, DialFails, Goto, Rearm, FailOpen
  <2>2. once' \in 1..(MaxGen + 1) /\ connErr' \in Gens \cup {NoGen}
    BY <2>1, GenNumbers DEF DialFails, Goto, Rearm, FailOpen
  <2>3. QED
    BY <2>1, <2>2, ProcNames, SMTT(15)
    DEF IInv, TypeOK, Procs, CallPC, ReaderPC, CloserPC, DialFails, Goto,
      Rearm, FailOpen
<1>2. AttemptsInv'
  BY SMTT(20), BoundsAssumption, NamesAssumption DEF AttemptsInv, ReadersInv,
      Gens, NoGen, Dialing
<1>3. ChannelsInv'
  BY SMTT(20) DEF ChannelsInv, AttemptsInv, HoldersInv, ReadersInv, Early
<1>4. HoldersInv'
  BY SMTT(20) DEF HoldersInv, ChannelsInv, ReadersInv, Holds, Early
<1>5. OpenInv'
  BY SMTT(20) DEF OpenInv, Holds, Early
<1>6. ReadersInv' /\ FailuresInv' /\ NoLostSocket'
  BY SMTT(20) DEF ReadersInv, AttemptsInv, ChannelsInv, Early, FailuresInv,
      NoLostSocket, Dialing
<1> QED BY <1>1, <1>2, <1>3, <1>4, <1>5, <1>6

\* A dial that connects keeps it: the new socket is held by the call that
\* opened it.
LEMMA DialConnectsKeeps ==
  ASSUME IInv, NEW c \in Calls, DialConnects(c)
  PROVE  IInv'
<1> USE ProcNames
    DEF IInv, TypeOK, Procs, DialConnects, Goto, connVars
<1>1. TypeOK'
  <2>1. on[c] \in Gens
    BY DEF IInv, AttemptsInv, Dialing, DialConnects, Goto
  <2>2. QED
    BY <2>1, ProcNames, SMTT(15)
    DEF IInv, TypeOK, Procs, CallPC, ReaderPC, CloserPC, DialConnects, Goto,
      connVars
<1>2. AttemptsInv'
  BY SMTT(20), BoundsAssumption, NamesAssumption DEF AttemptsInv, ReadersInv,
      Gens, NoGen, Dialing
<1>3. ChannelsInv'
  BY SMTT(20) DEF ChannelsInv, AttemptsInv, HoldersInv, ReadersInv, Early
<1>4. HoldersInv'
  BY SMTT(20) DEF HoldersInv, ChannelsInv, ReadersInv, Holds, Early
<1>5. OpenInv'
  BY SMTT(20) DEF OpenInv, Holds, Early
<1>6. ReadersInv'
  BY SMTT(20) DEF ReadersInv, AttemptsInv, ChannelsInv, Early
<1>7. FailuresInv'
  <2>1. on[c] = once /\ attempt[once] = "running" /\ pc[c] # "failall"
    BY DEF IInv, AttemptsInv, Dialing, DialConnects, Goto
  <2>2. ASSUME NEW q \in Calls \cup Gens, pc'[q] = "failall"
        PROVE  wire'[on[q]] # "up"
    <3>1. pc[q] = "failall"
      BY <2>2, SMTT(15) DEF IInv, TypeOK, Procs, DialConnects, Goto
    <3>2. on[q] # on[c]
      BY <2>1, <3>1, DoneGeneration DEF IInv
    <3>3. QED
      BY <3>1, <3>2 DEF IInv, TypeOK, Procs, FailuresInv, DialConnects
  <2>3. QED BY <2>2 DEF FailuresInv, DialConnects
<1>8. NoLostSocket'
  BY SMTT(20) DEF NoLostSocket, AttemptsInv, ReadersInv, Dialing
<1> QED BY <1>1, <1>2, <1>3, <1>4, <1>5, <1>6, <1>7, <1>8

\* Writing connection_init keeps it.
LEMMA InitSentKeeps ==
  ASSUME IInv, NEW c \in Calls, InitSent(c)
  PROVE  IInv'
<1> USE ProcNames
    DEF IInv, TypeOK, Procs, InitSent, Goto, SendOk, connVars
<1>1. TypeOK' /\ AttemptsInv'
  BY SMTT(20), GenNumbers, BoundsAssumption, NamesAssumption DEF AttemptsInv,
      ReadersInv, Gens, NoGen, CallPC, ReaderPC, CloserPC, Dialing
<1>2. ChannelsInv'
  BY SMTT(20) DEF ChannelsInv, AttemptsInv, HoldersInv, ReadersInv, Early
<1>3. HoldersInv'
  BY SMTT(20) DEF HoldersInv, ChannelsInv, ReadersInv, Holds, Early
<1>4. OpenInv'
  BY SMTT(20) DEF OpenInv, Holds, Early
<1>5. ReadersInv' /\ FailuresInv' /\ NoLostSocket'
  BY SMTT(20) DEF ReadersInv, AttemptsInv, ChannelsInv, Early, FailuresInv,
      NoLostSocket, Dialing
<1> QED BY <1>1, <1>2, <1>3, <1>4, <1>5

\* failOpen after connection_init keeps it, and closes the socket it
\* leaves.
LEMMA InitFailsKeeps ==
  ASSUME IInv, NEW c \in Calls, InitFails(c)
  PROVE  IInv'
<1> USE ProcNames
    DEF IInv, TypeOK, Procs, InitFails, Goto, ShutSocket, Rearm, SendFails,
      FailOpen
<1>1. TypeOK'
  <2>1. on[c] = once /\ once \in Gens
    BY DEF IInv, AttemptsInv, Dialing, InitFails, Goto, ShutSocket, Rearm,
      SendFails, FailOpen
  <2>2. once' \in 1..(MaxGen + 1) /\ connErr' \in Gens \cup {NoGen}
    BY <2>1, GenNumbers DEF InitFails, Goto, ShutSocket, Rearm, SendFails,
      FailOpen
  <2>3. QED
    BY <2>1, <2>2, ProcNames, SMTT(15)
    DEF IInv, TypeOK, Procs, CallPC, ReaderPC, CloserPC, InitFails, Goto,
      ShutSocket, Rearm, SendFails, FailOpen
<1>2. AttemptsInv'
  BY SMTT(20), BoundsAssumption, NamesAssumption DEF AttemptsInv, ReadersInv,
      Gens, NoGen, Dialing
<1>3. ChannelsInv'
  BY SMTT(20) DEF ChannelsInv, AttemptsInv, HoldersInv, ReadersInv, Early
<1>4. HoldersInv'
  BY SMTT(20) DEF HoldersInv, ChannelsInv, ReadersInv, Holds, Early
<1>5. OpenInv'
  BY SMTT(20) DEF OpenInv, Holds, Early
<1>6. ReadersInv' /\ FailuresInv' /\ NoLostSocket'
  BY SMTT(20) DEF ReadersInv, AttemptsInv, ChannelsInv, Early, FailuresInv,
      NoLostSocket, Dialing
<1> QED BY <1>1, <1>2, <1>3, <1>4, <1>5, <1>6

\* failOpen instead of an ack keeps it, and closes the socket it leaves.
LEMMA NoAckKeeps ==
  ASSUME IInv, NEW c \in Calls, NoAck(c)
  PROVE  IInv'
<1> USE ProcNames
    DEF IInv, TypeOK, Procs, NoAck, Goto, ShutSocket, Rearm, FailOpen
<1>1. TypeOK'
  <2>1. on[c] = once /\ once \in Gens
    BY DEF IInv, AttemptsInv, Dialing, NoAck, Goto, ShutSocket, Rearm,
      FailOpen
  <2>2. once' \in 1..(MaxGen + 1) /\ connErr' \in Gens \cup {NoGen}
    BY <2>1, GenNumbers DEF NoAck, Goto, ShutSocket, Rearm, FailOpen
  <2>3. QED
    BY <2>1, <2>2, ProcNames, SMTT(15)
    DEF IInv, TypeOK, Procs, CallPC, ReaderPC, CloserPC, NoAck, Goto,
      ShutSocket, Rearm, FailOpen
<1>2. AttemptsInv'
  BY SMTT(20), BoundsAssumption, NamesAssumption DEF AttemptsInv, ReadersInv,
      Gens, NoGen, Dialing
<1>3. ChannelsInv'
  BY SMTT(20) DEF ChannelsInv, AttemptsInv, HoldersInv, ReadersInv, Early
<1>4. HoldersInv'
  BY SMTT(20) DEF HoldersInv, ChannelsInv, ReadersInv, Holds, Early
<1>5. OpenInv'
  BY SMTT(20) DEF OpenInv, Holds, Early
<1>6. ReadersInv' /\ FailuresInv' /\ NoLostSocket'
  BY SMTT(20) DEF ReadersInv, AttemptsInv, ChannelsInv, Early, FailuresInv,
      NoLostSocket, Dialing
<1> QED BY <1>1, <1>2, <1>3, <1>4, <1>5, <1>6

\* Publishing the connection keeps it: it becomes current, and its read
\* loop is running.
LEMMA AckArrivesKeeps ==
  ASSUME IInv, NEW c \in Calls, AckArrives(c)
  PROVE  IInv'
<1> USE ProcNames
    DEF IInv, TypeOK, Procs, AckArrives
<1>1. TypeOK'
  <2>1. /\ once \in Gens /\ on[c] = once /\ c # once /\ attempt[once] = "running"
        /\ conn = NoGen /\ pc[once] = "none"
    BY ProcNames, SMTT(15)
    DEF IInv, TypeOK, AttemptsInv, ReadersInv, Dialing, AckArrives
  <2>2. \A q \in Procs : pc'[q] = IF q = c THEN "check"
                                ELSE IF q = once THEN "read" ELSE pc[q]
    BY <2>1, ProcNames, SMTT(15) DEF IInv, TypeOK, Procs, AckArrives
  <2>3. pc[c] = "ack"
    BY DEF AckArrives
  <2>4. pc' \in [Procs -> CallPC \cup ReaderPC]
    BY <2>1 DEF IInv, TypeOK, AckArrives, Procs, CallPC, ReaderPC
  <2>5. /\ \A d \in Calls : pc'[d] \in CallPC
        /\ \A h \in Gens : pc'[h] \in ReaderPC
        /\ pc'[Closer] \in CloserPC
    BY <2>1, <2>2, ProcNames DEF IInv, TypeOK, Procs, CallPC, ReaderPC
  <2>6. QED BY <2>1, <2>4, <2>5, ProcNames DEF IInv, TypeOK, AckArrives
<1>2. AttemptsInv'
  <2>1. /\ once \in Gens /\ on[c] = once /\ c # once /\ attempt[once] = "running"
        /\ conn = NoGen /\ pc[once] = "none"
    BY ProcNames, SMTT(15)
    DEF IInv, TypeOK, AttemptsInv, ReadersInv, Dialing, AckArrives
  <2>2. \A q \in Procs : pc'[q] = IF q = c THEN "check"
                                ELSE IF q = once THEN "read" ELSE pc[q]
    BY <2>1, ProcNames, SMTT(15) DEF IInv, TypeOK, Procs, AckArrives
  <2>3. pc[c] = "ack"
    BY DEF AckArrives
  <2>4. /\ \A d \in Calls : d # c => ~Dialing(d)
        /\ \A d \in Calls : ~Dialing(d)'
    BY <2>1, <2>2, <2>3 DEF AttemptsInv, Dialing
  <2>5. \A g \in Gens : attempt'[g] = IF g = once THEN "done" ELSE attempt[g]
    BY <2>1
  <2>6. \A d \in Calls : /\ pc'[d] = "once" => pc[d] = "once"
                         /\ pc'[d] = "check" => d = c \/ pc[d] = "check"
    BY <2>1, <2>2
  <2>7. QED
    BY <2>1, <2>4, <2>5, <2>6, SMTT(20) DEF AttemptsInv
<1>3. ChannelsInv'
  <2>1. /\ once \in Gens /\ on[c] = once /\ c # once /\ attempt[once] = "running"
        /\ conn = NoGen /\ pc[once] = "none"
    BY ProcNames, SMTT(15)
    DEF IInv, TypeOK, AttemptsInv, ReadersInv, Dialing, AckArrives
  <2>2. \A q \in Procs : pc'[q] = IF q = c THEN "check"
                                ELSE IF q = once THEN "read" ELSE pc[q]
    BY <2>1, ProcNames, SMTT(15) DEF IInv, TypeOK, Procs, AckArrives
  <2>3. pc[c] = "ack"
    BY DEF AckArrives
  <2>4. \A d \in Calls : Early(d)' <=> Early(d)
    BY <2>1, <2>2, <2>3, ProcNames DEF Early, Procs
  <2>5. QED BY <2>1, <2>4 DEF IInv, ChannelsInv, AckArrives
<1>4. HoldersInv'
  <2>1. /\ once \in Gens /\ on[c] = once /\ c # once /\ attempt[once] = "running"
        /\ conn = NoGen /\ pc[once] = "none"
    BY ProcNames, SMTT(15)
    DEF IInv, TypeOK, AttemptsInv, ReadersInv, Dialing, AckArrives
  <2>2. \A q \in Procs : pc'[q] = IF q = c THEN "check"
                                ELSE IF q = once THEN "read" ELSE pc[q]
    BY <2>1, ProcNames, SMTT(15) DEF IInv, TypeOK, Procs, AckArrives
  <2>3. pc[c] = "ack"
    BY DEF AckArrives
  <2>4. ASSUME NEW q \in Procs, NEW d \in Calls, Holds(q, d)
        PROVE  pc'[q] = pc[q]
    <3>1. pc[q] \in {"hangup", "drain", "close"}
      BY <2>4 DEF IInv, HoldersInv, Holds
    <3>2. QED BY <2>1, <2>2, <2>3, <3>1
  <2>5. QED BY <2>4 DEF IInv, HoldersInv, Holds, AckArrives
<1>5. OpenInv'
  BY SMTT(20) DEF OpenInv, Holds, Early
<1>6. ReadersInv'
  <2>1. /\ once \in Gens /\ on[c] = once /\ c # once /\ attempt[once] = "running"
        /\ conn = NoGen /\ pc[once] = "none"
    BY ProcNames, SMTT(15)
    DEF IInv, TypeOK, AttemptsInv, ReadersInv, Dialing, AckArrives
  <2>2. \A q \in Procs : pc'[q] = IF q = c THEN "check"
                                ELSE IF q = once THEN "read" ELSE pc[q]
    BY <2>1, ProcNames, SMTT(15) DEF IInv, TypeOK, Procs, AckArrives
  <2>3. pc[c] = "ack"
    BY DEF AckArrives
  <2>4. \A d \in Calls : /\ Early(d)' <=> Early(d)
                         /\ (pc'[d] = "over") <=> (pc[d] = "over")
    BY <2>1, <2>2, <2>3, ProcNames DEF Early, Procs
  <2>5. /\ \A g \in Gens : attempt[g] = "done" => attempt'[g] = "done"
        /\ attempt'[once] = "done"
    BY <2>1 DEF IInv, TypeOK, AckArrives
  <2>6. \A g \in Gens : /\ g # once => pc'[g] = pc[g]
                        /\ g = once => pc'[g] = "read"
    BY <2>1, <2>2, ProcNames DEF Procs
  <2>7. conn' = once /\ on' = on /\ about' = about /\ handed' = handed
    BY <2>1 DEF AckArrives
  <2>8. ASSUME NEW d \in Calls
        PROVE  /\ ~Early(d)' /\ pc'[d] # "over" => on'[d] \in Gens /\ attempt'[on'[d]] = "done"
               /\ d \in handed' => on'[d] \in Gens /\ attempt'[on'[d]] = "done"
               /\ about'[d] = d
    BY <2>4, <2>5, <2>7 DEF IInv, ReadersInv, Early
  <2>9. ASSUME NEW g \in Gens
        PROVE  /\ on'[g] = g
               /\ pc'[g] # "none" => attempt'[g] = "done"
               /\ pc'[g] \in {"hangup", "drain", "over"} => conn' # g
               /\ conn' = g => pc'[g] # "none"
               /\ pc'[g] \in {"next", "error"} => about'[g] \in Calls
               /\ about'[g] # Nobody => about'[g] \in handed' /\ on'[about'[g]] = g
    BY <2>5, <2>6, <2>7 DEF IInv, ReadersInv
  <2>10. about'[Closer] = Nobody
    BY <2>7 DEF IInv, ReadersInv
  <2>11. QED BY <2>8, <2>9, <2>10 DEF ReadersInv
<1>7. FailuresInv'
  BY SMTT(20) DEF FailuresInv, AttemptsInv, ReadersInv, Early
<1>8. NoLostSocket'
  BY SMTT(20) DEF NoLostSocket, AttemptsInv, ReadersInv, Dialing
<1> QED BY <1>1, <1>2, <1>3, <1>4, <1>5, <1>6, <1>7, <1>8

\* Returning connErr keeps it.
LEMMA OpenFailedKeeps ==
  ASSUME IInv, NEW c \in Calls, OpenFailed(c)
  PROVE  IInv'
<1> USE ProcNames
    DEF IInv, TypeOK, Procs, OpenFailed, Goto, connVars
<1>1. TypeOK' /\ AttemptsInv'
  BY SMTT(20), GenNumbers, BoundsAssumption, NamesAssumption DEF AttemptsInv,
      ReadersInv, Gens, NoGen, CallPC, ReaderPC, CloserPC, Dialing
<1>2. ChannelsInv'
  BY SMTT(20) DEF ChannelsInv, AttemptsInv, HoldersInv, ReadersInv, Early
<1>3. HoldersInv'
  BY SMTT(20) DEF HoldersInv, ChannelsInv, ReadersInv, Holds, Early
<1>4. OpenInv'
  BY SMTT(20) DEF OpenInv, Holds, Early
<1>5. ReadersInv' /\ FailuresInv' /\ NoLostSocket'
  BY SMTT(20) DEF ReadersInv, AttemptsInv, ChannelsInv, Early, FailuresInv,
      NoLostSocket, Dialing
<1> QED BY <1>1, <1>2, <1>3, <1>4, <1>5

\* Going on to register keeps it.
LEMMA OpenReadyKeeps ==
  ASSUME IInv, NEW c \in Calls, OpenReady(c)
  PROVE  IInv'
<1> USE ProcNames
    DEF IInv, TypeOK, Procs, OpenReady, Goto, connVars
<1>1. TypeOK' /\ AttemptsInv'
  BY SMTT(20), GenNumbers, BoundsAssumption, NamesAssumption DEF AttemptsInv,
      ReadersInv, Gens, NoGen, CallPC, ReaderPC, CloserPC, Dialing
<1>2. ChannelsInv'
  BY SMTT(20) DEF ChannelsInv, AttemptsInv, HoldersInv, ReadersInv, Early
<1>3. HoldersInv'
  BY SMTT(20) DEF HoldersInv, ChannelsInv, ReadersInv, Holds, Early
<1>4. OpenInv'
  BY SMTT(20) DEF OpenInv, Holds, Early
<1>5. ReadersInv' /\ FailuresInv' /\ NoLostSocket'
  BY SMTT(20) DEF ReadersInv, AttemptsInv, ChannelsInv, Early, FailuresInv,
      NoLostSocket, Dialing
<1> QED BY <1>1, <1>2, <1>3, <1>4, <1>5

\* Refusing to register keeps it.
LEMMA RegisterRefusedKeeps ==
  ASSUME IInv, NEW c \in Calls, RegisterRefused(c)
  PROVE  IInv'
<1> USE ProcNames
    DEF IInv, TypeOK, Procs, RegisterRefused, Goto, CannotRegister, connVars
<1>1. TypeOK' /\ AttemptsInv'
  BY SMTT(20), GenNumbers, BoundsAssumption, NamesAssumption DEF AttemptsInv,
      ReadersInv, Gens, NoGen, CallPC, ReaderPC, CloserPC, Dialing
<1>2. ChannelsInv'
  BY SMTT(20) DEF ChannelsInv, AttemptsInv, HoldersInv, ReadersInv, Early
<1>3. HoldersInv'
  BY SMTT(20) DEF HoldersInv, ChannelsInv, ReadersInv, Holds, Early
<1>4. OpenInv'
  BY SMTT(20) DEF OpenInv, Holds, Early
<1>5. ReadersInv' /\ FailuresInv' /\ NoLostSocket'
  BY SMTT(20) DEF ReadersInv, AttemptsInv, ChannelsInv, Early, FailuresInv,
      NoLostSocket, Dialing
<1> QED BY <1>1, <1>2, <1>3, <1>4, <1>5

\* Registering keeps it: the new channel is open, in c.subs, on the current
\* connection.
LEMMA RegisterKeeps ==
  ASSUME IInv, NEW c \in Calls, Register(c)
  PROVE  IInv'
<1> USE ProcNames
    DEF IInv, TypeOK, Procs, Register, Goto, CannotRegister, connVars
<1>1. TypeOK' /\ AttemptsInv'
  BY SMTT(20), GenNumbers, BoundsAssumption, NamesAssumption DEF AttemptsInv,
      ReadersInv, Gens, NoGen, CallPC, ReaderPC, CloserPC, Dialing
<1>2. ChannelsInv'
  BY SMTT(20) DEF ChannelsInv, AttemptsInv, HoldersInv, ReadersInv, Early
<1>3. HoldersInv'
  BY SMTT(20) DEF HoldersInv, ChannelsInv, ReadersInv, Holds, Early
<1>4. OpenInv'
  BY SMTT(20) DEF OpenInv, Holds, Early
<1>5. ReadersInv' /\ FailuresInv' /\ NoLostSocket'
  BY SMTT(20) DEF ReadersInv, AttemptsInv, ChannelsInv, Early, FailuresInv,
      NoLostSocket, Dialing
<1> QED BY <1>1, <1>2, <1>3, <1>4, <1>5

\* Handing the channel to the caller keeps it.
LEMMA SubscribeSentKeeps ==
  ASSUME IInv, NEW c \in Calls, SubscribeSent(c)
  PROVE  IInv'
<1> USE ProcNames
    DEF IInv, TypeOK, Procs, SubscribeSent, Goto, SendOk, connVars
<1>1. TypeOK' /\ AttemptsInv'
  BY SMTT(20), GenNumbers, BoundsAssumption, NamesAssumption DEF AttemptsInv,
      ReadersInv, Gens, NoGen, CallPC, ReaderPC, CloserPC, Dialing
<1>2. ChannelsInv'
  BY SMTT(20) DEF ChannelsInv, AttemptsInv, HoldersInv, ReadersInv, Early
<1>3. HoldersInv'
  BY SMTT(20) DEF HoldersInv, ChannelsInv, ReadersInv, Holds, Early
<1>4. OpenInv'
  BY SMTT(20) DEF OpenInv, Holds, Early
<1>5. ReadersInv' /\ FailuresInv' /\ NoLostSocket'
  BY SMTT(20) DEF ReadersInv, AttemptsInv, ChannelsInv, Early, FailuresInv,
      NoLostSocket, Dialing
<1> QED BY <1>1, <1>2, <1>3, <1>4, <1>5

\* A cancelled context keeps it.
LEMMA CtxDoneKeeps ==
  ASSUME IInv, NEW c \in Calls, CtxDone(c)
  PROVE  IInv'
<1> USE ProcNames
    DEF IInv, TypeOK, Procs, CtxDone, Goto, connVars
<1>1. TypeOK' /\ AttemptsInv'
  BY SMTT(20), GenNumbers, BoundsAssumption, NamesAssumption DEF AttemptsInv,
      ReadersInv, Gens, NoGen, CallPC, ReaderPC, CloserPC, Dialing
<1>2. ChannelsInv'
  BY SMTT(20) DEF ChannelsInv, AttemptsInv, HoldersInv, ReadersInv, Early
<1>3. HoldersInv'
  BY SMTT(20) DEF HoldersInv, ChannelsInv, ReadersInv, Holds, Early
<1>4. OpenInv'
  BY SMTT(20) DEF OpenInv, Holds, Early
<1>5. ReadersInv' /\ FailuresInv' /\ NoLostSocket'
  BY SMTT(20) DEF ReadersInv, AttemptsInv, ChannelsInv, Early, FailuresInv,
      NoLostSocket, Dialing
<1> QED BY <1>1, <1>2, <1>3, <1>4, <1>5

\* Writing the complete frame keeps it.
LEMMA CompleteSentKeeps ==
  ASSUME IInv, NEW c \in Calls, CompleteSent(c)
  PROVE  IInv'
<1> USE ProcNames
    DEF IInv, TypeOK, Procs, CompleteSent, Goto, SendOk, connVars
<1>1. TypeOK' /\ AttemptsInv'
  BY SMTT(20), GenNumbers, BoundsAssumption, NamesAssumption DEF AttemptsInv,
      ReadersInv, Gens, NoGen, CallPC, ReaderPC, CloserPC, Dialing
<1>2. ChannelsInv'
  BY SMTT(20) DEF ChannelsInv, AttemptsInv, HoldersInv, ReadersInv, Early
<1>3. HoldersInv'
  BY SMTT(20) DEF HoldersInv, ChannelsInv, ReadersInv, Holds, Early
<1>4. OpenInv'
  BY SMTT(20) DEF OpenInv, Holds, Early
<1>5. ReadersInv' /\ FailuresInv' /\ NoLostSocket'
  BY SMTT(20) DEF ReadersInv, AttemptsInv, ChannelsInv, Early, FailuresInv,
      NoLostSocket, Dialing
<1> QED BY <1>1, <1>2, <1>3, <1>4, <1>5

\* The consumer taking a result keeps it.
LEMMA ReceiveKeeps ==
  ASSUME IInv, NEW c \in Calls, Receive(c)
  PROVE  IInv'
<1> USE ProcNames
    DEF IInv, TypeOK, Procs, Receive, connVars
<1>1. TypeOK'
  <2>1. buf[c] > 0 => buf[c] - 1 \in 0..BufCap
    BY BoundsAssumption DEF IInv, TypeOK
  <2>2. QED BY <2>1 DEF IInv, TypeOK, Receive, connVars
<1>2. AttemptsInv'
  BY SMTT(20), BoundsAssumption, NamesAssumption DEF AttemptsInv, ReadersInv,
      Gens, NoGen, Dialing
<1>3. ChannelsInv'
  BY SMTT(20) DEF ChannelsInv, AttemptsInv, HoldersInv, ReadersInv, Early
<1>4. HoldersInv'
  BY SMTT(20) DEF HoldersInv, ChannelsInv, ReadersInv, Holds, Early
<1>5. OpenInv'
  BY SMTT(20) DEF OpenInv, Holds, Early
<1>6. ReadersInv' /\ FailuresInv' /\ NoLostSocket'
  BY SMTT(20) DEF ReadersInv, AttemptsInv, ChannelsInv, Early, FailuresInv,
      NoLostSocket, Dialing
<1> QED BY <1>1, <1>2, <1>3, <1>4, <1>5, <1>6

\* A send on a looked-up channel keeps it; on a closed one it panics, which
\* no part forbids.
LEMMA DeliverKeeps ==
  ASSUME IInv, NEW g \in Gens, Deliver(g)
  PROVE  IInv'
<1> USE ProcNames
    DEF IInv, TypeOK, Procs, Deliver, Goto, Push, connVars
<1>1. TypeOK'
  <2>1. /\ pc' \in [Procs -> CallPC \cup ReaderPC]
        /\ \A d \in Calls : pc'[d] \in CallPC
        /\ \A h \in Gens : pc'[h] \in ReaderPC
        /\ pc'[Closer] \in CloserPC
    BY ProcNames, SMTT(15)
    DEF IInv, TypeOK, Procs, CallPC, ReaderPC, CloserPC, Deliver, Goto
  <2>2. about' \in [Procs -> Calls \cup {Nobody}]
    BY DEF IInv, TypeOK, Procs, Deliver
  <2>3. about[g] \in Calls
    BY DEF IInv, ReadersInv, Deliver, Goto
  <2>4. buf' \in [Calls -> 0..BufCap]
    BY <2>3, PushBounded DEF IInv, TypeOK, Deliver
  <2>5. panic' \in {"none", "send", "close"}
    BY DEF IInv, TypeOK, Deliver
  <2>6. QED BY <2>1, <2>2, <2>4, <2>5 DEF IInv, TypeOK, Deliver, connVars
<1>2. AttemptsInv'
  BY SMTT(20), BoundsAssumption, NamesAssumption DEF AttemptsInv, ReadersInv,
      Gens, NoGen, Dialing
<1>3. ChannelsInv'
  BY SMTT(20) DEF ChannelsInv, AttemptsInv, HoldersInv, ReadersInv, Early
<1>4. HoldersInv'
  <2>1. ASSUME NEW q \in Procs, NEW d \in Calls, Holds(q, d)
        PROVE  pc'[q] = pc[q]
    <3>1. pc[q] \in {"hangup", "drain", "close"}
      BY <2>1 DEF IInv, HoldersInv, Holds
    <3>2. q # g
      BY <3>1 DEF Deliver, Goto
    <3>3. QED BY <3>2 DEF IInv, TypeOK, Deliver, Goto
  <2>2. panic' # "close"
    BY DEF IInv, HoldersInv, Deliver
  <2>3. QED BY <2>1, <2>2 DEF IInv, HoldersInv, Holds, Deliver
<1>5. OpenInv'
  BY SMTT(20) DEF OpenInv, Holds, Early
<1>6. ReadersInv' /\ FailuresInv' /\ NoLostSocket'
  BY SMTT(20) DEF ReadersInv, AttemptsInv, ChannelsInv, Early, FailuresInv,
      NoLostSocket, Dialing
<1> QED BY <1>1, <1>2, <1>3, <1>4, <1>5, <1>6

\* Reading a ping keeps it.
LEMMA ReadPingKeeps ==
  ASSUME IInv, NEW g \in Gens, ReadPing(g)
  PROVE  IInv'
<1> USE ProcNames
    DEF IInv, TypeOK, Procs, ReadPing, Goto, connVars
<1>1. TypeOK' /\ AttemptsInv'
  BY SMTT(20), GenNumbers, BoundsAssumption, NamesAssumption DEF AttemptsInv,
      ReadersInv, Gens, NoGen, CallPC, ReaderPC, CloserPC, Dialing
<1>2. ChannelsInv'
  BY SMTT(20) DEF ChannelsInv, AttemptsInv, HoldersInv, ReadersInv, Early
<1>3. HoldersInv'
  BY SMTT(20) DEF HoldersInv, ChannelsInv, ReadersInv, Holds, Early
<1>4. OpenInv'
  BY SMTT(20) DEF OpenInv, Holds, Early
<1>5. ReadersInv' /\ FailuresInv' /\ NoLostSocket'
  BY SMTT(20) DEF ReadersInv, AttemptsInv, ChannelsInv, Early, FailuresInv,
      NoLostSocket, Dialing
<1> QED BY <1>1, <1>2, <1>3, <1>4, <1>5

\* Answering it keeps it.
LEMMA PongSentKeeps ==
  ASSUME IInv, NEW g \in Gens, PongSent(g)
  PROVE  IInv'
<1> USE ProcNames
    DEF IInv, TypeOK, Procs, PongSent, Goto, SendOk, connVars
<1>1. TypeOK' /\ AttemptsInv'
  BY SMTT(20), GenNumbers, BoundsAssumption, NamesAssumption DEF AttemptsInv,
      ReadersInv, Gens, NoGen, CallPC, ReaderPC, CloserPC, Dialing
<1>2. ChannelsInv'
  BY SMTT(20) DEF ChannelsInv, AttemptsInv, HoldersInv, ReadersInv, Early
<1>3. HoldersInv'
  BY SMTT(20) DEF HoldersInv, ChannelsInv, ReadersInv, Holds, Early
<1>4. OpenInv'
  BY SMTT(20) DEF OpenInv, Holds, Early
<1>5. ReadersInv' /\ FailuresInv' /\ NoLostSocket'
  BY SMTT(20) DEF ReadersInv, AttemptsInv, ChannelsInv, Early, FailuresInv,
      NoLostSocket, Dialing
<1> QED BY <1>1, <1>2, <1>3, <1>4, <1>5

\* A failed read keeps it: the loop has seen its connection fail.
LEMMA ReadFailsKeeps ==
  ASSUME IInv, NEW g \in Gens, ReadFails(g)
  PROVE  IInv'
<1> USE ProcNames
    DEF IInv, TypeOK, Procs, ReadFails, Goto, connVars
<1>1. TypeOK' /\ AttemptsInv'
  BY SMTT(20), GenNumbers, BoundsAssumption, NamesAssumption DEF AttemptsInv,
      ReadersInv, Gens, NoGen, CallPC, ReaderPC, CloserPC, Dialing
<1>2. ChannelsInv'
  BY SMTT(20) DEF ChannelsInv, AttemptsInv, HoldersInv, ReadersInv, Early
<1>3. HoldersInv'
  BY SMTT(20) DEF HoldersInv, ChannelsInv, ReadersInv, Holds, Early
<1>4. OpenInv'
  BY SMTT(20) DEF OpenInv, Holds, Early
<1>5. ReadersInv'
  BY SMTT(20) DEF ReadersInv, AttemptsInv, ChannelsInv, Early
<1>6. FailuresInv'
  <2>1. ASSUME NEW q \in Calls \cup Gens, pc'[q] = "failall"
        PROVE  wire'[on'[q]] # "up"
    <3>1. /\ pc[g] \in {"read"} /\ UNCHANGED on
          /\ q # g => pc[q] = "failall"
      BY <2>1, SMTT(15) DEF IInv, TypeOK, Procs, ReadFails, Goto
    <3>2. on[g] \in Gens
      BY <3>1, DoneGeneration DEF IInv
    <3>3. CASE q = g
      BY <3>1, <3>2, <3>3 DEF IInv, TypeOK, ReadersInv, ReadFails, Goto,
      connVars
    <3>4. CASE q # g
      <4>1. wire[on[q]] # "up" /\ on[q] \in Gens
        BY <3>1, <3>4, DoneGeneration DEF IInv, FailuresInv
      <4>2. QED BY <3>1, <4>1 DEF IInv, TypeOK, ReadFails, Goto, connVars
    <3>5. QED BY <3>3, <3>4
  <2>2. QED BY <2>1 DEF FailuresInv
<1>7. NoLostSocket'
  BY SMTT(20) DEF NoLostSocket, AttemptsInv, ReadersInv, Dialing
<1> QED BY <1>1, <1>2, <1>3, <1>4, <1>5, <1>6, <1>7

\* Reading a result or an error frame keeps it: the frame names a call of
\* this connection.
LEMMA ReadResultKeeps ==
  ASSUME IInv, NEW g \in Gens, NEW c \in Calls, ReadResult(g, c)
  PROVE  IInv'
<1> USE ProcNames
    DEF IInv, TypeOK, Procs, ReadResult, Goto, connVars
<1>1. TypeOK' /\ AttemptsInv'
  BY SMTT(20), GenNumbers, BoundsAssumption, NamesAssumption DEF AttemptsInv,
      ReadersInv, Gens, NoGen, CallPC, ReaderPC, CloserPC, Dialing
<1>2. ChannelsInv'
  BY SMTT(20) DEF ChannelsInv, AttemptsInv, HoldersInv, ReadersInv, Early
<1>3. HoldersInv'
  BY SMTT(20) DEF HoldersInv, ChannelsInv, ReadersInv, Holds, Early
<1>4. OpenInv'
  BY SMTT(20) DEF OpenInv, Holds, Early
<1>5. ReadersInv' /\ FailuresInv' /\ NoLostSocket'
  BY SMTT(20) DEF ReadersInv, AttemptsInv, ChannelsInv, Early, FailuresInv,
      NoLostSocket, Dialing
<1> QED BY <1>1, <1>2, <1>3, <1>4, <1>5

\* Reading a complete frame keeps it.
LEMMA ReadCompleteKeeps ==
  ASSUME IInv, NEW g \in Gens, NEW c \in Calls, ReadComplete(g, c)
  PROVE  IInv'
<1> USE ProcNames
    DEF IInv, TypeOK, Procs, ReadComplete, Goto, connVars
<1>1. TypeOK' /\ AttemptsInv'
  BY SMTT(20), GenNumbers, BoundsAssumption, NamesAssumption DEF AttemptsInv,
      ReadersInv, Gens, NoGen, CallPC, ReaderPC, CloserPC, Dialing
<1>2. ChannelsInv'
  BY SMTT(20) DEF ChannelsInv, AttemptsInv, HoldersInv, ReadersInv, Early
<1>3. HoldersInv'
  BY SMTT(20) DEF HoldersInv, ChannelsInv, ReadersInv, Holds, Early
<1>4. OpenInv'
  BY SMTT(20) DEF OpenInv, Holds, Early
<1>5. ReadersInv' /\ FailuresInv' /\ NoLostSocket'
  BY SMTT(20) DEF ReadersInv, AttemptsInv, ChannelsInv, Early, FailuresInv,
      NoLostSocket, Dialing
<1> QED BY <1>1, <1>2, <1>3, <1>4, <1>5

\* failAll on a connection no longer current changes nothing but who goes
\* on.
LEMMA FailAllSupersededKeeps ==
  ASSUME IInv, NEW p \in Procs, FailAllSuperseded(p)
  PROVE  IInv'
<1> USE ProcNames
    DEF IInv, TypeOK, Procs, FailAllSuperseded, Goto, Current, AfterDrain,
      connVars
<1>1. TypeOK' /\ AttemptsInv'
  BY SMTT(20), GenNumbers, BoundsAssumption, NamesAssumption DEF AttemptsInv,
      ReadersInv, Gens, NoGen, CallPC, ReaderPC, CloserPC, Dialing
<1>2. ChannelsInv'
  BY SMTT(20) DEF ChannelsInv, AttemptsInv, HoldersInv, ReadersInv, Early
<1>3. HoldersInv'
  BY SMTT(20) DEF HoldersInv, ChannelsInv, ReadersInv, Holds, Early
<1>4. OpenInv'
  BY SMTT(20) DEF OpenInv, Holds, Early
<1>5. ReadersInv' /\ FailuresInv' /\ NoLostSocket'
  BY SMTT(20) DEF ReadersInv, AttemptsInv, ChannelsInv, Early, FailuresInv,
      NoLostSocket, Dialing
<1> QED BY <1>1, <1>2, <1>3, <1>4, <1>5

\* failAll's reset keeps it: every channel of c.subs passes to this
\* goroutine, and to it alone.
LEMMA FailAllKeeps ==
  ASSUME IInv, NEW p \in Procs, FailAll(p)
  PROVE  IInv'
<1>1. TypeOK'
  <2>1. once' \in 1..(MaxGen + 1)
    BY CurrentGeneration, GenNumbers DEF FailAll, Rearm
  <2>2. QED
    BY <2>1, ProcNames, CurrentGeneration, SMTT(15)
    DEF IInv, TypeOK, Procs, CallPC, ReaderPC, CloserPC, FailAll, Goto, Rearm,
      Current, EmptyMap
<1>2. AttemptsInv'
  <2>1. \A c \in Calls : ~Dialing(c) /\ ~Dialing(c)'
    <3>1. \A c \in Calls : ~Dialing(c)
      BY CurrentGeneration DEF IInv, AttemptsInv
    <3>2. QED BY <3>1, SMTT(15) DEF IInv, TypeOK, Procs, Dialing, FailAll, Goto
  <2>2. \A c \in Calls : pc'[c] \in {"once", "check"} => pc'[c] = pc[c]
    BY SMTT(15) DEF IInv, TypeOK, Procs, FailAll, Goto
  <2>3. /\ once' = once + 1 /\ conn' = NoGen /\ connErr' = NoGen
        /\ attempt' = attempt /\ on' = on
    BY DEF FailAll, Rearm
  <2>4. once \in Nat /\ \A g \in Gens : g \in Nat
    BY BoundsAssumption DEF IInv, TypeOK, Gens
  <2>5. \A g \in Gens : /\ g < once + 1 => attempt[g] = "done"
                        /\ g > once => attempt[g] # "done"
    BY <2>4, CurrentGeneration, SMTT(20) DEF IInv, AttemptsInv
  <2>6. \A g \in Gens : g = once' => attempt[g] # "done"
    BY <2>3, <2>4, <2>5
  <2>7. \A c \in Calls : /\ pc'[c] = "once" => on[c] <= once + 1
                         /\ pc'[c] = "check" => on[c] \in Gens /\ attempt[on[c]] = "done"
    BY <2>2, <2>4, ProcNames DEF IInv, TypeOK, AttemptsInv, Procs
  <2>8. \A g \in Gens : g > once => attempt[g] = "fresh"
    BY DEF IInv, AttemptsInv
  <2>9. QED
    BY <2>1, <2>3, <2>4, <2>5, <2>6, <2>7, <2>8, ProcNames, SMTT(15)
    DEF AttemptsInv, Dialing
<1>3. ChannelsInv'
  BY SMTT(20), ProcNames DEF IInv, TypeOK, Procs, FailAll, Goto, Rearm,
      Current, EmptyMap, ChannelsInv, AttemptsInv, HoldersInv, ReadersInv,
      Early
<1>4. HoldersInv'
  <2>1. /\ toFail' = [toFail EXCEPT ![p] = subs] /\ subs' = {} /\ pc[p] = "failall"
        /\ pc' = [pc EXCEPT ![p] = "hangup"] /\ UNCHANGED <<toClose, chan, panic>>
    BY DEF FailAll, EmptyMap, Goto
  <2>2. \A c \in Calls : ~Holds(p, c)
    BY <2>1 DEF IInv, HoldersInv, Holds
  <2>3. \A c \in subs : chan[c] = "open" /\ \A q \in Procs : ~Holds(q, c)
    BY DEF IInv, TypeOK, ChannelsInv, HoldersInv
  <2>4. \A q \in Procs : /\ toClose'[q] = toClose[q]
                         /\ q # p => toFail'[q] = toFail[q] /\ pc'[q] = pc[q]
                         /\ toFail'[p] = subs /\ pc'[p] = "hangup"
    BY <2>1 DEF IInv, TypeOK
  <2>5. QED
    BY <2>1, <2>2, <2>3, <2>4, CurrentGeneration, SMTT(20)
    DEF IInv, TypeOK, HoldersInv, Holds
<1>5. OpenInv'
  <2>1. /\ toFail' = [toFail EXCEPT ![p] = subs] /\ pc[p] = "failall"
        /\ UNCHANGED <<toClose, chan>>
    BY DEF FailAll, Goto
  <2>2. \A c \in subs : Holds(p, c)'
    BY <2>1 DEF IInv, TypeOK, Holds
  <2>3. \A q \in Procs, c \in Calls : Holds(q, c) => Holds(q, c)'
    BY <2>1 DEF IInv, TypeOK, HoldersInv, Holds
  <2>4. QED BY <2>1, <2>2, <2>3 DEF IInv, OpenInv
<1>6. ReadersInv' /\ FailuresInv' /\ NoLostSocket'
  BY SMTT(20), ProcNames DEF IInv, TypeOK, Procs, FailAll, Goto, Rearm,
      Current, EmptyMap, ReadersInv, AttemptsInv, ChannelsInv, Early,
      FailuresInv, NoLostSocket, Dialing
<1> QED BY <1>1, <1>2, <1>3, <1>4, <1>5, <1>6 DEF IInv

\* Closing the socket keeps it: whoever hangs up is the one that accounts
\* for it.
LEMMA HangupKeeps ==
  ASSUME IInv, NEW p \in Procs, Hangup(p)
  PROVE  IInv'
<1> USE ProcNames
    DEF IInv, TypeOK, Procs, Hangup, Goto, ShutSocket, connVars
<1>1. TypeOK' /\ AttemptsInv'
  BY SMTT(20), GenNumbers, BoundsAssumption, NamesAssumption DEF AttemptsInv,
      ReadersInv, Gens, NoGen, CallPC, ReaderPC, CloserPC, Dialing
<1>2. ChannelsInv'
  BY SMTT(20) DEF ChannelsInv, AttemptsInv, HoldersInv, ReadersInv, Early
<1>3. HoldersInv'
  BY SMTT(20) DEF HoldersInv, ChannelsInv, ReadersInv, Holds, Early
<1>4. OpenInv'
  BY SMTT(20) DEF OpenInv, Holds, Early
<1>5. ReadersInv' /\ FailuresInv' /\ NoLostSocket'
  BY SMTT(20) DEF ReadersInv, AttemptsInv, ChannelsInv, Early, FailuresInv,
      NoLostSocket, Dialing
<1> QED BY <1>1, <1>2, <1>3, <1>4, <1>5

\* A round of failAll's loop keeps it: the channel moves from one set of
\* its holder to the other.
LEMMA SendFinalKeeps ==
  ASSUME IInv, NEW p \in Procs, SendFinal(p)
  PROVE  IInv'
<1> USE ProcNames
    DEF IInv, TypeOK, Procs, SendFinal, Push, connVars
<1>1. TypeOK'
  <2>1. PICK c \in toFail[p] : /\ buf' = Push(c)
                             /\ toFail' = [toFail EXCEPT ![p] = @ \ {c}]
                             /\ toClose' = [toClose EXCEPT ![p] = {c}]
    BY DEF SendFinal
  <2>2. c \in Calls
    BY <2>1 DEF IInv, TypeOK
  <2>3. buf' \in [Calls -> 0..BufCap]
    BY <2>1, <2>2, PushBounded DEF IInv
  <2>4. QED BY <2>1, <2>2, <2>3 DEF IInv, TypeOK, SendFinal, connVars
<1>2. AttemptsInv'
  BY SMTT(20), BoundsAssumption, NamesAssumption DEF AttemptsInv, ReadersInv,
      Gens, NoGen, Dialing
<1>3. ChannelsInv'
  BY SMTT(20) DEF ChannelsInv, AttemptsInv, HoldersInv, ReadersInv, Early
<1>4. HoldersInv'
  BY SMTT(20) DEF HoldersInv, ChannelsInv, ReadersInv, Holds, Early
<1>5. OpenInv'
  BY SMTT(20) DEF OpenInv, Holds, Early
<1>6. ReadersInv' /\ FailuresInv' /\ NoLostSocket'
  BY SMTT(20) DEF ReadersInv, AttemptsInv, ChannelsInv, Early, FailuresInv,
      NoLostSocket, Dialing
<1> QED BY <1>1, <1>2, <1>3, <1>4, <1>5, <1>6

\* Closing a channel keeps it: its only holder closes it, and lets go of
\* it.
LEMMA CloseChanKeeps ==
  ASSUME IInv, NEW p \in Procs, CloseChan(p)
  PROVE  IInv'
<1> USE ProcNames
    DEF IInv, TypeOK, Procs, CloseChan, connVars
<1>1. TypeOK' /\ AttemptsInv'
  BY SMTT(20), GenNumbers, BoundsAssumption, NamesAssumption DEF AttemptsInv,
      ReadersInv, Gens, NoGen, CallPC, ReaderPC, CloserPC, Dialing
<1>2. ChannelsInv'
  <2>1. PICK c \in toClose[p] : chan' = [chan EXCEPT ![c] = "closed"]
    BY DEF CloseChan
  <2>2. c \in Calls /\ c \notin subs /\ chan[c] = "open"
    BY <2>1 DEF IInv, TypeOK, HoldersInv, Holds
  <2>3. \A d \in Calls : /\ Early(d)' <=> Early(d)
                         /\ Early(d) => d # c
    BY <2>2 DEF IInv, ChannelsInv, Early, CloseChan
  <2>4. subs' = subs /\ conn' = conn /\ on' = on /\ handed' = handed
    BY DEF CloseChan, connVars
  <2>5. \A d \in Calls : d # c => chan'[d] = chan[d]
    BY <2>1 DEF IInv, TypeOK
  <2>6. QED
    BY <2>2, <2>3, <2>4, <2>5 DEF IInv, ChannelsInv, Early
<1>3. HoldersInv'
  BY SMTT(20) DEF HoldersInv, ChannelsInv, ReadersInv, Holds, Early
<1>4. OpenInv'
  BY SMTT(20) DEF OpenInv, Holds, Early
<1>5. ReadersInv' /\ FailuresInv' /\ NoLostSocket'
  BY SMTT(20) DEF ReadersInv, AttemptsInv, ChannelsInv, Early, FailuresInv,
      NoLostSocket, Dialing
<1> QED BY <1>1, <1>2, <1>3, <1>4, <1>5

\* The end of failAll's loop keeps it.
LEMMA DrainedKeeps ==
  ASSUME IInv, NEW p \in Procs, Drained(p)
  PROVE  IInv'
<1> USE ProcNames
    DEF IInv, TypeOK, Procs, Drained, Goto, AfterDrain, connVars
<1>1. TypeOK' /\ AttemptsInv'
  BY SMTT(20), GenNumbers, BoundsAssumption, NamesAssumption DEF AttemptsInv,
      ReadersInv, Gens, NoGen, CallPC, ReaderPC, CloserPC, Dialing
<1>2. ChannelsInv'
  BY SMTT(20) DEF ChannelsInv, AttemptsInv, HoldersInv, ReadersInv, Early
<1>3. HoldersInv'
  BY SMTT(20) DEF HoldersInv, ChannelsInv, ReadersInv, Holds, Early
<1>4. OpenInv'
  BY SMTT(20) DEF OpenInv, Holds, Early
<1>5. ReadersInv' /\ FailuresInv' /\ NoLostSocket'
  BY SMTT(20) DEF ReadersInv, AttemptsInv, ChannelsInv, Early, FailuresInv,
      NoLostSocket, Dialing
<1> QED BY <1>1, <1>2, <1>3, <1>4, <1>5

\* removeSub keeps it: the channel, if still in c.subs, passes to this
\* goroutine.
LEMMA RemoveSubKeeps ==
  ASSUME IInv, NEW p \in Procs, RemoveSub(p)
  PROVE  IInv'
<1> USE ProcNames
    DEF IInv, TypeOK, Procs, RemoveSub, Goto, connVars
<1>1. TypeOK' /\ AttemptsInv'
  BY SMTT(20), GenNumbers, BoundsAssumption, NamesAssumption DEF AttemptsInv,
      ReadersInv, Gens, NoGen, CallPC, ReaderPC, CloserPC, Dialing
<1>2. ChannelsInv'
  BY SMTT(20) DEF ChannelsInv, AttemptsInv, HoldersInv, ReadersInv, Early
<1>3. HoldersInv'
  BY SMTT(20) DEF HoldersInv, ChannelsInv, ReadersInv, Holds, Early
<1>4. OpenInv'
  <2>1. /\ toClose' = [toClose EXCEPT ![p] = subs \cap {about[p]}]
        /\ subs' = subs \ {about[p]} /\ pc[p] = "remove"
        /\ UNCHANGED <<toFail, chan>>
    BY DEF RemoveSub, Goto
  <2>2. \A c \in subs : c \in subs' \/ Holds(p, c)'
    BY <2>1 DEF IInv, TypeOK, Holds
  <2>3. \A q \in Procs, c \in Calls : Holds(q, c) => Holds(q, c)'
    BY <2>1 DEF IInv, TypeOK, HoldersInv, Holds
  <2>4. QED BY <2>1, <2>2, <2>3 DEF IInv, OpenInv
<1>5. ReadersInv' /\ FailuresInv' /\ NoLostSocket'
  BY SMTT(20) DEF ReadersInv, AttemptsInv, ChannelsInv, Early, FailuresInv,
      NoLostSocket, Dialing
<1> QED BY <1>1, <1>2, <1>3, <1>4, <1>5

\* The end of removeSub keeps it.
LEMMA RemovedKeeps ==
  ASSUME IInv, NEW p \in Procs, Removed(p)
  PROVE  IInv'
<1> USE ProcNames
    DEF IInv, TypeOK, Procs, Removed, Goto, AfterClose, connVars
<1>1. TypeOK' /\ AttemptsInv'
  BY SMTT(20), GenNumbers, BoundsAssumption, NamesAssumption DEF AttemptsInv,
      ReadersInv, Gens, NoGen, CallPC, ReaderPC, CloserPC, Dialing
<1>2. ChannelsInv'
  BY SMTT(20) DEF ChannelsInv, AttemptsInv, HoldersInv, ReadersInv, Early
<1>3. HoldersInv'
  BY SMTT(20) DEF HoldersInv, ChannelsInv, ReadersInv, Holds, Early
<1>4. OpenInv'
  BY SMTT(20) DEF OpenInv, Holds, Early
<1>5. ReadersInv' /\ FailuresInv' /\ NoLostSocket'
  BY SMTT(20) DEF ReadersInv, AttemptsInv, ChannelsInv, Early, FailuresInv,
      NoLostSocket, Dialing
<1> QED BY <1>1, <1>2, <1>3, <1>4, <1>5

\* A failed subscribe, complete or pong frame keeps it: the sender has seen
\* its connection fail.
LEMMA WriteFailsKeeps ==
  ASSUME IInv, NEW p \in Calls \cup Gens, WriteFails(p)
  PROVE  IInv'
<1> USE ProcNames
    DEF IInv, TypeOK, Procs, WriteFails, Goto, SendFails, connVars
<1>1. TypeOK'
  <2>1. PICK from \in {"write", "complete", "pong"} : Goto(p, from, "failall")
    BY DEF WriteFails
  <2>2. /\ pc' \in [Procs -> CallPC \cup ReaderPC]
        /\ \A d \in Calls : pc'[d] \in CallPC
        /\ \A h \in Gens : pc'[h] \in ReaderPC
        /\ pc'[Closer] \in CloserPC
    BY <2>1, ProcNames, SMTT(15)
    DEF IInv, TypeOK, Procs, CallPC, ReaderPC, CloserPC, Goto
  <2>3. wire' \in [Gens -> {"none", "up", "down", "shut"}]
    BY DEF IInv, TypeOK, WriteFails
  <2>4. QED BY <2>2, <2>3 DEF IInv, TypeOK, WriteFails, SendFails, connVars
<1>2. AttemptsInv'
  BY SMTT(20), BoundsAssumption, NamesAssumption DEF AttemptsInv, ReadersInv,
      Gens, NoGen, Dialing
<1>3. ChannelsInv'
  BY SMTT(20) DEF ChannelsInv, AttemptsInv, HoldersInv, ReadersInv, Early
<1>4. HoldersInv'
  BY SMTT(20) DEF HoldersInv, ChannelsInv, ReadersInv, Holds, Early
<1>5. OpenInv'
  BY SMTT(20) DEF OpenInv, Holds, Early
<1>6. ReadersInv'
  BY SMTT(20) DEF ReadersInv, AttemptsInv, ChannelsInv, Early
<1>7. FailuresInv'
  <2>1. ASSUME NEW q \in Calls \cup Gens, pc'[q] = "failall"
        PROVE  wire'[on'[q]] # "up"
    <3>1. /\ pc[p] \in {"write", "complete", "pong"} /\ UNCHANGED on
          /\ q # p => pc[q] = "failall"
      BY <2>1, SMTT(15) DEF IInv, TypeOK, Procs, WriteFails, Goto
    <3>2. on[p] \in Gens
      BY <3>1, DoneGeneration DEF IInv
    <3>3. CASE q = p
      BY <3>1, <3>2, <3>3 DEF IInv, TypeOK, ReadersInv, WriteFails, Goto,
      SendFails, connVars
    <3>4. CASE q # p
      <4>1. wire[on[q]] # "up" /\ on[q] \in Gens
        BY <3>1, <3>4, DoneGeneration DEF IInv, FailuresInv
      <4>2. QED BY <3>1, <4>1 DEF IInv, TypeOK, WriteFails, Goto, SendFails,
      connVars
    <3>5. QED BY <3>3, <3>4
  <2>2. QED BY <2>1 DEF FailuresInv
<1>8. NoLostSocket'
  BY SMTT(20) DEF NoLostSocket, AttemptsInv, ReadersInv, Dialing
<1> QED BY <1>1, <1>2, <1>3, <1>4, <1>5, <1>6, <1>7, <1>8

\* A send that parks keeps it: only writeMu changes.
LEMMA SendParksKeeps ==
  ASSUME IInv, NEW p \in Calls \cup Gens, SendParks(p)
  PROVE  IInv'
<1> USE ProcNames
    DEF IInv, TypeOK, Procs, SendParks, connVars, SendPc
<1>1. TypeOK' /\ AttemptsInv'
  BY SMTT(20), GenNumbers, BoundsAssumption, NamesAssumption DEF AttemptsInv,
      ReadersInv, Gens, NoGen, CallPC, ReaderPC, CloserPC, Dialing
<1>2. ChannelsInv'
  BY SMTT(20) DEF ChannelsInv, AttemptsInv, HoldersInv, ReadersInv, Early
<1>3. HoldersInv'
  BY SMTT(20) DEF HoldersInv, ChannelsInv, ReadersInv, Holds, Early
<1>4. OpenInv'
  BY SMTT(20) DEF OpenInv, Holds, Early
<1>5. ReadersInv' /\ FailuresInv' /\ NoLostSocket'
  BY SMTT(20) DEF ReadersInv, AttemptsInv, ChannelsInv, Early, FailuresInv,
      NoLostSocket, Dialing
<1> QED BY <1>1, <1>2, <1>3, <1>4, <1>5

\* Close keeps it: every channel of c.subs passes to the closer, and to it alone.
LEMMA CloseKeeps ==
  ASSUME IInv, Close
  PROVE  IInv'
<1> USE ProcNames
    DEF IInv, TypeOK, Procs, Close, Goto, EmptyMap, connVars
<1>1. TypeOK'
  <2>1. conn \in 0..(MaxGen + 1)
    BY GenNumbers DEF IInv, TypeOK
  <2>2. QED
    BY <2>1, ProcNames, SMTT(15)
    DEF IInv, TypeOK, Procs, CallPC, ReaderPC, CloserPC, Close, Goto, EmptyMap,
      connVars
<1>2. AttemptsInv'
  BY SMTT(20), BoundsAssumption, NamesAssumption DEF AttemptsInv, ReadersInv,
      Gens, NoGen, Dialing
<1>3. ChannelsInv'
  BY SMTT(20) DEF ChannelsInv, AttemptsInv, HoldersInv, ReadersInv, Early
<1>4. HoldersInv'
  BY SMTT(20) DEF HoldersInv, ChannelsInv, ReadersInv, Holds, Early
<1>5. OpenInv'
  <2>1. /\ toClose' = [toClose EXCEPT ![Closer] = subs] /\ pc[Closer] = "idle"
        /\ UNCHANGED <<toFail, chan>> /\ Closer \in Procs
    BY DEF Close, Goto, Procs
  <2>2. \A c \in subs : Holds(Closer, c)'
    BY <2>1 DEF IInv, TypeOK, Holds
  <2>3. \A q \in Procs, c \in Calls : Holds(q, c) => Holds(q, c)'
    BY <2>1 DEF IInv, TypeOK, HoldersInv, Holds
  <2>4. QED BY <2>1, <2>2, <2>3 DEF IInv, OpenInv
<1>6. ReadersInv' /\ FailuresInv' /\ NoLostSocket'
  BY SMTT(20) DEF ReadersInv, AttemptsInv, ChannelsInv, Early, FailuresInv,
      NoLostSocket, Dialing
<1> QED BY <1>1, <1>2, <1>3, <1>4, <1>5, <1>6

\* A connection that breaks keeps it.
LEMMA BreakKeeps ==
  ASSUME IInv, NEW g \in Gens, Break(g)
  PROVE  IInv'
<1> USE ProcNames
    DEF IInv, TypeOK, Procs, Break, connVars
<1>1. TypeOK' /\ AttemptsInv'
  BY SMTT(20), GenNumbers, BoundsAssumption, NamesAssumption DEF AttemptsInv,
      ReadersInv, Gens, NoGen, CallPC, ReaderPC, CloserPC, Dialing
<1>2. ChannelsInv'
  BY SMTT(20) DEF ChannelsInv, AttemptsInv, HoldersInv, ReadersInv, Early
<1>3. HoldersInv'
  BY SMTT(20) DEF HoldersInv, ChannelsInv, ReadersInv, Holds, Early
<1>4. OpenInv'
  BY SMTT(20) DEF OpenInv, Holds, Early
<1>5. ReadersInv' /\ FailuresInv' /\ NoLostSocket'
  BY SMTT(20) DEF ReadersInv, AttemptsInv, ChannelsInv, Early, FailuresInv,
      NoLostSocket, Dialing
<1> QED BY <1>1, <1>2, <1>3, <1>4, <1>5

-----------------------------------------------------------------------------
\* The invariant holds at the start ...
LEMMA InitEstablishes == Init => IInv
<1> SUFFICES ASSUME Init PROVE IInv
  OBVIOUS
<1>1. TypeOK
  <2>1. 1 \in 1..(MaxGen + 1) /\ 0 \in 0..BufCap
    BY BoundsAssumption
  <2>2. /\ \A c \in Calls : pc[c] = "idle"
        /\ \A g \in Gens : pc[g] = "none"
        /\ pc[Closer] = "idle"
    BY ProcNames DEF Init, Procs
  <2>3. pc \in [Procs -> {"idle", "none"}]
    BY DEF Init
  <2>4. on \in [Procs -> 0..(MaxGen + 1)]
    BY GenNumbers DEF Init
  <2>5. QED
    BY <2>1, <2>2, <2>3, <2>4
    DEF Init, TypeOK, Procs, CallPC, ReaderPC, CloserPC
<1>2. AttemptsInv
  BY BoundsAssumption, SMTT(15)
  DEF Init, AttemptsInv, Dialing, Procs, Gens, NoGen
<1>3. ChannelsInv /\ HoldersInv /\ OpenInv
  BY DEF Init, ChannelsInv, HoldersInv, OpenInv, Holds
<1>4. ReadersInv
  BY ProcNames, NamesAssumption, SMTT(15)
  DEF Init, ReadersInv, Early, Procs
<1>5. FailuresInv /\ NoLostSocket
  BY ProcNames DEF Init, FailuresInv, NoLostSocket, Procs
<1>6. QED BY <1>1, <1>2, <1>3, <1>4, <1>5 DEF IInv

\* ... and every step keeps it.
LEMMA NextKeeps == IInv /\ [Next]_vars => IInv'
<1> SUFFICES ASSUME IInv, [Next]_vars PROVE IInv'
  OBVIOUS
<1>1. ASSUME Environment PROVE IInv'
  <2>1. CASE \E c \in Calls : \/ TakeOnce(c) \/ CtxDone(c) \/ Receive(c)
                             \/ AckArrives(c) \/ AckRefused(c)
    BY <2>1, TakeOnceKeeps, CtxDoneKeeps, ReceiveKeeps, AckArrivesKeeps, NoAckKeeps
    DEF AckRefused
  <2>2. CASE \E g \in Gens : ReadPing(g) \/ Break(g)
    BY <2>2, ReadPingKeeps, BreakKeeps
  <2>3. CASE \E g \in Gens, c \in Calls : ReadResult(g, c) \/ ReadComplete(g, c)
    BY <2>3, ReadResultKeeps, ReadCompleteKeeps
  <2>4. CASE \E p \in Calls \cup Gens : SendParks(p)
    BY <2>4, SendParksKeeps
  <2>5. CASE Close
    BY <2>5, CloseKeeps
  <2>6. QED BY <1>1, <2>1, <2>2, <2>3, <2>4, <2>5 DEF Environment
<1>2. ASSUME NEW p \in Procs, Progress(p) PROVE IInv'
  <2>1. CASE p \in Calls /\ Ensuring(p)
    BY <2>1, RunOnceKeeps, AwaitOnceKeeps, DialFailsKeeps, DialConnectsKeeps,
       NoAckKeeps, OpenFailedKeeps, OpenReadyKeeps,
       RegisterRefusedKeeps, RegisterKeeps DEF Ensuring, AckFails
  <2>2. CASE p \in Gens /\ (Deliver(p) \/ ReadFails(p))
    BY <2>2, DeliverKeeps, ReadFailsKeeps
  <2>3. CASE Ending(p)
    BY <2>3, FailAllSupersededKeeps, FailAllKeeps, HangupKeeps,
       SendFinalKeeps, CloseChanKeeps, DrainedKeeps, RemoveSubKeeps,
       RemovedKeeps DEF Ending
  <2>4. QED BY <1>2, <2>1, <2>2, <2>3 DEF Progress
<1>3. ASSUME NEW p \in Procs, Sending(p) PROVE IInv'
  <2>1. CASE WriteFails(p)
    <3>1. pc[p] \in {"write", "complete", "pong"}
      BY <2>1 DEF WriteFails, Goto
    <3>2. p \in Calls \cup Gens
      BY <3>1 DEF IInv, TypeOK, Procs, CloserPC
    <3>3. QED BY <2>1, <3>2, WriteFailsKeeps
  <2>2. CASE p \in Calls /\ (InitSent(p) \/ InitFails(p) \/ SubscribeSent(p)
                             \/ CompleteSent(p))
    BY <2>2, InitSentKeeps, InitFailsKeeps, SubscribeSentKeeps,
       CompleteSentKeeps
  <2>3. CASE p \in Gens /\ PongSent(p)
    BY <2>3, PongSentKeeps
  <2>4. QED BY <1>3, <2>1, <2>2, <2>3 DEF Sending
<1>4. CASE UNCHANGED vars
  <2>1. /\ once' = once /\ attempt' = attempt /\ connErr' = connErr
        /\ conn' = conn /\ subs' = subs /\ closed' = closed /\ wire' = wire
        /\ chan' = chan /\ buf' = buf /\ writeMu' = writeMu /\ pc' = pc
        /\ on' = on /\ about' = about /\ toFail' = toFail
        /\ toClose' = toClose /\ handed' = handed /\ panic' = panic
    BY <1>4 DEF vars, connVars
  <2>2. QED
    BY <2>1 DEF IInv, TypeOK, AttemptsInv, ChannelsInv, HoldersInv, OpenInv,
      ReadersInv, FailuresInv, NoLostSocket, Dialing, Early, Holds
<1>5. QED BY <1>1, <1>2, <1>3, <1>4 DEF Next

\* IInv is an invariant of the client, for any calls and any bounds.
THEOREM Invariance == Spec => []IInv
<1>1. Init => IInv
  BY InitEstablishes
<1>2. IInv /\ [Next]_vars => IInv'
  BY NextKeeps
<1>3. QED BY <1>1, <1>2, PTL DEF Spec

-----------------------------------------------------------------------------
\* Every variable keeps its type: in particular c.connOnce never runs past the
\* dial bound and no goroutine reaches a point its code does not have.
THEOREM TypeCorrect == Spec => []TypeOK
<1>1. IInv => TypeOK
  BY DEF IInv
<1>2. QED BY <1>1, Invariance, PTL

\* No subscription channel is closed twice (client.go: failAll, removeSub and
\* Close race for it), so "close of closed channel" cannot end the daemon.
THEOREM ClosedOnce == Spec => []NoDoubleClose
<1>1. IInv => NoDoubleClose
  BY DEF IInv, HoldersInv, NoDoubleClose
<1>2. QED BY <1>1, Invariance, PTL

\* No stream is orphaned: an open channel is registered, or held by a running
\* goroutine that will close it.
THEOREM NoOrphans == Spec => []NoOrphanStream
<1>1. ASSUME IInv, NEW c \in Calls, NEW p \in Procs, Holds(p, c)
      PROVE  Live(p) /\ c \in toFail[p] \cup toClose[p]
  <2>1. pc[p] \in {"hangup", "drain", "close"}
    BY <1>1 DEF IInv, HoldersInv, Holds
  <2>2. QED BY <1>1, <2>1 DEF Live, Holds
<1>2. IInv => NoOrphanStream
  BY <1>1 DEF IInv, OpenInv, NoOrphanStream
<1>3. QED BY <1>2, Invariance, PTL

\* Registered streams ride the current connection, whose read loop is alive.
THEOREM OnCurrentConn == Spec => []StreamsOnCurrentConn
<1>1. ASSUME IInv PROVE conn # NoGen => Live(conn)
  <2>1. conn # NoGen => conn \in Gens
    BY <1>1 DEF IInv, TypeOK
  <2>2. \A g \in Gens : conn = g => pc[g] \notin {"none", "over"} /\ pc[g] # "idle"
    BY <1>1 DEF IInv, ReadersInv, TypeOK, ReaderPC
  <2>3. QED BY <2>1, <2>2 DEF Live
<1>2. ASSUME IInv PROVE \A c \in subs : conn # NoGen /\ on[c] = conn
  BY <1>2 DEF IInv, TypeOK, ChannelsInv
<1>3. IInv => StreamsOnCurrentConn
  BY <1>1, <1>2 DEF StreamsOnCurrentConn
<1>4. QED BY <1>3, Invariance, PTL

\* A spent sync.Once always backs the current connection: a failed open or a
\* lost connection never leaves the client unable to redial.
THEOREM Redials == Spec => []SpentOnceHasConn
<1>1. IInv => SpentOnceHasConn
  BY DEF IInv, AttemptsInv, SpentOnceHasConn
<1>2. QED BY <1>1, Invariance, PTL

\* A Subscribe never returns the error of an attempt made before its own.
THEOREM FreshErrors == Spec => []NoStaleOpenError
<1>1. ASSUME IInv, NEW c \in Calls, pc[c] = "check", connErr # NoGen
      PROVE  connErr >= on[c]
  <2>1. on[c] \in Gens /\ attempt[on[c]] = "done"
    BY <1>1 DEF IInv, AttemptsInv
  <2>2. conn = NoGen /\ connErr + 1 = once /\ connErr \in Gens
    BY <1>1 DEF IInv, AttemptsInv, TypeOK
  <2>3. on[c] # once
    BY <2>1, <2>2, ProcNames, <1>1 DEF IInv, AttemptsInv
  <2>4. ~(on[c] > once)
    BY <2>1, <1>1 DEF IInv, AttemptsInv
  <2>5. QED BY <2>1, <2>2, <2>3, <2>4, BoundsAssumption DEF Gens
<1>2. IInv => NoStaleOpenError
  BY <1>1 DEF NoStaleOpenError
<1>3. QED BY <1>2, Invariance, PTL

\* One open at a time, and none while a connection is current.
THEOREM OneOpen == Spec => []SingleFlight
<1>1. ASSUME IInv, NEW c \in Calls, pc[c] \in {"dial", "init", "ack"}
      PROVE  /\ conn = NoGen
             /\ \A d \in Calls \ {c} : pc[d] \notin {"dial", "init", "ack"}
  BY <1>1 DEF IInv, AttemptsInv, Dialing
<1>2. IInv => SingleFlight
  BY <1>1 DEF SingleFlight
<1>3. QED BY <1>2, Invariance, PTL

\* No open socket is forgotten while its goroutine moves on.
THEOREM SocketsAccounted == Spec => []NoLostSocket
<1>1. IInv => NoLostSocket
  BY DEF IInv
<1>2. QED BY <1>1, Invariance, PTL

\* A stream on a healthy connection is only ended by its own ctx, its peer's
\* final frame or Close: failAll's conn check keeps a late report about a dead
\* connection from killing the streams of the redialed one.
THEOREM EndForCause == Spec => StreamsEndForCause
<1> DEFINE Cause(c) ==
      \/ closed'
      \/ wire[on[c]] # "up"
      \/ \E p \in {c, on[c]} : pc[p] = "remove" /\ about[p] = c
<1>1. ASSUME IInv, [Next]_vars, NEW c \in subs, c \notin subs'
      PROVE  Cause(c)
  <2>1. c \in Calls /\ conn # NoGen /\ on[c] = conn /\ conn \in Gens
    BY <1>1 DEF IInv, TypeOK, ChannelsInv
  <2>2. ASSUME NEW p \in Procs, FailAll(p) PROVE Cause(c)
    <3>1. pc[p] = "failall" /\ on[p] = on[c]
      BY <2>1, <2>2 DEF FailAll, Goto, Current
    <3>2. p \in Calls \cup Gens
      BY <1>1, <2>2, CurrentGeneration
    <3>3. QED BY <1>1, <3>1, <3>2 DEF IInv, FailuresInv
  <2>3. ASSUME NEW p \in Procs, RemoveSub(p) PROVE Cause(c)
    <3>1. pc[p] = "remove" /\ about[p] = c
      BY <1>1, <2>3 DEF RemoveSub, Goto
    <3>2. p \in {c, on[c]}
      <4>1. CASE p \in Calls
        BY <1>1, <3>1, <4>1 DEF IInv, ReadersInv
      <4>2. CASE p \in Gens
        BY <1>1, <2>1, <3>1, <4>2, NamesAssumption DEF IInv, ReadersInv
      <4>3. CASE p = Closer
        BY <1>1, <2>1, <3>1, <4>3, NamesAssumption DEF IInv, ReadersInv
      <4>4. QED BY <4>1, <4>2, <4>3 DEF Procs
    <3>3. QED BY <3>1, <3>2
  <2>4. ASSUME Close PROVE Cause(c)
    BY <2>4 DEF Close
  <2>5. QED
    <3>1. CASE Environment
      BY <1>1, <3>1, <2>4 DEF Environment, TakeOnce, CtxDone, Receive,
        AckArrives, AckRefused, NoAck, ReadPing, Break, ReadResult, ReadComplete, SendParks
    <3>2. ASSUME NEW p \in Procs, Progress(p) PROVE Cause(c)
      <4>1. CASE p \in Calls /\ Ensuring(p)
        BY <1>1, <4>1 DEF Ensuring, RunOnce, AwaitOnce, DialFails,
          DialConnects, AckFails, NoAck, OpenFailed, OpenReady,
          RegisterRefused, Register
      <4>2. CASE p \in Gens /\ (Deliver(p) \/ ReadFails(p))
        BY <1>1, <4>2 DEF Deliver, ReadFails
      <4>3. CASE Ending(p)
        BY <1>1, <4>3, <2>2, <2>3 DEF Ending, FailAllSuperseded, Hangup,
          SendFinal, CloseChan, Drained, Removed
      <4>4. QED BY <3>2, <4>1, <4>2, <4>3 DEF Progress
    <3>3. ASSUME NEW p \in Procs, Sending(p) PROVE Cause(c)
      BY <1>1, <3>3 DEF Sending, WriteFails, InitSent, InitFails,
        SubscribeSent, CompleteSent, PongSent
    <3>4. CASE UNCHANGED vars
      BY <1>1, <3>4 DEF vars
    <3>5. QED BY <1>1, <3>1, <3>2, <3>3, <3>4 DEF Next
<1>2. IInv /\ [Next]_vars =>
        [\A c \in subs \ subs' : Cause(c)]_vars
  BY <1>1
<1>3. QED BY <1>2, Invariance, PTL DEF Spec, StreamsEndForCause
=============================================================================
