----------------------------- MODULE PeerStream -----------------------------
(***************************************************************************)
(* What Client.Subscribe promises (client.go, its comment): a subscription *)
(* that is asked for is either refused with an error or opened; an open    *)
(* stream carries results, dropping those that find its buffer full, and   *)
(* ends once, for good; what is buffered by then can still be read.        *)
(* PeerClient is shown to implement this, and PeerSupervisor is built on   *)
(* it.                                                                     *)
(***************************************************************************)
EXTENDS Naturals

CONSTANTS
  Streams,  \* subscriptions
  BufCap    \* results a stream holds for its consumer

VARIABLES
  stream,   \* the state of each subscription
  queue     \* results each holds for its consumer

vars == <<stream, queue>>

Init ==
  /\ stream = [s \in Streams |-> "idle"]
  /\ queue = [s \in Streams |-> 0]

Moves(s, from, to) ==
  /\ stream[s] = from
  /\ stream' = [stream EXCEPT ![s] = to]

Ask(s)    == Moves(s, "idle", "asked") /\ UNCHANGED queue
Refuse(s) == Moves(s, "asked", "refused") /\ UNCHANGED queue
Open(s)   == Moves(s, "asked", "open") /\ UNCHANGED queue
End(s)    == Moves(s, "open", "ended") /\ UNCHANGED queue

\* A result arrives; one that finds the buffer full is dropped, a stutter.
Carry(s) ==
  /\ stream[s] = "open"
  /\ queue[s] < BufCap
  /\ queue' = [queue EXCEPT ![s] = @ + 1]
  /\ UNCHANGED stream

Read(s) ==
  /\ queue[s] > 0
  /\ queue' = [queue EXCEPT ![s] = @ - 1]
  /\ UNCHANGED stream

\* Several streams end together when their connection does; each ends alone
\* here, since the client closes its channels one after the other.
Next == \E s \in Streams :
  \/ Ask(s) \/ Refuse(s) \/ Open(s) \/ End(s) \/ Carry(s) \/ Read(s)

Spec == Init /\ [][Next]_vars
=============================================================================
