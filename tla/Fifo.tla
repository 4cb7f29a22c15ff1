------------------------------- MODULE Fifo -------------------------------
(***************************************************************************)
(* What the event queue of the Protocol thread promises: a sequence of     *)
(* messages that several threads append to and one thread takes from, in   *)
(* the order they were appended, one at a time; the thread that takes      *)
(* them may also discard everything that waits.                            *)
(***************************************************************************)
EXTENDS Naturals, Sequences

CONSTANTS Message,   \* the messages that can be sent
          NoMessage  \* the receiver holds no message

VARIABLES queue, \* the messages sent and not yet taken
          taken  \* the message the receiver works on, or NoMessage

vars == <<queue, taken>>

Init == queue = <<>> /\ taken = NoMessage

Send(m) == queue' = Append(queue, m) /\ UNCHANGED taken

Receive ==
  /\ taken = NoMessage
  /\ queue # <<>>
  /\ taken' = Head(queue)
  /\ queue' = Tail(queue)

\* the receiver empties the queue while it works on a message
Flush ==
  /\ taken # NoMessage
  /\ queue' = <<>>
  /\ UNCHANGED taken

Done == taken # NoMessage /\ taken' = NoMessage /\ UNCHANGED queue

Next == (\E m \in Message : Send(m)) \/ Receive \/ Flush \/ Done

Spec == Init /\ [][Next]_vars

\* a queue that keeps its promise also delivers: what waits is taken
FairSpec == Spec /\ WF_vars(Receive) /\ WF_vars(Done)
============================================================================
