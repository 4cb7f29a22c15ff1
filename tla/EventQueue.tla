----------------------------- MODULE EventQueue -----------------------------
(***************************************************************************)
(* The event queue of the Protocol thread: a linked list under a mutex and *)
(* a semaphore that counts its elements (mqueue.c), used through the       *)
(* wrappers of mstpd_ctrl.c.  The OVSDB, receive and timer threads send;   *)
(* the Protocol thread waits, works on what it took, and while it works it *)
(* may send too and may empty the queue (mstp_config_reinit does both).    *)
(*                                                                         *)
(* A step is what the other threads can see: the lock is taken together    *)
(* with the change it protects, the semaphore is posted and awaited in     *)
(* steps of its own because sem_wait runs outside the mutex.               *)
(***************************************************************************)
EXTENDS Naturals, Sequences

CONSTANTS Sender,     \* the threads that only send
          Receiver,   \* the Protocol thread
          Message, NoMessage,
          Nobody,     \* the mutex is free
          MaxElements \* malloc fails when so many elements are queued

ASSUME ThreadAssumption ==
  /\ Receiver \notin Sender
  /\ Nobody \notin Sender \cup {Receiver}
  /\ NoMessage \notin Message
  /\ MaxElements \in Nat

Thread == Sender \cup {Receiver}

VARIABLES list,    \* the elements between q_head and q_tail
          avail,   \* the value of q_avail
          mutex,   \* the holder of q_mutex
          send,    \* where each thread is in mqueue_send
          hand,    \* the message each thread is sending
          recv,    \* where the receiver is in mqueue_wait and mqueue_free
          taken    \* the message it works on

vars == <<list, avail, mutex, send, hand, recv, taken>>

SendStage == {"out", "allocated", "linked", "posted"}
RecvStage == {"waiting", "token", "unlinked", "working", "drained", "reset"}

TypeOK ==
  /\ list \in Seq(Message)
  /\ avail \in Nat
  /\ mutex \in Thread \cup {Nobody}
  /\ send \in [Thread -> SendStage]
  /\ hand \in [Thread -> Message \cup {NoMessage}]
  /\ recv \in RecvStage
  /\ taken \in Message \cup {NoMessage}

Init ==
  /\ list = <<>>
  /\ avail = 0
  /\ mutex = Nobody
  /\ send = [t \in Thread |-> "out"]
  /\ hand = [t \in Thread |-> NoMessage]
  /\ recv = "waiting"
  /\ taken = NoMessage
-----------------------------------------------------------------------------
(* mstpd_send_event, mqueue_send *)

\* a thread fills a message in; the receiver only between two messages
Allocate(t, m) ==
  /\ send[t] = "out"
  /\ t = Receiver => recv = "working"
  /\ send' = [send EXCEPT ![t] = "allocated"]
  /\ hand' = [hand EXCEPT ![t] = m]
  /\ UNCHANGED <<list, avail, mutex, recv, taken>>

\* mutant: the error path posts too
NoMemoryPosts(t) ==
  /\ send[t] = "allocated"
  /\ send' = [send EXCEPT ![t] = "out"]
  /\ hand' = [hand EXCEPT ![t] = NoMessage]
  /\ avail' = avail + 1
  /\ UNCHANGED <<list, mutex, recv, taken>>

\* ENOMEM: the callers ignore the result, the message is lost
NoMemory(t) ==
  /\ send[t] = "allocated"
  /\ send' = [send EXCEPT ![t] = "out"]
  /\ hand' = [hand EXCEPT ![t] = NoMessage]
  /\ UNCHANGED <<list, avail, mutex, recv, taken>>

\* mutant: insque behind q_head
LinkAtHead(t) ==
  /\ send[t] = "allocated"
  /\ mutex = Nobody
  /\ Len(list) < MaxElements
  /\ mutex' = t
  /\ list' = <<hand[t]>> \o list
  /\ hand' = [hand EXCEPT ![t] = NoMessage]
  /\ send' = [send EXCEPT ![t] = "linked"]
  /\ UNCHANGED <<avail, recv, taken>>

Link(t) ==
  /\ send[t] = "allocated"
  /\ mutex = Nobody
  /\ Len(list) < MaxElements
  /\ mutex' = t
  /\ list' = Append(list, hand[t])
  /\ hand' = [hand EXCEPT ![t] = NoMessage]
  /\ send' = [send EXCEPT ![t] = "linked"]
  /\ UNCHANGED <<avail, recv, taken>>

\* mutant: only the first element wakes the receiver
PostIfFirst(t) ==
  /\ send[t] = "linked"
  /\ avail' = IF Len(list) = 1 THEN avail + 1 ELSE avail
  /\ send' = [send EXCEPT ![t] = "posted"]
  /\ UNCHANGED <<list, mutex, hand, recv, taken>>

Post(t) ==
  /\ send[t] = "linked"
  /\ avail' = avail + 1
  /\ send' = [send EXCEPT ![t] = "posted"]
  /\ UNCHANGED <<list, mutex, hand, recv, taken>>

Leave(t) ==
  /\ send[t] = "posted"
  /\ mutex' = Nobody
  /\ send' = [send EXCEPT ![t] = "out"]
  /\ UNCHANGED <<list, avail, hand, recv, taken>>
-----------------------------------------------------------------------------
(* mstpd_wait_for_next_event, mqueue_wait *)

\* mutant: the mutex is locked before sem_wait, and held while it sleeps
WaitLocked ==
  /\ recv = "waiting"
  /\ \/ /\ mutex = Nobody
        /\ mutex' = Receiver
        /\ UNCHANGED <<list, avail, recv, taken>>
     \/ /\ mutex = Receiver
        /\ avail > 0
        /\ avail' = avail - 1
        /\ taken' = Head(list)
        /\ list' = Tail(list)
        /\ recv' = "unlinked"
        /\ UNCHANGED mutex
  /\ UNCHANGED <<send, hand>>

SemWait ==
  /\ recv = "waiting"
  /\ avail > 0
  /\ avail' = avail - 1
  /\ recv' = "token"
  /\ UNCHANGED <<list, mutex, send, hand, taken>>

\* remque of whatever q_head points at: with an empty list that is q_tail,
\* so Unlink has no next state there and the receiver is stuck
Unlink ==
  /\ recv = "token"
  /\ mutex = Nobody
  /\ list # <<>>
  /\ mutex' = Receiver
  /\ taken' = Head(list)
  /\ list' = Tail(list)
  /\ recv' = "unlinked"
  /\ UNCHANGED <<avail, send, hand>>

Deliver ==
  /\ recv = "unlinked"
  /\ mutex' = Nobody
  /\ recv' = "working"
  /\ UNCHANGED <<list, avail, send, hand, taken>>

\* mstpd_event_free, back to the head of the loop
Finish ==
  /\ recv = "working"
  /\ send[Receiver] = "out"
  /\ taken' = NoMessage
  /\ recv' = "waiting"
  /\ UNCHANGED <<list, avail, mutex, send, hand>>
-----------------------------------------------------------------------------
(* mstp_free_event_queue, mqueue_free *)

Drain ==
  /\ recv = "working"
  /\ send[Receiver] = "out"
  /\ mutex = Nobody
  /\ mutex' = Receiver
  /\ list' = <<>>
  /\ recv' = "drained"
  /\ UNCHANGED <<avail, send, hand, taken>>

\* mutant: mqueue_free leaves the semaphore as it is
ForgetSem ==
  /\ recv = "drained"
  /\ recv' = "reset"
  /\ UNCHANGED <<list, avail, mutex, send, hand, taken>>

ResetSem ==
  /\ recv = "drained"
  /\ avail' = 0
  /\ recv' = "reset"
  /\ UNCHANGED <<list, mutex, send, hand, taken>>

LeaveFree ==
  /\ recv = "reset"
  /\ mutex' = Nobody
  /\ recv' = "working"
  /\ UNCHANGED <<list, avail, send, hand, taken>>
-----------------------------------------------------------------------------
SendStep(t) == Link(t) \/ Post(t) \/ Leave(t)

Next ==
  \/ \E t \in Thread : \/ \E m \in Message : Allocate(t, m)
                       \/ NoMemory(t)
                       \/ SendStep(t)
  \/ SemWait \/ Unlink \/ Deliver \/ Finish
  \/ Drain \/ ResetSem \/ LeaveFree

Spec == Init /\ [][Next]_vars

\* malloc fails at the latest when the memory is full
OutOfMemory(t) == Len(list) >= MaxElements /\ NoMemory(t)

\* A thread that is past a lock or a post runs on.  The lock itself needs
\* strong fairness: whoever holds it gives it up within a few lines, and the
\* threads come to it once an event or a second, so that one which waits
\* for it finds it free again and again.
\* The work on one event ends, whatever the receiver sent or freed in it.
Fairness ==
  /\ \A t \in Thread : /\ SF_vars(Link(t)) /\ WF_vars(OutOfMemory(t))
                       /\ WF_vars(Post(t)) /\ WF_vars(Leave(t))
  /\ WF_vars(SemWait) /\ SF_vars(Unlink) /\ WF_vars(Deliver)
  /\ WF_vars(ResetSem) /\ WF_vars(LeaveFree) /\ SF_vars(Finish)

FairSpec == Spec /\ Fairness
-----------------------------------------------------------------------------
\* The number of elements a waiting or served receiver may still claim
Claims == avail + (IF recv = "token" THEN 1 ELSE 0)
Posting == IF \E t \in Thread : send[t] = "linked" THEN 1 ELSE 0

\* The semaphore counts the list.  The mutex does not protect q_avail from
\* sem_wait, and mqueue_free drops the list and the count in two steps: were
\* they to drift apart the receiver would sleep on queued events for ever,
\* or unlink the tail sentinel of an empty list.
Counted == recv # "drained" => Claims + Posting = Len(list)

\* sem_wait granted an element, so there is one (mqueue.c:117-121).
TokenIsElement == recv = "token" => list # <<>>

\* q_mutex is held by exactly the thread that is between lock and unlock.
InSend(t) == send[t] \in {"linked", "posted"}
InReceive == recv \in {"unlinked", "drained", "reset"}

MutexHeld ==
  /\ \A t \in Thread : InSend(t) => mutex = t
  /\ InReceive => mutex = Receiver
  /\ mutex # Nobody => InSend(mutex) \/ (mutex = Receiver /\ InReceive)

\* The queue is a Fifo: the wrapper functions used from four threads append,
\* take and discard whole messages as if each were one step, in the order of
\* insque, and a queued message is taken although the receiver may sleep.
Queue == INSTANCE Fifo WITH queue <- list, taken <- taken

QueueIsFifo == Queue!Spec
QueueDelivers == Queue!FairSpec

\* No thread waits for the queue for ever: what mstpd_send_event begins comes
\* to an end, with the message queued or lost, while the receiver sleeps in
\* sem_wait, unlinks or empties the queue (mqueue.c:95, 118).  The OVSDB
\* thread sends under its own lock, and the daemon would hang with it.
SendsReturn == \A t \in Thread : send[t] = "allocated" ~> send[t] = "out"
=============================================================================
