-------------------------- MODULE EventQueueProofs --------------------------
(***************************************************************************)
(* The event queue implements a Fifo for every set of threads and          *)
(* messages and every size of the memory.                                  *)
(***************************************************************************)
EXTENDS EventQueue, TLAPS

\* a message is in the hand of the thread that allocated it
HandFull == \A t \in Thread : send[t] = "allocated" => hand[t] \in Message

\* the receiver sends and frees only while it works on a message
Working ==
  /\ send[Receiver] # "out" => recv = "working"
  /\ taken = NoMessage <=> recv \in {"waiting", "token"}
  /\ recv = "drained" => list = <<>>

\* The inductive invariant.  Counted alone is not: which thread is between
\* insque and sem_post must be known to be the holder of the mutex.
IInv == TypeOK /\ HandFull /\ Working /\ MutexHeld /\ Counted
-----------------------------------------------------------------------------
LEMMA InitInv == Init => IInv
<1> SUFFICES ASSUME Init PROVE IInv
  OBVIOUS
<1> USE ThreadAssumption DEF Init
<1>1. TypeOK
  <2>1. <<>> \in Seq(Message)
    OBVIOUS
  <2> QED BY <2>1 DEF TypeOK, Thread, SendStage, RecvStage
<1>2. HandFull
  BY DEF HandFull
<1>3. Working
  BY DEF Working, Thread
<1>4. MutexHeld
  BY DEF MutexHeld, InSend, InReceive
<1>5. Counted
  BY DEF Counted, Claims, Posting
<1> QED BY <1>1, <1>2, <1>3, <1>4, <1>5 DEF IInv

\* While the mutex is free no thread is between insque and sem_post; while a
\* thread is, that thread holds the mutex and no other is.
LEMMA OnePosts ==
  ASSUME IInv
  PROVE  /\ mutex = Nobody => Posting = 0
         /\ \A t \in Thread : send[t] = "linked" => Posting = 1
         /\ \A t, u \in Thread : send[t] = "linked" /\ send[u] = "linked" => t = u
         /\ recv \in {"unlinked", "drained", "reset"} => Posting = 0
<1>1. \A t \in Thread : send[t] = "linked" => mutex = t
  BY DEF IInv, MutexHeld, InSend, InReceive
<1>2. Nobody \notin Thread /\ Receiver \in Thread
  BY ThreadAssumption DEF Thread
<1>3. send[Receiver] = "linked" => recv = "working"
  BY DEF IInv, Working
<1>4. recv \in {"unlinked", "drained", "reset"} => mutex = Receiver
  BY DEF IInv, MutexHeld, InSend, InReceive
<1> QED BY <1>1, <1>2, <1>3, <1>4 DEF Posting

\* A step that leaves the stage of every thread, or moves only between stages
\* other than "linked", leaves Posting.
LEMMA PostingKept ==
  ASSUME IInv, NEW t \in Thread, NEW s \in SendStage,
         send[t] # "linked", s # "linked",
         send' = [send EXCEPT ![t] = s]
  PROVE  Posting' = Posting
<1>1. \A u \in Thread : send'[u] = "linked" <=> send[u] = "linked"
  BY DEF IInv, TypeOK
<1> QED BY <1>1 DEF Posting

LEMMA StepInv == IInv /\ [Next]_vars => IInv'
<1> SUFFICES ASSUME IInv, [Next]_vars PROVE IInv'
  OBVIOUS
<1> USE ThreadAssumption
<1>T. TypeOK /\ HandFull /\ Working /\ MutexHeld /\ Counted
  BY DEF IInv
<1>R. Receiver \in Thread /\ Nobody \notin Thread
  BY DEF Thread
<1>1. ASSUME NEW t \in Thread, NEW m \in Message, Allocate(t, m)
      PROVE  IInv'
  <2> USE <1>1 DEF Allocate
  <2>1. TypeOK'
    BY <1>T DEF TypeOK, SendStage
  <2>2. HandFull'
    BY <1>T DEF HandFull, TypeOK
  <2>3. Working'
    BY <1>T, <1>R DEF Working, TypeOK
  <2>4. MutexHeld'
    BY <1>T DEF MutexHeld, InSend, InReceive, TypeOK
  <2>5. Posting' = Posting
    BY PostingKept DEF SendStage
  <2>6. Counted'
    BY <1>T, <2>5 DEF Counted, Claims
  <2> QED BY <2>1, <2>2, <2>3, <2>4, <2>6 DEF IInv
<1>2. ASSUME NEW t \in Thread, NoMemory(t)
      PROVE  IInv'
  <2> USE <1>2 DEF NoMemory
  <2>1. TypeOK'
    BY <1>T DEF TypeOK, SendStage
  <2>2. HandFull'
    BY <1>T DEF HandFull, TypeOK
  <2>3. Working'
    BY <1>T, <1>R DEF Working, TypeOK
  <2>4. MutexHeld'
    BY <1>T DEF MutexHeld, InSend, InReceive, TypeOK
  <2>5. Posting' = Posting
    BY PostingKept DEF SendStage
  <2>6. Counted'
    BY <1>T, <2>5 DEF Counted, Claims
  <2> QED BY <2>1, <2>2, <2>3, <2>4, <2>6 DEF IInv
<1>3. ASSUME NEW t \in Thread, Link(t)
      PROVE  IInv'
  <2> USE <1>3 DEF Link
  <2>0. hand[t] \in Message
    BY <1>T DEF HandFull
  <2>L. Append(list, hand[t]) \in Seq(Message)
        /\ Len(Append(list, hand[t])) = Len(list) + 1
    BY <1>T, <2>0 DEF TypeOK
  <2>1. TypeOK'
    BY <1>T, <2>L DEF TypeOK, SendStage
  <2>2. HandFull'
    BY <1>T DEF HandFull, TypeOK
  <2>D. recv # "drained"
    BY <1>T, <1>R DEF MutexHeld, InSend, InReceive
  <2>3. Working'
    BY <1>T, <1>R, <2>D DEF Working, TypeOK
  <2>4. MutexHeld'
    BY <1>T, <1>R DEF MutexHeld, InSend, InReceive, TypeOK
  <2>5. Posting = 0 /\ Posting' = 1
    BY <1>T, <1>R, OnePosts DEF Posting, TypeOK
  <2>6. Counted'
    BY <1>T, <1>R, <2>5, <2>L DEF Counted, Claims, TypeOK, MutexHeld, InReceive
  <2> QED BY <2>1, <2>2, <2>3, <2>4, <2>6 DEF IInv
<1>4. ASSUME NEW t \in Thread, Post(t)
      PROVE  IInv'
  <2> USE <1>4 DEF Post
  <2>1. TypeOK'
    BY <1>T DEF TypeOK, SendStage
  <2>2. HandFull'
    BY <1>T DEF HandFull, TypeOK
  <2>3. Working'
    BY <1>T, <1>R DEF Working, TypeOK
  <2>4. MutexHeld'
    BY <1>T DEF MutexHeld, InSend, InReceive, TypeOK
  <2>5. Posting = 1
    BY OnePosts
  <2>6. \A u \in Thread : send'[u] # "linked"
    BY <1>T, OnePosts DEF TypeOK
  <2>7. Posting' = 0
    BY <2>6 DEF Posting
  <2>8. Counted'
    BY <1>T, <2>5, <2>7 DEF Counted, Claims, TypeOK
  <2> QED BY <2>1, <2>2, <2>3, <2>4, <2>8 DEF IInv
<1>5. ASSUME NEW t \in Thread, Leave(t)
      PROVE  IInv'
  <2> USE <1>5 DEF Leave
  <2>1. TypeOK'
    BY <1>T DEF TypeOK, SendStage
  <2>2. HandFull'
    BY <1>T DEF HandFull, TypeOK
  <2>3. Working'
    BY <1>T, <1>R DEF Working, TypeOK
  <2>M. mutex = t
    BY <1>T DEF MutexHeld, InSend, InReceive
  <2>N. recv \notin {"unlinked", "drained", "reset"}
    BY <1>T, <2>M DEF MutexHeld, InSend, InReceive, Working
  <2>4. MutexHeld'
    BY <1>T, <1>R, <2>M, <2>N DEF MutexHeld, InSend, InReceive, TypeOK
  <2>5. Posting' = Posting
    BY PostingKept DEF SendStage
  <2>6. Counted'
    BY <1>T, <2>5 DEF Counted, Claims
  <2> QED BY <2>1, <2>2, <2>3, <2>4, <2>6 DEF IInv
<1>6. ASSUME SemWait PROVE IInv'
  <2> USE <1>6 DEF SemWait
  <2>1. TypeOK'
    BY <1>T DEF TypeOK, RecvStage
  <2>2. HandFull'
    BY <1>T DEF HandFull
  <2>3. Working'
    BY <1>T DEF Working
  <2>4. MutexHeld'
    BY <1>T DEF MutexHeld, InSend, InReceive
  <2>5. Posting' = Posting
    BY DEF Posting
  <2>6. Counted'
    BY <1>T, <2>5 DEF Counted, Claims, TypeOK
  <2> QED BY <2>1, <2>2, <2>3, <2>4, <2>6 DEF IInv
<1>7. ASSUME Unlink PROVE IInv'
  <2> USE <1>7 DEF Unlink
  <2>L. Head(list) \in Message /\ Tail(list) \in Seq(Message)
        /\ Len(Tail(list)) = Len(list) - 1
    BY <1>T DEF TypeOK
  <2>1. TypeOK'
    BY <1>T, <1>R, <2>L DEF TypeOK, RecvStage
  <2>2. HandFull'
    BY <1>T DEF HandFull
  <2>3. Working'
    BY <1>T, <2>L DEF Working
  <2>4. MutexHeld'
    BY <1>T, <1>R DEF MutexHeld, InSend, InReceive
  <2>5. Posting' = Posting
    BY DEF Posting
  <2>6. Counted'
    BY <1>T, <2>5, <2>L DEF Counted, Claims, TypeOK, Posting
  <2> QED BY <2>1, <2>2, <2>3, <2>4, <2>6 DEF IInv
<1>8. ASSUME Deliver PROVE IInv'
  <2> USE <1>8 DEF Deliver
  <2>1. TypeOK'
    BY <1>T DEF TypeOK, RecvStage
  <2>2. HandFull'
    BY <1>T DEF HandFull
  <2>3. Working'
    BY <1>T DEF Working
  <2>4. MutexHeld'
    BY <1>T, <1>R DEF MutexHeld, InSend, InReceive, Working
  <2>5. Posting' = Posting
    BY DEF Posting
  <2>6. Counted'
    BY <1>T, <2>5 DEF Counted, Claims, TypeOK
  <2> QED BY <2>1, <2>2, <2>3, <2>4, <2>6 DEF IInv
<1>9. ASSUME Finish PROVE IInv'
  <2> USE <1>9 DEF Finish
  <2>1. TypeOK'
    BY <1>T DEF TypeOK, RecvStage
  <2>2. HandFull'
    BY <1>T DEF HandFull
  <2>3. Working'
    BY <1>T DEF Working
  <2>4. MutexHeld'
    BY <1>T DEF MutexHeld, InSend, InReceive
  <2>5. Posting' = Posting
    BY DEF Posting
  <2>6. Counted'
    BY <1>T, <2>5 DEF Counted, Claims, TypeOK
  <2> QED BY <2>1, <2>2, <2>3, <2>4, <2>6 DEF IInv
<1>10. ASSUME Drain PROVE IInv'
  <2> USE <1>10 DEF Drain
  <2>L. <<>> \in Seq(Message)
    OBVIOUS
  <2>1. TypeOK'
    BY <1>T, <1>R, <2>L DEF TypeOK, RecvStage
  <2>2. HandFull'
    BY <1>T DEF HandFull
  <2>3. Working'
    BY <1>T DEF Working
  <2>4. MutexHeld'
    BY <1>T, <1>R DEF MutexHeld, InSend, InReceive
  <2>5. Counted'
    BY DEF Counted
  <2> QED BY <2>1, <2>2, <2>3, <2>4, <2>5 DEF IInv
<1>11. ASSUME ResetSem PROVE IInv'
  <2> USE <1>11 DEF ResetSem
  <2>1. TypeOK'
    BY <1>T DEF TypeOK, RecvStage
  <2>2. HandFull'
    BY <1>T DEF HandFull
  <2>3. Working'
    BY <1>T DEF Working
  <2>4. MutexHeld'
    BY <1>T DEF MutexHeld, InSend, InReceive
  <2>5. Posting' = 0
    BY OnePosts DEF Posting
  <2>6. Len(list) = 0
    BY <1>T DEF Working
  <2>7. Counted'
    BY <2>5, <2>6 DEF Counted, Claims
  <2> QED BY <2>1, <2>2, <2>3, <2>4, <2>7 DEF IInv
<1>12. ASSUME LeaveFree PROVE IInv'
  <2> USE <1>12 DEF LeaveFree
  <2>1. TypeOK'
    BY <1>T DEF TypeOK, RecvStage
  <2>2. HandFull'
    BY <1>T DEF HandFull
  <2>3. Working'
    BY <1>T DEF Working
  <2>4. MutexHeld'
    BY <1>T, <1>R DEF MutexHeld, InSend, InReceive, Working
  <2>5. Posting' = Posting
    BY DEF Posting
  <2>6. Counted'
    BY <1>T, <2>5 DEF Counted, Claims, TypeOK
  <2> QED BY <2>1, <2>2, <2>3, <2>4, <2>6 DEF IInv
<1>13. CASE UNCHANGED vars
  BY <1>T, <1>13 DEF IInv, vars, TypeOK, HandFull, Working, MutexHeld,
                    InSend, InReceive, Counted, Claims, Posting
<1> QED
  BY <1>1, <1>2, <1>3, <1>4, <1>5, <1>6, <1>7, <1>8, <1>9, <1>10, <1>11,
     <1>12, <1>13 DEF Next, SendStep
-----------------------------------------------------------------------------
LEMMA Invariance == Spec => []IInv
<1>1. Init => IInv
  BY InitInv
<1>2. IInv /\ [Next]_vars => IInv'
  BY StepInv
<1> QED BY <1>1, <1>2, PTL DEF Spec

\* A receiver that sleeps in sem_wait, or is on its way from there to the
\* lock, does not hold the mutex the senders need to wake it.
SleepsUnlocked == recv \in {"waiting", "token"} => mutex # Receiver

\* The safety half of SendsReturn: mqueue_wait never sleeps with q_mutex held
\* (mqueue.c:118-123), whatever was sent or emptied in the work before it.
THEOREM NeverSleepsLocked == Spec => []SleepsUnlocked
<1>1. IInv => SleepsUnlocked
  <2> SUFFICES ASSUME IInv, recv \in {"waiting", "token"}, mutex = Receiver
               PROVE  FALSE
    BY DEF SleepsUnlocked
  <2>1. Receiver # Nobody /\ ~ InReceive
    BY ThreadAssumption DEF InReceive
  <2>2. send[Receiver] # "out"
    BY <2>1 DEF IInv, MutexHeld, InSend
  <2> QED BY <2>2 DEF IInv, Working
<1> QED BY <1>1, Invariance, PTL

\* The semaphore and the list never drift apart, whatever the threads do
\* between sem_wait and the lock (mqueue.c:31-128).
THEOREM SemaphoreCounts == Spec => []Counted
<1>1. IInv => Counted
  BY DEF IInv
<1> QED BY <1>1, Invariance, PTL

LEMMA TokenInv == IInv => TokenIsElement
<1> SUFFICES ASSUME IInv, recv = "token" PROVE list # <<>>
  BY DEF TokenIsElement
<1>1. Claims + Posting = Len(list)
  BY DEF IInv, Counted
<1>2. Claims >= 1 /\ Claims \in Nat
  BY DEF IInv, TypeOK, Claims
<1>3. Posting \in {0, 1}
  BY DEF Posting
<1>4. Len(list) # 0
  BY <1>1, <1>2, <1>3
<1>5. Len(<<>>) = 0
  OBVIOUS
<1> QED BY <1>4, <1>5

\* mqueue_wait never unlinks from an empty list (mqueue.c:117-121).
THEOREM TokenHasElement == Spec => []TokenIsElement
<1> QED BY TokenInv, Invariance, PTL
-----------------------------------------------------------------------------
(* the refinement of Fifo *)

LEMMA FifoInit == Init => Queue!Init
BY DEF Init, Queue!Init

\* Appending, unlinking, draining and finishing are the steps of the Fifo;
\* all the others leave its variables.
LEMMA FifoStep == IInv /\ [Next]_vars => [Queue!Next]_(Queue!vars)
<1> SUFFICES ASSUME IInv, [Next]_vars
             PROVE  Queue!Next \/ UNCHANGED <<list, taken>>
  BY DEF Queue!vars
<1>1. ASSUME NEW t \in Thread, Link(t) PROVE Queue!Next
  <2>1. hand[t] \in Message
    BY <1>1 DEF Link, IInv, HandFull
  <2>2. Queue!Send(hand[t])
    BY <1>1 DEF Link, Queue!Send
  <2> QED BY <2>1, <2>2 DEF Queue!Next
<1>2. ASSUME Unlink PROVE Queue!Next
  <2>1. taken = NoMessage
    BY <1>2 DEF Unlink, IInv, Working
  <2> QED BY <1>2, <2>1 DEF Unlink, Queue!Next, Queue!Receive
<1>3. ASSUME Drain PROVE Queue!Next
  <2>1. taken # NoMessage
    BY <1>3 DEF Drain, IInv, Working
  <2> QED BY <1>3, <2>1 DEF Drain, Queue!Next, Queue!Flush
<1>4. ASSUME Finish PROVE Queue!Next
  <2>1. taken # NoMessage
    BY <1>4 DEF Finish, IInv, Working
  <2> QED BY <1>4, <2>1 DEF Finish, Queue!Next, Queue!Done
<1>5. ASSUME NEW t \in Thread, \/ \E m \in Message : Allocate(t, m)
                               \/ NoMemory(t) \/ Post(t) \/ Leave(t)
      PROVE  UNCHANGED <<list, taken>>
  BY <1>5 DEF Allocate, NoMemory, Post, Leave
<1>6. ASSUME SemWait \/ Deliver \/ ResetSem \/ LeaveFree \/ UNCHANGED vars
      PROVE  UNCHANGED <<list, taken>>
  BY <1>6 DEF SemWait, Deliver, ResetSem, LeaveFree, vars
<1> QED
  BY <1>1, <1>2, <1>3, <1>4, <1>5, <1>6 DEF Next, SendStep

\* The linked list, the mutex and the semaphore together behave as one
\* sequence of messages that is appended to, taken from and emptied in
\* single steps (mqueue.c, mstpd_ctrl.c:119-186).
THEOREM ImplementsFifo == Spec => QueueIsFifo
<1>1. Init => Queue!Init
  BY FifoInit
<1>2. IInv /\ [Next]_vars => [Queue!Next]_(Queue!vars)
  BY FifoStep
<1> QED BY <1>1, <1>2, Invariance, PTL DEF Spec, QueueIsFifo, Queue!Spec
=============================================================================
