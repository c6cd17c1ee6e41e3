------------------------- MODULE KernelQueueProofs -------------------------
(***************************************************************************)
(* Theorems about the event queue of KernelQueue, for any number of        *)
(* senders, any length of the ring, any timeout and any number of events,  *)
(* also for queues that overflow and for removals behind the head.         *)
(***************************************************************************)
EXTENDS KernelQueue, SequenceTheorems, TLAPS

(* A counter always names a slot of the ring.                              *)
LEMMA SlotInRing ==
    ASSUME NEW i \in Nat PROVE Slot(i) \in SlotIdx
BY LengthAssumption DEF Slot, SlotIdx

(* queue_release_sender changes no more than the state of threads and      *)
(* their return values.                                                    *)
LEMMA ReleaseType ==
    ASSUME TypeOK, NEW refs, NEW value \in {NoReply, Answer},
           Release(refs, value)
    PROVE  /\ thread' \in [Senders -> {"running", "sending"}]
           /\ retval' \in [Senders -> {NoReply, Answer}]
           /\ sent' \in [Senders -> Nat \cup {Never}]
BY DEF TypeOK, Release, NoReply, Answer

LEMMA WriteType ==
    ASSUME TypeOK, NEW id \in Ids, Write(id)
    PROVE  /\ rd' \in Nat /\ wr' \in Nat /\ rd' <= wr'
           /\ events' \in [SlotIdx -> Events]
           /\ currSender' \in Senders \cup {None}
           /\ send' \in BOOLEAN /\ alive' \in BOOLEAN
           /\ pc' \in {"run", "blocked", "ready"}
           /\ linked' \in BOOLEAN /\ take' \in BOOLEAN
           /\ asked' \in Int /\ asked' >= Forever
           /\ waited' \in Nat
           /\ got' \in Events \cup {Timeout}
<1>1. [id |-> id, seq |-> wr] \in Events
  BY DEF TypeOK, Events
<1>2. events' \in [SlotIdx -> Events]
  BY <1>1 DEF TypeOK, Write
<1>3. rd' \in Nat /\ wr' \in Nat /\ rd' <= wr'
  BY DEF TypeOK, Write
<1>4. pc' \in {"run", "blocked", "ready"} /\ linked' \in BOOLEAN
  BY DEF TypeOK, Write, WakeWaiter
<1>5. /\ currSender' = currSender /\ send' = send /\ alive' = alive
      /\ asked' = asked /\ waited' = waited /\ take' = take /\ got' = got
  BY DEF Write
<1> QED
  BY <1>2, <1>3, <1>4, <1>5 DEF TypeOK

(* What the end of a wait leaves, by each of its three ways.               *)
WaitEndType ==
    /\ rd' \in Nat /\ rd' <= wr
    /\ senders' \in [SlotIdx -> Senders \cup {None}]
    /\ currSender' \in Senders \cup {None}
    /\ pc' \in {"run", "blocked", "ready"}
    /\ got' \in Events \cup {Timeout}

LEMMA TakeHeadType ==
    ASSUME TypeOK, NEW curr \in Senders \cup {None}, ~IsEmpty, TakeHead(curr)
    PROVE  WaitEndType
<1>1. Slot(rd) \in SlotIdx
  BY SlotInRing DEF TypeOK
<1> QED
  BY <1>1 DEF TypeOK, TakeHead, FetchSender, WaitEndType, IsEmpty

LEMMA LeaveHeadType ==
    ASSUME TypeOK, NEW curr \in Senders \cup {None},
           NEW result \in Events \cup {Timeout}, LeaveHead(curr, result)
    PROVE  WaitEndType
BY DEF TypeOK, LeaveHead, WaitEndType

LEMMA BlockType ==
    ASSUME TypeOK, NEW curr \in Senders \cup {None}, Block(curr)
    PROVE  WaitEndType /\ linked' \in BOOLEAN
BY DEF TypeOK, Block, WaitEndType

-----------------------------------------------------------------------------
(* Each wait ends or blocks with well-typed results.                       *)
LEMMA WaitStartType ==
    ASSUME TypeOK, NEW n \in {Forever} \cup 0 .. MaxTicks, NEW ev \in BOOLEAN,
           WaitStart(n, ev)
    PROVE  TypeOK'
<1>1. WaitEndType /\ linked' \in BOOLEAN
  <2>1. None \in Senders \cup {None} /\ Timeout \in Events \cup {Timeout}
        /\ got \in Events \cup {Timeout} /\ linked \in BOOLEAN
    BY DEF TypeOK
  <2>2. CASE ~IsEmpty /\ ev /\ TakeHead(None) /\ UNCHANGED linked
    BY <2>1, <2>2, TakeHeadType
  <2>3. CASE ~IsEmpty /\ ~ev /\ LeaveHead(None, got) /\ UNCHANGED linked
    BY <2>1, <2>3, LeaveHeadType
  <2>4. CASE /\ IsEmpty /\ n = 0 /\ UNCHANGED linked
             /\ LeaveHead(None, IF ev THEN Timeout ELSE got)
    <3>1. (IF ev THEN Timeout ELSE got) \in Events \cup {Timeout}
      BY <2>1
    <3> QED BY <2>1, <2>4, <3>1, LeaveHeadType
  <2>5. CASE IsEmpty /\ n # 0 /\ Block(None)
    BY <2>1, <2>5, BlockType
  <2> QED
    BY <2>2, <2>3, <2>4, <2>5 DEF WaitStart
<1>2. /\ thread' \in [Senders -> {"running", "sending"}]
      /\ retval' \in [Senders -> {NoReply, Answer}]
      /\ sent' \in [Senders -> Nat \cup {Never}]
  BY ReleaseType DEF WaitStart
<1>3. asked' \in Int /\ asked' >= Forever /\ waited' \in Nat /\ take' \in BOOLEAN
  BY BoundAssumption DEF WaitStart, Forever
<1> QED
  BY <1>1, <1>2, <1>3 DEF TypeOK, WaitStart, WaitEndType

LEMMA WaitResumeType ==
    ASSUME TypeOK, WaitResume PROVE TypeOK'
<1>1. WaitEndType /\ linked' \in BOOLEAN
  <2>1. currSender \in Senders \cup {None} /\ linked \in BOOLEAN
        /\ got \in Events \cup {Timeout}
        /\ (IF take THEN Timeout ELSE got) \in Events \cup {Timeout}
    BY DEF TypeOK
  <2>2. CASE ~IsEmpty /\ take /\ TakeHead(currSender) /\ UNCHANGED linked
    BY <2>1, <2>2, TakeHeadType
  <2>3. CASE ~IsEmpty /\ ~take /\ LeaveHead(currSender, got) /\ UNCHANGED linked
    BY <2>1, <2>3, LeaveHeadType
  <2>4. CASE /\ linked' = FALSE
             /\ LeaveHead(currSender, IF take THEN Timeout ELSE got)
    BY <2>1, <2>4, LeaveHeadType
  <2>5. CASE Block(currSender)
    BY <2>1, <2>5, BlockType
  <2> QED
    BY <2>2, <2>3, <2>4, <2>5 DEF WaitResume
<1> QED
  BY <1>1 DEF TypeOK, WaitResume, WaitEndType, sending

(* Sliding moves array entries within the ring.                            *)
LEMMA SlideType ==
    ASSUME NEW S, NEW array \in [SlotIdx -> S], NEW i
    PROVE  Slide(array, i) \in [SlotIdx -> S]
<1>1. \A s \in SlotIdx : Slot(s + QueueLength - 1) \in SlotIdx
  <2> TAKE s \in SlotIdx
  <2>1. s + QueueLength - 1 \in Nat
    BY LengthAssumption DEF SlotIdx
  <2> QED
    BY <2>1, SlotInRing
<1> QED
  BY <1>1 DEF Slide

LEMMA QueuePeekExType ==
    ASSUME TypeOK, NEW filter \in SUBSET Ids, NEW i \in Pending,
           NEW ev \in BOOLEAN, QueuePeekEx(filter, i, ev)
    PROVE  TypeOK'
<1>1. rd' \in Nat /\ rd' <= wr'
  BY DEF TypeOK, QueuePeekEx, Pending
<1>2. i \in Nat /\ Slot(i) \in SlotIdx
  BY SlotInRing DEF TypeOK, Pending
<1>3. events' \in [SlotIdx -> Events]
  BY SlideType DEF TypeOK, QueuePeekEx
<1>4. senders' \in [SlotIdx -> Senders \cup {None}]
  <2>1. [senders EXCEPT ![Slot(i)] = None] \in [SlotIdx -> Senders \cup {None}]
    BY DEF TypeOK
  <2> QED
    BY <2>1, SlideType DEF QueuePeekEx
<1>5. /\ thread' \in [Senders -> {"running", "sending"}]
      /\ retval' \in [Senders -> {NoReply, Answer}]
      /\ sent' \in [Senders -> Nat \cup {Never}]
  BY ReleaseType DEF QueuePeekEx
<1>6. currSender' \in Senders \cup {None} /\ got' \in Events \cup {Timeout}
  BY <1>2 DEF TypeOK, QueuePeekEx
<1> QED
  BY <1>1, <1>3, <1>4, <1>5, <1>6 DEF TypeOK, QueuePeekEx, waiting

LEMMA ForgetSendersType ==
    ASSUME TypeOK, ForgetSenders
    PROVE  senders' \in [SlotIdx -> Senders \cup {None}]
BY DEF TypeOK, ForgetSenders

(* Every step keeps the types.                                             *)
LEMMA TypeStep ==
    ASSUME TypeOK, [Next]_vars PROVE TypeOK'
<1>1. CASE EnableSend
  BY <1>1 DEF TypeOK, EnableSend, waiting, sending
<1>2. ASSUME NEW id \in Ids, QueuePost(id) PROVE TypeOK'
  <2>1. senders' \in [SlotIdx -> Senders \cup {None}]
    BY <1>2 DEF TypeOK, QueuePost
  <2> QED
    BY <1>2, <2>1, WriteType, ReleaseType DEF TypeOK, QueuePost
<1>3. ASSUME NEW t \in Senders, NEW id \in Ids, QueueSend(t, id) PROVE TypeOK'
  <2>1. senders' \in [SlotIdx -> Senders \cup {None}]
    BY <1>3 DEF TypeOK, QueueSend
  <2>2. /\ thread' \in [Senders -> {"running", "sending"}]
        /\ retval' \in [Senders -> {NoReply, Answer}]
    BY <1>3 DEF TypeOK, QueueSend, NoReply, Answer
  <2>3. sent' \in [Senders -> Nat \cup {Never}]
    BY <1>3 DEF TypeOK, QueueSend
  <2>4. Write(id)
    BY <1>3 DEF QueueSend
  <2> QED
    BY <2>1, <2>2, <2>3, <2>4, WriteType DEF TypeOK
<1>4. ASSUME NEW t \in Senders, NEW id \in Ids, QueueSendDisabled(t, id)
      PROVE TypeOK'
  <2>1. Write(id) /\ UNCHANGED <<senders, sending>>
    BY <1>4 DEF QueueSendDisabled
  <2> QED
    BY <2>1, WriteType DEF TypeOK, sending
<1>5. ASSUME NEW n \in {Forever} \cup 0 .. MaxTicks, NEW ev \in BOOLEAN,
             WaitStart(n, ev)
      PROVE TypeOK'
  BY <1>5, WaitStartType
<1>6. CASE WaitResume
  BY <1>6, WaitResumeType
<1>7. CASE Tick
  BY <1>7 DEF TypeOK, Tick, slots, sending
<1>8. CASE Expire
  BY <1>8 DEF TypeOK, Expire, slots, sending
<1>9. CASE QueueReply
  BY <1>9, ReleaseType DEF TypeOK, QueueReply, slots, waiting
<1>10. ASSUME NEW filter \in SUBSET Ids, NEW i \in Pending, NEW ev \in BOOLEAN,
              QueuePeekEx(filter, i, ev)
       PROVE TypeOK'
  BY <1>10, QueuePeekExType
<1>11. CASE QueueClear
  BY <1>11, ReleaseType, ForgetSendersType DEF TypeOK, QueueClear, waiting
<1>12. CASE QueueDelete
  <2>1. pc' \in {"run", "blocked", "ready"} /\ linked' \in BOOLEAN
    BY <1>12 DEF TypeOK, QueueDelete, WakeWaiter
  <2>2. senders' \in [SlotIdx -> Senders \cup {None}]
    BY <1>12, ForgetSendersType DEF QueueDelete
  <2>3. /\ thread' \in [Senders -> {"running", "sending"}]
        /\ retval' \in [Senders -> {NoReply, Answer}]
        /\ sent' \in [Senders -> Nat \cup {Never}]
    <3>1. Release(PendingSenders \cup {currSender}, NoReply)
      BY <1>12 DEF QueueDelete
    <3> HIDE DEF PendingSenders
    <3> QED
      BY <3>1, ReleaseType
  <2>4. alive' \in BOOLEAN /\ send' \in BOOLEAN
    BY <1>12 DEF QueueDelete
  <2>5. rd' = wr /\ wr' = wr /\ currSender' = None
    BY <1>12 DEF QueueDelete
  <2>6. UNCHANGED <<events, asked, waited, take, got>>
    BY <1>12 DEF QueueDelete
  <2> QED
    BY <2>1, <2>2, <2>3, <2>4, <2>5, <2>6 DEF TypeOK
<1>13. CASE UNCHANGED vars
  BY <1>13 DEF TypeOK, vars, slots, waiting, sending
<1> QED
  BY <1>1, <1>2, <1>3, <1>4, <1>5, <1>6, <1>7, <1>8, <1>9, <1>10, <1>11,
     <1>12, <1>13 DEF Next

LEMMA TypeInit ==
    Init => TypeOK
<1> SUFFICES ASSUME Init PROVE TypeOK
  OBVIOUS
<1>1. events \in [SlotIdx -> Events]
  <2>1. PICK i \in Ids : events = [s \in SlotIdx |-> [id |-> i, seq |-> 0]]
    BY DEF Init
  <2> QED
    BY <2>1 DEF Events
<1>2. senders \in [SlotIdx -> Senders \cup {None}]
  BY DEF Init
<1>3. /\ thread \in [Senders -> {"running", "sending"}]
      /\ retval \in [Senders -> {NoReply, Answer}]
      /\ sent \in [Senders -> Nat \cup {Never}]
  BY DEF Init
<1>4. /\ send \in BOOLEAN /\ alive \in BOOLEAN
      /\ linked \in BOOLEAN /\ take \in BOOLEAN
  BY DEF Init
<1>5. /\ rd = 0 /\ wr = 0 /\ currSender = None /\ pc = "run"
      /\ asked = Forever /\ waited = 0 /\ got = Timeout
  BY DEF Init
<1> QED
  BY <1>1, <1>2, <1>3, <1>4, <1>5 DEF TypeOK, Forever

(* Every state the queue can be in is well typed: read never passes write, *)
(* the slots hold events and senders of the queue, and the wait and the    *)
(* threads are in one of their states.                                     *)
THEOREM TypeCorrect == Spec => []TypeOK
<1>1. Init => TypeOK
  BY TypeInit
<1>2. TypeOK /\ [Next]_vars => TypeOK'
  BY TypeStep
<1> QED
  BY <1>1, <1>2, PTL DEF Spec

-----------------------------------------------------------------------------
(* queue_wake_waiter leaves nobody on the waiting list, and whoever was on *)
(* it can run.                                                             *)
LEMMA WakeStep ==
    ASSUME TypeOK, NoLostWakeup, WakeWaiter
    PROVE  NoLostWakeup'
BY DEF TypeOK, NoLostWakeup, WakeWaiter

LEMMA WakeupInit ==
    Init => NoLostWakeup
BY DEF Init, NoLostWakeup

LEMMA WakeupStep ==
    ASSUME TypeOK, NoLostWakeup, [Next]_vars PROVE NoLostWakeup'
<1>1. CASE EnableSend
  BY <1>1 DEF NoLostWakeup, EnableSend, waiting, IsEmpty
<1>2. ASSUME NEW id \in Ids, QueuePost(id) PROVE NoLostWakeup'
  BY <1>2, WakeStep DEF QueuePost, Write
<1>3. ASSUME NEW t \in Senders, NEW id \in Ids, QueueSend(t, id)
      PROVE NoLostWakeup'
  BY <1>3, WakeStep DEF QueueSend, Write
<1>4. ASSUME NEW t \in Senders, NEW id \in Ids, QueueSendDisabled(t, id)
      PROVE NoLostWakeup'
  BY <1>4, WakeStep DEF QueueSendDisabled, Write
<1>5. ASSUME NEW n \in {Forever} \cup 0 .. MaxTicks, NEW ev \in BOOLEAN,
             WaitStart(n, ev)
      PROVE NoLostWakeup'
  <2>1. pc = "run" /\ ~linked /\ wr' = wr
    BY <1>5 DEF WaitStart, NoLostWakeup
  <2>2. CASE pc' = "run" /\ UNCHANGED linked
    BY <2>1, <2>2 DEF NoLostWakeup
  <2>3. CASE IsEmpty /\ Block(None)
    BY <2>1, <2>3 DEF NoLostWakeup, Block, IsEmpty
  <2> QED
    BY <1>5, <2>2, <2>3 DEF WaitStart, TakeHead, LeaveHead
<1>6. CASE WaitResume
  <2>1. CASE ~IsEmpty /\ pc' = "run" /\ UNCHANGED linked
    BY <2>1 DEF NoLostWakeup
  <2>2. CASE linked' = FALSE /\ pc' = "run"
    BY <2>2 DEF NoLostWakeup
  <2>3. CASE IsEmpty /\ Block(currSender)
    BY <1>6, <2>3 DEF NoLostWakeup, Block, IsEmpty, WaitResume
  <2> QED
    BY <1>6, <2>1, <2>2, <2>3 DEF WaitResume, TakeHead, LeaveHead
<1>7. CASE Tick
  BY <1>7 DEF NoLostWakeup, Tick, IsEmpty
<1>8. CASE Expire
  BY <1>8 DEF NoLostWakeup, Expire, IsEmpty
<1>9. CASE QueueReply
  BY <1>9 DEF NoLostWakeup, QueueReply, waiting, IsEmpty
<1>10. ASSUME NEW filter \in SUBSET Ids, NEW i \in Pending, NEW ev \in BOOLEAN,
              QueuePeekEx(filter, i, ev)
       PROVE NoLostWakeup'
  <2>1. ~IsEmpty
    BY DEF TypeOK, Pending, IsEmpty
  <2> QED
    BY <1>10, <2>1 DEF NoLostWakeup, QueuePeekEx, waiting
<1>11. CASE QueueClear
  BY <1>11 DEF NoLostWakeup, QueueClear, waiting, IsEmpty
<1>12. CASE QueueDelete
  BY <1>12, WakeStep DEF QueueDelete
<1>13. CASE UNCHANGED vars
  BY <1>13 DEF NoLostWakeup, vars, waiting, IsEmpty
<1> QED
  BY <1>1, <1>2, <1>3, <1>4, <1>5, <1>6, <1>7, <1>8, <1>9, <1>10, <1>11,
     <1>12, <1>13 DEF Next

(* Whatever posters, senders, the tick and the scheduler do between the    *)
(* two halves of a wait, the owner never sleeps, and never stays on the    *)
(* waiting list, while the queue holds an event.                           *)
THEOREM WakeupNotLost == Spec => []NoLostWakeup
<1>1. Init => NoLostWakeup
  BY WakeupInit
<1>2. TypeOK /\ NoLostWakeup /\ [Next]_vars => NoLostWakeup'
  BY WakeupStep
<1> QED
  BY <1>1, <1>2, TypeCorrect, PTL DEF Spec

-----------------------------------------------------------------------------
(* An owner that is runnable but still linked to q->queue has timed out.   *)
TimedOut ==
    pc = "ready" /\ linked => asked # Forever /\ waited >= asked

LEMMA TimedOutStep ==
    ASSUME TypeOK, NoLostWakeup, TimedOut, [Next]_vars PROVE TimedOut'
<1>1. CASE EnableSend
  BY <1>1 DEF TimedOut, EnableSend, waiting
<1>2. ASSUME NEW id \in Ids, Write(id) PROVE TimedOut'
  BY <1>2 DEF TimedOut, Write, WakeWaiter
<1>3. ASSUME NEW n \in {Forever} \cup 0 .. MaxTicks, NEW ev \in BOOLEAN,
             WaitStart(n, ev)
      PROVE TimedOut'
  BY <1>3 DEF TimedOut, WaitStart, TakeHead, LeaveHead, Block
<1>4. CASE WaitResume
  BY <1>4 DEF TimedOut, WaitResume, TakeHead, LeaveHead, Block
<1>5. CASE Tick
  BY <1>5 DEF TypeOK, TimedOut, Tick
<1>6. CASE Expire
  BY <1>6 DEF TypeOK, TimedOut, Expire
<1>7. CASE QueueReply
  BY <1>7 DEF TimedOut, QueueReply, waiting
<1>8. ASSUME NEW filter \in SUBSET Ids, NEW i \in Pending, NEW ev \in BOOLEAN,
             QueuePeekEx(filter, i, ev)
      PROVE TimedOut'
  BY <1>8 DEF TimedOut, QueuePeekEx, waiting
<1>9. CASE QueueClear
  BY <1>9 DEF TimedOut, QueueClear, waiting
<1>10. CASE QueueDelete
  BY <1>10 DEF TimedOut, QueueDelete, WakeWaiter
<1>11. CASE UNCHANGED vars
  BY <1>11 DEF TimedOut, vars, waiting
<1> QED
  BY <1>1, <1>2, <1>3, <1>4, <1>5, <1>6, <1>7, <1>8, <1>9, <1>10, <1>11
     DEF Next, QueuePost, QueueSend, QueueSendDisabled

(* The only step that ends a wait after it slept is WaitResume.            *)
LEMMA NotEarlyStep ==
    ASSUME TypeOK, TimedOut, [Next]_vars,
           pc = "ready", pc' = "run", IsEmpty
    PROVE  waited >= asked
<1>1. WaitResume
  <2>1. ~EnableSend /\ ~QueueReply /\ ~QueueClear /\ ~UNCHANGED vars
    BY DEF EnableSend, QueueReply, QueueClear, vars, waiting
  <2>2. \A id \in Ids : ~Write(id)
    BY DEF Write, WakeWaiter
  <2>3. ~Tick /\ ~Expire /\ ~QueueDelete
    BY DEF Tick, Expire, QueueDelete
  <2>4. \A n \in {Forever} \cup 0 .. MaxTicks, ev \in BOOLEAN : ~WaitStart(n, ev)
    BY DEF WaitStart
  <2>5. \A filter \in SUBSET Ids, i \in Pending, ev \in BOOLEAN :
           ~QueuePeekEx(filter, i, ev)
    BY DEF TypeOK, Pending, IsEmpty
  <2> QED
    BY <2>1, <2>2, <2>3, <2>4, <2>5
       DEF Next, QueuePost, QueueSend, QueueSendDisabled
<1>2. ~Block(currSender)
  BY DEF Block
<1> QED
  BY <1>1, <1>2 DEF WaitResume, TimedOut

(* A wait with a timeout is never cut short by an event that another       *)
(* thread or queue_clear took before the owner ran.                        *)
THEOREM WaitsItsTime == Spec => TimeoutNotEarly
<1>1. Init => TimedOut
  BY DEF Init, TimedOut
<1>2. TypeOK /\ NoLostWakeup /\ TimedOut /\ [Next]_vars => TimedOut'
  BY TimedOutStep
<1>3. TypeOK /\ TimedOut /\ [Next]_vars =>
        [pc = "ready" /\ pc' = "run" /\ IsEmpty => waited >= asked]_vars
  BY NotEarlyStep
<1> QED
  BY <1>1, <1>2, <1>3, TypeCorrect, WakeupNotLost, PTL
     DEF Spec, TimeoutNotEarly

-----------------------------------------------------------------------------
(* The invariant behind SenderTracked: the owner answers before it waits   *)
(* again, so no message is being served while it sleeps, and a queue       *)
(* without a sender list has nobody blocked on it.                         *)
NobodyServedInWait == pc # "run" => currSender = None
NobodyWithoutList == ~send => \A t \in Senders : thread[t] = "running"
TrackInv == SenderTracked /\ NobodyServedInWait /\ NobodyWithoutList

(* SenderTracked with the slot that holds the thread spelled out.          *)
LEMMA TrackedBySlot ==
    SenderTracked <=>
        \A t \in Senders : thread[t] = "sending" =>
            t = currSender \/ \E i \in Pending : senders[Slot(i)] = t
BY DEF SenderTracked, PendingSenders

(* The end of a wait: the sender of the event that is taken becomes the    *)
(* current sender, and the other slots keep theirs.                        *)
LEMMA TakeHeadTracks ==
    ASSUME TypeOK, ~IsEmpty, TakeHead(None), UNCHANGED wr,
           NEW t \in Senders, NEW i \in Pending, senders[Slot(i)] = t
    PROVE  t = currSender' \/ \E j \in Pending' : senders'[Slot(j)] = t
<1>1. Slot(i) \in SlotIdx /\ Slot(rd) \in SlotIdx
  BY SlotInRing DEF TypeOK, Pending
<1>2. CASE Slot(i) = Slot(rd)
  BY <1>2, NoneAssumption DEF TakeHead, FetchSender
<1>3. CASE Slot(i) # Slot(rd)
  <2>1. i \in Pending'
    BY <1>3 DEF TypeOK, Pending, TakeHead
  <2>2. senders'[Slot(i)] = t
    BY <1>1, <1>3 DEF TypeOK, TakeHead, FetchSender
  <2> QED
    BY <2>1, <2>2
<1> QED
  BY <1>2, <1>3

(* A write: the slot's former sender is released, the others stay.         *)
LEMMA WriteTracks ==
    ASSUME TypeOK, NEW id \in Ids, Write(id), NEW s,
           senders' = [senders EXCEPT ![Slot(wr)] = s],
           NEW t \in Senders, t # senders[Slot(wr)],
           NEW i \in Pending, senders[Slot(i)] = t
    PROVE  \E j \in Pending' : senders'[Slot(j)] = t
<1>1. i \in Pending'
  BY DEF TypeOK, Pending, Write
<1>2. Slot(i) \in SlotIdx
  BY SlotInRing DEF TypeOK, Pending
<1>3. senders'[Slot(i)] = t
  BY <1>2 DEF TypeOK
<1> QED
  BY <1>1, <1>3

LEMMA TrackInit ==
    Init => TrackInv
BY DEF Init, TrackInv, SenderTracked, NobodyServedInWait, NobodyWithoutList

LEMMA TrackPost ==
    ASSUME TypeOK, NoLostWakeup, TrackInv, NEW id \in Ids, QueuePost(id)
    PROVE  TrackInv'
<1>1. Write(id) /\ senders' = [senders EXCEPT ![Slot(wr)] = None]
      /\ Release({senders[Slot(wr)]}, NoReply)
  BY DEF QueuePost
<1>2. SenderTracked'
  <2> SUFFICES ASSUME NEW t \in Senders, thread'[t] = "sending"
               PROVE  t = currSender' \/ \E j \in Pending' : senders'[Slot(j)] = t
    BY DEF SenderTracked, PendingSenders
  <2>1. t # senders[Slot(wr)] /\ thread[t] = "sending"
    BY <1>1 DEF Release
  <2>2. CASE t = currSender
    BY <1>1, <2>2 DEF Write
  <2>3. ASSUME NEW i \in Pending, senders[Slot(i)] = t
        PROVE  \E j \in Pending' : senders'[Slot(j)] = t
    BY <1>1, <2>1, <2>3, WriteTracks
  <2> QED
    BY <2>1, <2>2, <2>3, TrackedBySlot DEF TrackInv
<1>3. NobodyServedInWait'
  BY <1>1 DEF TypeOK, TrackInv, NobodyServedInWait, Write, WakeWaiter, NoLostWakeup
<1>4. NobodyWithoutList'
  BY <1>1 DEF TrackInv, NobodyWithoutList, Write, Release
<1> QED
  BY <1>2, <1>3, <1>4 DEF TrackInv

LEMMA TrackSend ==
    ASSUME TypeOK, NoLostWakeup, TrackInv, NEW u \in Senders, NEW id \in Ids,
           QueueSend(u, id)
    PROVE  TrackInv'
<1>1. Write(id) /\ senders' = [senders EXCEPT ![Slot(wr)] = u] /\ send
  BY DEF QueueSend
<1>2. SenderTracked'
  <2> SUFFICES ASSUME NEW t \in Senders, thread'[t] = "sending"
               PROVE  t = currSender' \/ \E j \in Pending' : senders'[Slot(j)] = t
    BY DEF SenderTracked, PendingSenders
  <2>1. CASE t = u
    <3>1. wr \in Pending' /\ Slot(wr) \in SlotIdx
      BY <1>1, SlotInRing DEF TypeOK, Pending, Write
    <3>2. senders'[Slot(wr)] = t
      BY <1>1, <2>1, <3>1 DEF TypeOK
    <3> QED
      BY <3>1, <3>2
  <2>2. CASE t # u
    <3>1. t # senders[Slot(wr)] /\ thread[t] = "sending"
      BY <2>2 DEF QueueSend
    <3>2. CASE t = currSender
      BY <1>1, <3>2 DEF Write
    <3>3. ASSUME NEW i \in Pending, senders[Slot(i)] = t
          PROVE  \E j \in Pending' : senders'[Slot(j)] = t
      BY <1>1, <3>1, <3>3, WriteTracks
    <3> QED
      BY <3>1, <3>2, <3>3, TrackedBySlot DEF TrackInv
  <2> QED
    BY <2>1, <2>2
<1>3. NobodyServedInWait'
  BY <1>1 DEF TypeOK, TrackInv, NobodyServedInWait, Write, WakeWaiter, NoLostWakeup
<1>4. NobodyWithoutList'
  BY <1>1 DEF NobodyWithoutList, Write
<1> QED
  BY <1>2, <1>3, <1>4 DEF TrackInv

LEMMA TrackSendDisabled ==
    ASSUME TypeOK, NoLostWakeup, TrackInv, NEW u \in Senders, NEW id \in Ids,
           QueueSendDisabled(u, id)
    PROVE  TrackInv'
<1>1. Write(id) /\ UNCHANGED <<senders, thread>> /\ ~send
  BY DEF QueueSendDisabled, sending
<1>2. \A t \in Senders : thread'[t] = "running"
  BY <1>1 DEF TrackInv, NobodyWithoutList
<1>3. SenderTracked' /\ NobodyWithoutList'
  BY <1>2 DEF SenderTracked, NobodyWithoutList
<1>4. NobodyServedInWait'
  BY <1>1 DEF TypeOK, TrackInv, NobodyServedInWait, Write, WakeWaiter, NoLostWakeup
<1> QED
  BY <1>3, <1>4 DEF TrackInv

LEMMA TrackWaitStart ==
    ASSUME TypeOK, TrackInv, NEW n \in {Forever} \cup 0 .. MaxTicks,
           NEW ev \in BOOLEAN, WaitStart(n, ev)
    PROVE  TrackInv'
<1>1. Release({currSender}, NoReply) /\ UNCHANGED <<wr, send>>
  BY DEF WaitStart
<1>2. ASSUME NEW t \in Senders, thread'[t] = "sending"
      PROVE  /\ thread[t] = "sending"
             /\ \E i \in Pending : senders[Slot(i)] = t
  <2>1. thread[t] = "sending" /\ t # currSender
    BY <1>1, <1>2 DEF Release
  <2> QED
    BY <2>1, TrackedBySlot DEF TrackInv
<1>3. NobodyWithoutList'
  BY <1>1, <1>2 DEF TrackInv, NobodyWithoutList, Release, TypeOK
<1>4. CASE ~IsEmpty /\ TakeHead(None)
  <2>1. SenderTracked'
    <3> SUFFICES ASSUME NEW t \in Senders, thread'[t] = "sending"
                 PROVE  t = currSender' \/ \E j \in Pending' : senders'[Slot(j)] = t
      BY DEF SenderTracked, PendingSenders
    <3> QED
      BY <1>1, <1>2, <1>4, TakeHeadTracks
  <2>2. NobodyServedInWait'
    BY <1>4 DEF NobodyServedInWait, TakeHead
  <2> QED
    BY <1>3, <2>1, <2>2 DEF TrackInv
<1>5. CASE UNCHANGED <<rd, senders>> /\ currSender' = None
  <2>1. SenderTracked'
    BY <1>1, <1>2, <1>5 DEF SenderTracked, PendingSenders, Pending
  <2>2. NobodyServedInWait'
    BY <1>5 DEF NobodyServedInWait
  <2> QED
    BY <1>3, <2>1, <2>2 DEF TrackInv
<1> QED
  BY <1>4, <1>5 DEF WaitStart, LeaveHead, Block

LEMMA TrackWaitResume ==
    ASSUME TypeOK, TrackInv, WaitResume PROVE TrackInv'
<1>1. currSender = None /\ UNCHANGED <<wr, send, thread>>
  BY DEF WaitResume, TrackInv, NobodyServedInWait, sending
<1>2. \A t \in Senders : thread[t] = "sending" =>
         \E i \in Pending : senders[Slot(i)] = t
  BY <1>1, NoneAssumption, TrackedBySlot DEF TrackInv
<1>3. NobodyWithoutList'
  BY <1>1 DEF TrackInv, NobodyWithoutList
<1>4. CASE ~IsEmpty /\ TakeHead(currSender)
  <2>1. SenderTracked'
    <3> SUFFICES ASSUME NEW t \in Senders, thread'[t] = "sending"
                 PROVE  t = currSender' \/ \E j \in Pending' : senders'[Slot(j)] = t
      BY DEF SenderTracked, PendingSenders
    <3>1. thread[t] = "sending"
      BY <1>1
    <3>2. TakeHead(None)
      BY <1>1, <1>4
    <3> QED
      BY <1>1, <1>2, <1>4, <3>1, <3>2, TakeHeadTracks
  <2>2. NobodyServedInWait'
    BY <1>4 DEF NobodyServedInWait, TakeHead
  <2> QED
    BY <1>3, <2>1, <2>2 DEF TrackInv
<1>5. CASE UNCHANGED <<rd, senders, currSender>>
  <2>1. SenderTracked'
    BY <1>1, <1>5 DEF TrackInv, SenderTracked, PendingSenders, Pending
  <2>2. NobodyServedInWait'
    BY <1>1, <1>5 DEF NobodyServedInWait
  <2> QED
    BY <1>3, <2>1, <2>2 DEF TrackInv
<1> QED
  BY <1>4, <1>5 DEF WaitResume, LeaveHead, Block

(* Removing the head: nothing slides, and the slot is emptied.             *)
LEMMA SlideHead ==
    ASSUME TypeOK, NEW S, NEW array \in [SlotIdx -> S]
    PROVE  Slide(array, rd) = array
<1>1. rd + 1 .. rd = {}
  BY DEF TypeOK
<1> QED
  BY <1>1 DEF Slide

LEMMA TrackPeek ==
    ASSUME TypeOK, TrackInv, ~MidRemoval, ~ForeignPeek,
           NEW filter \in SUBSET Ids, NEW i \in Pending, NEW ev \in BOOLEAN,
           QueuePeekEx(filter, i, ev)
    PROVE  TrackInv'
<1>1. pc = "run" /\ i = rd /\ rd' = rd + 1 /\ UNCHANGED <<wr, send, pc>>
  BY DEF QueuePeekEx, waiting
<1>2. senders' = [senders EXCEPT ![Slot(rd)] = None]
  <2>1. [senders EXCEPT ![Slot(rd)] = None] \in [SlotIdx -> Senders \cup {None}]
    BY DEF TypeOK
  <2> QED
    BY <1>1, <2>1, SlideHead DEF QueuePeekEx
<1>3. ASSUME NEW t \in Senders, thread'[t] = "sending"
      PROVE  t = currSender' \/ \E j \in Pending' : senders'[Slot(j)] = t
  <2>1. thread[t] = "sending"
    BY <1>3 DEF QueuePeekEx, Release
  <2>2. CASE t = senders[Slot(rd)]
    BY <1>1, <1>3, <2>2 DEF QueuePeekEx, Release
  <2>3. CASE t # senders[Slot(rd)] /\ t = currSender
    BY <1>1, <1>3, <2>3 DEF QueuePeekEx, Release
  <2>4. ASSUME NEW j \in Pending, senders[Slot(j)] = t, t # senders[Slot(rd)]
        PROVE  \E k \in Pending' : senders'[Slot(k)] = t
    <3>1. j \in Pending'
      BY <1>1, <2>4 DEF TypeOK, Pending
    <3>2. Slot(j) \in SlotIdx
      BY SlotInRing DEF TypeOK, Pending
    <3>3. senders'[Slot(j)] = t
      BY <1>2, <2>4, <3>2 DEF TypeOK
    <3> QED
      BY <3>1, <3>3
  <2> QED
    BY <2>1, <2>2, <2>3, <2>4, TrackedBySlot DEF TrackInv
<1>4. SenderTracked'
  BY <1>3 DEF SenderTracked, PendingSenders
<1>5. NobodyServedInWait'
  BY <1>1 DEF NobodyServedInWait
<1>6. NobodyWithoutList'
  BY <1>1 DEF TrackInv, NobodyWithoutList, QueuePeekEx, Release
<1> QED
  BY <1>4, <1>5, <1>6 DEF TrackInv

LEMMA TrackClear ==
    ASSUME TypeOK, TrackInv, QueueClear PROVE TrackInv'
<1>1. Release(PendingSenders, NoReply) /\ UNCHANGED <<currSender, send, pc>>
  BY DEF QueueClear, waiting
<1>2. ASSUME NEW t \in Senders, thread'[t] = "sending" PROVE t = currSender'
  BY <1>1, <1>2 DEF TrackInv, SenderTracked, Release
<1>3. SenderTracked'
  BY <1>2 DEF SenderTracked
<1>4. NobodyServedInWait' /\ NobodyWithoutList'
  BY <1>1 DEF TrackInv, NobodyServedInWait, NobodyWithoutList, Release
<1> QED
  BY <1>3, <1>4 DEF TrackInv

LEMMA TrackDelete ==
    ASSUME TypeOK, TrackInv, QueueDelete PROVE TrackInv'
<1>1. Release(PendingSenders \cup {currSender}, NoReply) /\ currSender' = None
  BY DEF QueueDelete
<1>2. ASSUME NEW t \in Senders PROVE thread'[t] = "running"
  BY <1>1 DEF TrackInv, SenderTracked, Release, TypeOK
<1> QED
  BY <1>1, <1>2 DEF TrackInv, SenderTracked, NobodyServedInWait, NobodyWithoutList

LEMMA TrackReply ==
    ASSUME TypeOK, TrackInv, QueueReply PROVE TrackInv'
<1>1. /\ Release({currSender}, Answer) /\ currSender' = None
      /\ UNCHANGED <<rd, wr, senders, send>>
  BY DEF QueueReply, slots
<1>2. SenderTracked'
  BY <1>1 DEF TrackInv, SenderTracked, PendingSenders, Pending, Release
<1>3. NobodyServedInWait' /\ NobodyWithoutList'
  BY <1>1 DEF TrackInv, NobodyServedInWait, NobodyWithoutList, Release
<1> QED
  BY <1>2, <1>3 DEF TrackInv

LEMMA TrackStep ==
    ASSUME TypeOK, NoLostWakeup, TrackInv, ~MidRemoval, ~ForeignPeek, [Next]_vars
    PROVE  TrackInv'
<1> USE DEF TrackInv
<1>1. CASE EnableSend
  <2>1. \A t \in Senders : thread'[t] = "running"
    BY <1>1 DEF EnableSend, sending, NobodyWithoutList
  <2> QED
    BY <1>1, <2>1 DEF EnableSend, SenderTracked, NobodyServedInWait, NobodyWithoutList
<1>2. ASSUME NEW id \in Ids, QueuePost(id) PROVE TrackInv'
  BY <1>2, TrackPost
<1>3. ASSUME NEW t \in Senders, NEW id \in Ids, QueueSend(t, id) PROVE TrackInv'
  BY <1>3, TrackSend
<1>4. ASSUME NEW t \in Senders, NEW id \in Ids, QueueSendDisabled(t, id)
      PROVE TrackInv'
  BY <1>4, TrackSendDisabled
<1>5. ASSUME NEW n \in {Forever} \cup 0 .. MaxTicks, NEW ev \in BOOLEAN,
             WaitStart(n, ev)
      PROVE TrackInv'
  BY <1>5, TrackWaitStart
<1>6. CASE WaitResume
  BY <1>6, TrackWaitResume
<1>7. ASSUME UNCHANGED <<rd, wr, senders, currSender, send, thread>>,
             pc' = pc \/ pc = "blocked"
      PROVE TrackInv'
  BY <1>7 DEF SenderTracked, PendingSenders, Pending, NobodyServedInWait,
     NobodyWithoutList
<1>8. CASE Tick \/ Expire \/ UNCHANGED vars
  BY <1>7, <1>8 DEF Tick, Expire, vars, slots, sending, waiting
<1>9. CASE QueueReply
  BY <1>9, TrackReply
<1>10. ASSUME NEW filter \in SUBSET Ids, NEW i \in Pending, NEW ev \in BOOLEAN,
              QueuePeekEx(filter, i, ev)
       PROVE TrackInv'
  BY <1>10, TrackPeek
<1>11. CASE QueueClear
  BY <1>11, TrackClear
<1>12. CASE QueueDelete
  BY <1>12, TrackDelete
<1> QED
  BY <1>1, <1>2, <1>3, <1>4, <1>5, <1>6, <1>8, <1>9, <1>10, <1>11, <1>12
     DEF Next

(* No sender is left behind, on a ring of any length and with any number   *)
(* of senders, overflows included, as long as only the owner removes       *)
(* events and takes them from the head.                                    *)
THEOREM NobodyLeftBehind ==
    ASSUME ~MidRemoval, ~ForeignPeek PROVE Spec => []SenderTracked
<1>1. Init => TrackInv
  BY TrackInit
<1>2. TypeOK /\ NoLostWakeup /\ TrackInv /\ [Next]_vars => TrackInv'
  BY TrackStep
<1>3. TrackInv => SenderTracked
  BY DEF TrackInv
<1> QED
  BY <1>1, <1>2, <1>3, TypeCorrect, WakeupNotLost, PTL DEF Spec

-----------------------------------------------------------------------------
(***************************************************************************)
(* The event queue implements the plain message queue of MessageQueue, and *)
(* a sender waits for its own message, as long as no writer overruns the   *)
(* ring and only the owner removes events, at the head.                    *)
(***************************************************************************)

(* Two counters less than a round apart name two slots.                    *)
LEMMA SlotsApart ==
    ASSUME NEW i \in Nat, NEW j \in Nat,
           i - j < QueueLength, j - i < QueueLength, Slot(i) = Slot(j)
    PROVE  i = j
<1> DEFINE p == i \div QueueLength
           q == j \div QueueLength
<1>1. QueueLength \in Nat /\ QueueLength > 0
  BY LengthAssumption
<1>2. /\ p \in Int /\ q \in Int
      /\ i = QueueLength * p + Slot(i)
      /\ j = QueueLength * q + Slot(j)
  BY <1>1 DEF Slot
<1> HIDE DEF p, q
<1>3. ASSUME NEW a \in Int, NEW b \in Int, a < b
      PROVE  QueueLength * b - QueueLength * a >= QueueLength
  <2>1. QueueLength * b - QueueLength * a = QueueLength * (b - a)
    BY <1>1
  <2>2. b - a >= 1
    BY <1>3
  <2> DEFINE d == b - a
  <2>3. \A c \in Int : c >= 1 => QueueLength * c >= QueueLength
    BY <1>1
  <2> QED
    BY <2>1, <2>2, <2>3
<1>4. Slot(i) \in Int /\ QueueLength * p \in Int /\ QueueLength * q \in Int
  BY <1>1, <1>2, SlotInRing DEF SlotIdx
<1>5. p = q
  BY <1>1, <1>2, <1>3, <1>4
<1> QED
  BY <1>2, <1>5

(* A ring that was never overrun keeps no sender in a slot that is free,   *)
(* and none at all before sending is enabled.                              *)
FreeSlotsClear ==
    \A s \in SlotIdx : s \notin PendingSlots => senders[s] = None
NoListNoSender ==
    ~send => currSender = None /\ \A s \in SlotIdx : senders[s] = None
RingInv ==
    /\ wr - rd <= QueueLength
    /\ FreeSlotsClear
    /\ NoListNoSender

LEMMA RingInit == Init => RingInv
BY LengthAssumption DEF Init, RingInv, FreeSlotsClear, NoListNoSender

(* The slot that is written next is free.                                  *)
LEMMA NextSlotFree ==
    ASSUME TypeOK, RingInv, wr - rd < QueueLength
    PROVE  /\ Slot(wr) \in SlotIdx
           /\ Slot(wr) \notin PendingSlots
           /\ senders[Slot(wr)] = None
<1>1. Slot(wr) \in SlotIdx
  BY SlotInRing DEF TypeOK
<1>2. ASSUME NEW i \in Pending, Slot(i) = Slot(wr) PROVE FALSE
  <2>1. i \in Nat /\ wr \in Nat /\ i < wr /\ wr - i < QueueLength
    BY LengthAssumption DEF TypeOK, Pending
  <2>2. i - wr < QueueLength
    BY <2>1, LengthAssumption
  <2> QED
    BY <1>2, <2>1, <2>2, SlotsApart
<1> QED
  BY <1>1, <1>2 DEF PendingSlots, RingInv, FreeSlotsClear

(* The head leaves: the other pending events keep their slots.             *)
LEMMA HeadLeavesRing ==
    ASSUME TypeOK, RingInv, ~IsEmpty, rd' = rd + 1, wr' = wr,
           senders' = [senders EXCEPT ![Slot(rd)] = None],
           send' = send, NEW t, currSender' = t, ~send => t = None
    PROVE  RingInv'
<1>1. wr' - rd' <= QueueLength
  BY LengthAssumption DEF TypeOK, RingInv
<1>2. ASSUME NEW s \in SlotIdx, s \notin PendingSlots', s # Slot(rd)
      PROVE  s \notin PendingSlots
  BY <1>2 DEF TypeOK, PendingSlots, Pending
<1>3. FreeSlotsClear'
  BY <1>2 DEF TypeOK, RingInv, FreeSlotsClear
<1>4. NoListNoSender'
  BY DEF TypeOK, RingInv, NoListNoSender
<1> QED
  BY <1>1, <1>3, <1>4 DEF RingInv

LEMMA TakeHeadKeepsRing ==
    ASSUME TypeOK, RingInv, ~IsEmpty, TakeHead(None), UNCHANGED <<wr, send>>
    PROVE  RingInv'
<1>1. Slot(rd) \in SlotIdx
  BY SlotInRing DEF TypeOK
<1>2. /\ currSender' = senders[Slot(rd)]
      /\ senders' = [senders EXCEPT ![Slot(rd)] = None] /\ rd' = rd + 1
  BY DEF TakeHead, FetchSender
<1>3. ~send => senders[Slot(rd)] = None
  BY <1>1 DEF RingInv, NoListNoSender
<1> QED
  BY <1>2, <1>3, HeadLeavesRing

LEMMA WriteKeepsRing ==
    ASSUME TypeOK, RingInv, ~Overflow, NEW id \in Ids, Write(id),
           NEW t, senders' = [senders EXCEPT ![Slot(wr)] = t], ~send => t = None
    PROVE  RingInv'
<1>1. wr - rd < QueueLength /\ rd' = rd /\ wr' = wr + 1
      /\ UNCHANGED <<send, currSender>>
  BY DEF Write
<1>2. wr' - rd' <= QueueLength
  BY <1>1, LengthAssumption DEF TypeOK
<1>3. ASSUME NEW s \in SlotIdx, s \notin PendingSlots'
      PROVE  s \notin PendingSlots /\ s # Slot(wr)
  BY <1>1, <1>3 DEF TypeOK, PendingSlots, Pending
<1>4. FreeSlotsClear'
  BY <1>3 DEF TypeOK, RingInv, FreeSlotsClear
<1>5. NoListNoSender'
  BY <1>1 DEF TypeOK, RingInv, NoListNoSender
<1> QED
  BY <1>2, <1>4, <1>5 DEF RingInv

(* The ring is emptied.                                                    *)
LEMMA EmptyKeepsRing ==
    ASSUME TypeOK, RingInv, rd' = wr, wr' = wr, ForgetSenders,
           UNCHANGED <<currSender, send>> \/ currSender' = None
    PROVE  RingInv'
<1>1. wr' - rd' <= QueueLength
  BY LengthAssumption DEF TypeOK
<1>2. \A s \in SlotIdx : senders'[s] = None
  BY DEF ForgetSenders, RingInv, FreeSlotsClear
<1>3. FreeSlotsClear' /\ NoListNoSender'
  BY <1>2 DEF RingInv, FreeSlotsClear, NoListNoSender
<1> QED
  BY <1>1, <1>3 DEF RingInv

(* A removal by the owner is of the head.                                  *)
LEMMA PeekIsHead ==
    ASSUME TypeOK, ~MidRemoval, NEW filter \in SUBSET Ids, NEW i \in Pending,
           NEW ev \in BOOLEAN, QueuePeekEx(filter, i, ev)
    PROVE  /\ i = rd /\ ~IsEmpty /\ rd' = rd + 1
           /\ events' = events
           /\ senders' = [senders EXCEPT ![Slot(rd)] = None]
<1>1. i = rd /\ ~IsEmpty /\ rd' = rd + 1
  BY DEF QueuePeekEx, TypeOK, Pending, IsEmpty
<1>2. [senders EXCEPT ![Slot(rd)] = None] \in [SlotIdx -> Senders \cup {None}]
  BY DEF TypeOK
<1>3. events \in [SlotIdx -> Events]
  BY DEF TypeOK
<1> QED
  BY <1>1, <1>2, <1>3, SlideHead DEF QueuePeekEx

LEMMA RingStep ==
    ASSUME TypeOK, RingInv, NobodyServedInWait, ~Overflow, ~MidRemoval, [Next]_vars
    PROVE  RingInv'
<1> USE NoneAssumption
<1>1. ASSUME UNCHANGED <<rd, wr, senders, currSender, send>>
      PROVE  RingInv'
  BY <1>1 DEF RingInv, FreeSlotsClear, NoListNoSender, PendingSlots, Pending
<1>2. CASE EnableSend
  BY <1>2 DEF EnableSend, RingInv, FreeSlotsClear, NoListNoSender
<1>3. ASSUME NEW id \in Ids, QueuePost(id) PROVE RingInv'
  BY <1>3, WriteKeepsRing DEF QueuePost
<1>4. ASSUME NEW t \in Senders, NEW id \in Ids, QueueSend(t, id) PROVE RingInv'
  BY <1>4, WriteKeepsRing DEF QueueSend
<1>5. ASSUME NEW t \in Senders, NEW id \in Ids, QueueSendDisabled(t, id)
      PROVE RingInv'
  <2>1. Write(id) /\ senders' = senders
    BY <1>5 DEF QueueSendDisabled
  <2>2. wr - rd < QueueLength
    BY <2>1 DEF Write
  <2>3. senders' = [senders EXCEPT ![Slot(wr)] = None]
    BY <2>1, <2>2, NextSlotFree DEF TypeOK
  <2> QED
    BY <2>1, <2>3, WriteKeepsRing
<1>6. ASSUME NEW n \in {Forever} \cup 0 .. MaxTicks, NEW ev \in BOOLEAN,
             WaitStart(n, ev)
      PROVE RingInv'
  <2>1. CASE ~IsEmpty /\ TakeHead(None)
    BY <1>6, <2>1, TakeHeadKeepsRing DEF WaitStart
  <2>2. CASE UNCHANGED <<rd, senders>> /\ currSender' = None
    BY <1>6, <2>2 DEF WaitStart, RingInv, FreeSlotsClear, NoListNoSender,
       PendingSlots, Pending
  <2> QED
    BY <1>6, <2>1, <2>2 DEF WaitStart, LeaveHead, Block
<1>7. CASE WaitResume
  <2>1. currSender = None /\ UNCHANGED <<wr, send>>
    BY <1>7 DEF WaitResume, NobodyServedInWait
  <2>2. CASE ~IsEmpty /\ TakeHead(currSender)
    BY <2>1, <2>2, TakeHeadKeepsRing
  <2>3. CASE UNCHANGED <<rd, senders, currSender>>
    BY <1>1, <2>1, <2>3
  <2> QED
    BY <1>7, <2>2, <2>3 DEF WaitResume, LeaveHead, Block
<1>8. CASE Tick \/ Expire \/ UNCHANGED vars
  BY <1>1, <1>8 DEF Tick, Expire, vars, slots
<1>9. CASE QueueReply
  BY <1>9 DEF QueueReply, slots, RingInv, FreeSlotsClear, NoListNoSender,
     PendingSlots, Pending
<1>10. ASSUME NEW filter \in SUBSET Ids, NEW i \in Pending, NEW ev \in BOOLEAN,
              QueuePeekEx(filter, i, ev)
       PROVE RingInv'
  <2>1. /\ ~IsEmpty /\ rd' = rd + 1 /\ i = rd
        /\ senders' = [senders EXCEPT ![Slot(rd)] = None]
    BY <1>10, PeekIsHead
  <2>2. Slot(rd) \in SlotIdx
    BY SlotInRing DEF TypeOK
  <2>3. UNCHANGED <<wr, send>> /\ (~send => currSender' = None)
    BY <1>10, <2>1, <2>2 DEF QueuePeekEx, RingInv, NoListNoSender
  <2> QED
    BY <2>1, <2>3, HeadLeavesRing
<1>11. CASE QueueClear
  BY <1>11, EmptyKeepsRing DEF QueueClear
<1>12. CASE QueueDelete
  BY <1>12, EmptyKeepsRing DEF QueueDelete
<1> QED
  BY <1>2, <1>3, <1>4, <1>5, <1>6, <1>7, <1>8, <1>9, <1>10, <1>11, <1>12
     DEF Next

-----------------------------------------------------------------------------
(* Contents is a sequence, and how it changes with the ring.               *)
Entry(ev, sd, i) == [msg |-> ev[Slot(i)], from |-> sd[Slot(i)]]
View(ev, sd, r, w) == [k \in 1 .. w - r |-> Entry(ev, sd, r + k - 1)]

Messages == [msg : Events, from : Senders \cup {None}]

IsRing(ev, sd, r, w) ==
    /\ ev \in [SlotIdx -> Events] /\ sd \in [SlotIdx -> Senders \cup {None}]
    /\ r \in Nat /\ w \in Nat /\ r <= w

LEMMA SeqOf ==
    ASSUME NEW S, NEW n \in Nat, NEW f \in [1 .. n -> S]
    PROVE  f \in Seq(S) /\ Len(f) = n
OBVIOUS

LEMMA ViewIs ==
    ASSUME NEW ev, NEW sd, NEW r, NEW w, IsRing(ev, sd, r, w)
    PROVE  /\ View(ev, sd, r, w) \in Seq(Messages)
           /\ Len(View(ev, sd, r, w)) = w - r /\ w - r \in Nat
           /\ \A k \in 1 .. w - r : View(ev, sd, r, w)[k] = Entry(ev, sd, r + k - 1)
<1> DEFINE n == w - r
           f == View(ev, sd, r, w)
<1>1. n \in Nat
  BY DEF IsRing
<1>2. ASSUME NEW k \in 1 .. n
      PROVE  Entry(ev, sd, r + k - 1) \in Messages
  <2>1. Slot(r + k - 1) \in SlotIdx
    BY SlotInRing DEF IsRing
  <2> QED
    BY <2>1 DEF Entry, Messages, IsRing
<1>3. f \in [1 .. n -> Messages] /\ \A k \in 1 .. n : f[k] = Entry(ev, sd, r + k - 1)
  BY <1>2 DEF View
<1> HIDE DEF n, f
<1>4. f \in Seq(Messages) /\ Len(f) = n
  BY <1>1, <1>3, SeqOf
<1> QED
  BY <1>1, <1>3, <1>4 DEF n, f

LEMMA ContentsIs ==
    ASSUME TypeOK
    PROVE  /\ Contents \in Seq(Messages)
           /\ Len(Contents) = wr - rd /\ wr - rd \in Nat
           /\ Contents = <<>> <=> IsEmpty
           /\ \A k \in 1 .. wr - rd : Contents[k] = Entry(events, senders, rd + k - 1)
<1>1. Contents = View(events, senders, rd, wr)
  BY DEF Contents, View, Entry
<1>2. IsRing(events, senders, rd, wr)
  BY DEF TypeOK, IsRing
<1>3. Contents \in Seq(Messages) /\ Len(Contents) = wr - rd /\ wr - rd \in Nat
      /\ \A k \in 1 .. wr - rd : Contents[k] = Entry(events, senders, rd + k - 1)
  BY <1>1, <1>2, ViewIs
<1>4. Contents = <<>> <=> Len(Contents) = 0
  BY <1>3, EmptySeq
<1> QED
  BY <1>3, <1>4 DEF TypeOK, IsEmpty

LEMMA NextContentsIs ==
    ASSUME TypeOK'
    PROVE  /\ Contents' \in Seq(Messages)
           /\ Len(Contents') = wr' - rd'
           /\ \A k \in 1 .. wr' - rd' :
                Contents'[k] = Entry(events', senders', rd' + k - 1)
<1>1. Contents' = View(events', senders', rd', wr')
  BY DEF Contents, View, Entry
<1>2. IsRing(events', senders', rd', wr')
  BY DEF TypeOK, IsRing
<1> QED
  BY <1>1, <1>2, ViewIs

LEMMA ContentsStay ==
    ASSUME UNCHANGED <<rd, wr, events, senders>>
    PROVE  Contents' = Contents
BY DEF Contents

(* What is written goes to the end.                                        *)
LEMMA ContentsGrow ==
    ASSUME TypeOK, TypeOK', RingInv, ~Overflow, NEW id \in Ids, Write(id),
           NEW t \in Senders \cup {None}, senders' = [senders EXCEPT ![Slot(wr)] = t]
    PROVE  Contents' = Append(Contents, Promise!Message(id, t))
<1> DEFINE n == wr - rd
           e == Promise!Message(id, t)
<1>1. n < QueueLength /\ rd' = rd /\ wr' = wr + 1
      /\ events' = [events EXCEPT ![Slot(wr)] = [id |-> id, seq |-> wr]]
  BY DEF Write
<1>2. Slot(wr) \in SlotIdx /\ Slot(wr) \notin PendingSlots
  BY <1>1, NextSlotFree
<1>3. /\ Contents \in Seq(Messages) /\ Len(Contents) = n /\ n \in Nat
      /\ \A k \in 1 .. n : Contents[k] = Entry(events, senders, rd + k - 1)
  BY ContentsIs
<1>4. /\ Contents' \in Seq(Messages) /\ Len(Contents') = wr' - rd'
      /\ \A k \in 1 .. wr' - rd' : Contents'[k] = Entry(events', senders', rd' + k - 1)
  BY NextContentsIs
<1>5. wr' - rd' = n + 1
  BY <1>1 DEF TypeOK
<1>6. ASSUME NEW k \in 1 .. n PROVE Contents'[k] = Contents[k]
  <2>1. rd + k - 1 \in Pending
    BY <1>6 DEF TypeOK, Pending
  <2>2. Slot(rd + k - 1) # Slot(wr) /\ Slot(rd + k - 1) \in SlotIdx
    BY <1>2, <2>1, SlotInRing DEF TypeOK, Pending, PendingSlots
  <2>3. k \in 1 .. n + 1
    BY <1>3, <1>6
  <2> QED
    BY <1>1, <1>3, <1>4, <1>5, <2>2, <2>3 DEF TypeOK, Entry
<1>7. Contents'[n + 1] = e
  <2>1. n + 1 \in 1 .. n + 1 /\ rd + (n + 1) - 1 = wr
    BY <1>3 DEF TypeOK
  <2> QED
    BY <1>1, <1>2, <1>4, <1>5, <2>1 DEF TypeOK, Entry, Promise!Message
<1>8. e \in Messages
  BY DEF Messages, Promise!Message, Events, TypeOK
<1> HIDE DEF n, e
<1>9. /\ Append(Contents, e) \in Seq(Messages) /\ Len(Append(Contents, e)) = n + 1
      /\ \A k \in 1 .. n : Append(Contents, e)[k] = Contents[k]
      /\ Append(Contents, e)[n + 1] = e
  BY <1>3, <1>8, AppendProperties
<1>10. \A k \in 1 .. n + 1 : Contents'[k] = Append(Contents, e)[k]
  BY <1>3, <1>6, <1>7, <1>9
<1>11. Contents' = Append(Contents, e)
  BY <1>4, <1>5, <1>9, <1>10, SeqEqual
<1> QED
  BY <1>11 DEF e

(* What is taken is taken from the front.                                  *)
LEMMA ContentsShrink ==
    ASSUME TypeOK, TypeOK', RingInv, ~IsEmpty, rd' = rd + 1,
           UNCHANGED <<wr, events>>, senders' = [senders EXCEPT ![Slot(rd)] = None]
    PROVE  /\ Contents # <<>>
           /\ Head(Contents) = Entry(events, senders, rd)
           /\ Contents' = Tail(Contents)
<1> DEFINE n == wr - rd
<1>1. /\ Contents \in Seq(Messages) /\ Len(Contents) = n /\ n \in Nat /\ Contents # <<>>
      /\ \A k \in 1 .. n : Contents[k] = Entry(events, senders, rd + k - 1)
  BY ContentsIs
<1>2. n >= 1
  BY <1>1 DEF TypeOK, IsEmpty
<1>3. /\ Contents' \in Seq(Messages) /\ Len(Contents') = wr' - rd'
      /\ \A k \in 1 .. wr' - rd' : Contents'[k] = Entry(events', senders', rd' + k - 1)
  BY NextContentsIs
<1>4. wr' - rd' = n - 1
  BY DEF TypeOK
<1>5. Head(Contents) = Entry(events, senders, rd)
  <2>1. Head(Contents) = Contents[1] /\ rd + 1 - 1 = rd
    BY <1>1, <1>2 DEF TypeOK
  <2> QED
    BY <1>1, <1>2, <2>1
<1>6. ASSUME NEW k \in 1 .. n - 1 PROVE Contents'[k] = Contents[k + 1]
  <2>1. /\ k + 1 \in 1 .. n /\ rd + k \in Nat /\ rd + k < wr
        /\ rd' + k - 1 = rd + k /\ rd + (k + 1) - 1 = rd + k
    BY <1>1, <1>6 DEF TypeOK
  <2>2. Slot(rd + k) # Slot(rd)
    <3>1. (rd + k) - rd < QueueLength /\ rd - (rd + k) < QueueLength /\ rd + k # rd
      BY <1>6, <2>1, LengthAssumption DEF TypeOK, RingInv
    <3> QED
      BY <2>1, <3>1, SlotsApart DEF TypeOK
  <2>3. Slot(rd + k) \in SlotIdx /\ Slot(rd) \in SlotIdx
    BY <2>1, SlotInRing DEF TypeOK
  <2>4. Entry(events', senders', rd + k) = Entry(events, senders, rd + k)
    BY <2>2, <2>3 DEF TypeOK, Entry
  <2> QED
    BY <1>1, <1>3, <1>4, <2>1, <2>4
<1> HIDE DEF n
<1>7. /\ Tail(Contents) \in Seq(Messages) /\ Len(Tail(Contents)) = n - 1
      /\ \A k \in 1 .. n - 1 : Tail(Contents)[k] = Contents[k + 1]
  BY <1>1, <1>2, HeadTailProperties
<1>8. Contents' = Tail(Contents)
  BY <1>3, <1>4, <1>6, <1>7, SeqEqual
<1> QED
  BY <1>1, <1>5, <1>8

-----------------------------------------------------------------------------
(* Each action of the queue is a step of MessageQueue, or none.            *)
LEMMA ReleaseReturns ==
    ASSUME NEW refs, NEW value, Release(refs, value)
    PROVE  Promise!Return(refs, value)
BY DEF Release, Promise!Return

LEMMA NobodyReturns ==
    ASSUME TypeOK, UNCHANGED <<thread, retval>>
    PROVE  Promise!Return({None}, NoReply)
BY NoneAssumption DEF TypeOK, Promise!Return

LEMMA PostMaps ==
    ASSUME TypeOK, TypeOK', RingInv, ~Overflow, NEW id \in Ids,
           QueuePost(id) \/ \E t \in Senders : QueueSendDisabled(t, id)
    PROVE  Promise!Post(id)
<1>1. Write(id)
  BY DEF QueuePost, QueueSendDisabled
<1>2. senders[Slot(wr)] = None /\ Slot(wr) \in SlotIdx
  BY <1>1, NextSlotFree DEF Write
<1>3. senders' = [senders EXCEPT ![Slot(wr)] = None]
  BY <1>2 DEF TypeOK, QueuePost, QueueSendDisabled
<1>4. Contents' = Append(Contents, Promise!Message(id, None))
  BY <1>1, <1>3, ContentsGrow
<1>5. UNCHANGED <<thread, retval>>
  BY <1>2, NoneAssumption DEF TypeOK, QueuePost, Release, QueueSendDisabled, sending
<1> QED
  BY <1>1, <1>4, <1>5 DEF Write, Promise!Post

LEMMA SendMaps ==
    ASSUME TypeOK, TypeOK', RingInv, ~Overflow, NEW t \in Senders, NEW id \in Ids,
           QueueSend(t, id)
    PROVE  Promise!Send(t, id)
<1>1. Write(id) /\ senders' = [senders EXCEPT ![Slot(wr)] = t] /\ thread[t] = "running"
  BY DEF QueueSend
<1>2. senders[Slot(wr)] = None
  BY <1>1, NextSlotFree DEF Write
<1>3. Contents' = Append(Contents, Promise!Message(id, t))
  BY <1>1, ContentsGrow
<1>4. thread' = [thread EXCEPT ![t] = "sending"] /\ retval' = retval
  <2>1. \A u \in Senders : u # senders[Slot(wr)]
    BY <1>2, NoneAssumption
  <2>2. thread' = [u \in Senders |-> IF u = t THEN "sending" ELSE thread[u]]
    BY <2>1 DEF QueueSend
  <2>3. retval' = [u \in Senders |-> retval[u]]
    BY <2>1 DEF QueueSend
  <2> QED
    BY <2>2, <2>3 DEF TypeOK
<1> QED
  BY <1>1, <1>3, <1>4 DEF Write, Promise!Send

(* The head is taken: by a wait, or by a removal that returns it.          *)
LEMMA TakeMaps ==
    ASSUME TypeOK, TypeOK', RingInv, ~IsEmpty, rd' = rd + 1,
           UNCHANGED <<wr, events>>, senders' = [senders EXCEPT ![Slot(rd)] = None],
           got' = events[Slot(rd)], currSender' = senders[Slot(rd)],
           Promise!Return({currSender}, NoReply)
    PROVE  Promise!Receive
<1>1. Contents # <<>> /\ Head(Contents) = Entry(events, senders, rd)
      /\ Contents' = Tail(Contents)
  BY ContentsShrink
<1> QED
  BY <1>1 DEF Entry, Promise!Receive, Promise!NoReply, NoReply

LEMMA WaitStartMaps ==
    ASSUME TypeOK, TypeOK', RingInv, NEW n \in {Forever} \cup 0 .. MaxTicks,
           NEW ev \in BOOLEAN, WaitStart(n, ev)
    PROVE  Promise!Next
<1>1. Promise!Return({currSender}, NoReply) /\ UNCHANGED <<wr, events>>
  BY ReleaseReturns DEF WaitStart
<1>2. CASE ~IsEmpty /\ TakeHead(None)
  <2>1. /\ rd' = rd + 1 /\ got' = events[Slot(rd)]
        /\ currSender' = senders[Slot(rd)]
        /\ senders' = [senders EXCEPT ![Slot(rd)] = None]
    BY <1>2 DEF TakeHead, FetchSender
  <2> QED
    BY <1>1, <1>2, <2>1, TakeMaps DEF Promise!Next
<1>3. CASE /\ UNCHANGED <<rd, senders>> /\ currSender' = None
           /\ got' = got \/ (IsEmpty /\ got' = Timeout)
  <2>1. Contents' = Contents /\ (IsEmpty <=> Contents = <<>>)
    BY <1>1, <1>3, ContentsStay, ContentsIs
  <2>2. Promise!PassOver
    BY <1>1, <1>3, <2>1 DEF Promise!PassOver, Promise!Timeout, Timeout,
       Promise!NoReply, NoReply
  <2> QED
    BY <2>2 DEF Promise!Next
<1> QED
  BY <1>2, <1>3 DEF WaitStart, LeaveHead, Block

LEMMA WaitResumeMaps ==
    ASSUME TypeOK, TypeOK', RingInv, NobodyServedInWait, WaitResume
    PROVE  [Promise!Next]_Promise!vars
<1>1. currSender = None /\ UNCHANGED <<wr, events, thread, retval>>
  BY DEF WaitResume, NobodyServedInWait, sending
<1>2. Promise!Return({currSender}, NoReply)
  BY <1>1, NobodyReturns
<1>3. CASE ~IsEmpty /\ TakeHead(currSender)
  <2>1. /\ rd' = rd + 1 /\ got' = events[Slot(rd)]
        /\ currSender' = senders[Slot(rd)]
        /\ senders' = [senders EXCEPT ![Slot(rd)] = None]
    BY <1>1, <1>3 DEF TakeHead, FetchSender
  <2> QED
    BY <1>1, <1>2, <1>3, <2>1, TakeMaps DEF Promise!Next
<1>4. CASE UNCHANGED <<rd, senders, currSender, got>>
  BY <1>1, <1>4, ContentsStay DEF Promise!vars
<1>5. CASE UNCHANGED <<rd, senders, currSender>> /\ IsEmpty /\ got' = Timeout
  <2>1. Contents' = Contents /\ Contents = <<>>
    BY <1>1, <1>5, ContentsStay, ContentsIs
  <2>2. Promise!PassOver
    BY <1>1, <1>2, <1>5, <2>1 DEF Promise!PassOver, Promise!Timeout, Timeout,
       Promise!NoReply, NoReply
  <2> QED
    BY <2>2 DEF Promise!Next
<1> QED
  BY <1>3, <1>4, <1>5 DEF WaitResume, LeaveHead, Block

LEMMA ReplyMaps ==
    ASSUME QueueReply PROVE Promise!Reply
<1>1. Promise!Return({currSender}, Answer)
  BY ReleaseReturns DEF QueueReply
<1>2. Contents' = Contents
  BY ContentsStay DEF QueueReply, slots
<1> QED
  BY <1>1, <1>2 DEF QueueReply, Promise!Reply, Promise!Answer, Answer

LEMMA PeekMaps ==
    ASSUME TypeOK, TypeOK', RingInv, ~MidRemoval, NEW filter \in SUBSET Ids,
           NEW i \in Pending, NEW ev \in BOOLEAN, QueuePeekEx(filter, i, ev)
    PROVE  Promise!Receive \/ Promise!DropHead
<1>1. /\ i = rd /\ ~IsEmpty /\ rd' = rd + 1 /\ UNCHANGED <<wr, events>>
      /\ senders' = [senders EXCEPT ![Slot(rd)] = None]
  BY PeekIsHead DEF QueuePeekEx
<1>2. CASE ev
  <2>1. /\ Promise!Return({currSender}, NoReply)
        /\ currSender' = senders[Slot(rd)] /\ got' = events[Slot(rd)]
    BY <1>1, <1>2, ReleaseReturns DEF QueuePeekEx
  <2> QED
    BY <1>1, <2>1, TakeMaps
<1>3. CASE ~ev
  <2>1. Promise!Return({senders[Slot(rd)]}, NoReply) /\ UNCHANGED <<currSender, got>>
    BY <1>1, <1>3, ReleaseReturns DEF QueuePeekEx
  <2>2. Contents # <<>> /\ Head(Contents) = Entry(events, senders, rd)
        /\ Contents' = Tail(Contents)
    BY <1>1, ContentsShrink
  <2>3. Head(Contents).from = senders[Slot(rd)]
    BY <2>2 DEF Entry
  <2> QED
    BY <1>1, <2>1, <2>2, <2>3 DEF Promise!DropHead, Promise!NoReply, NoReply
<1> QED
  BY <1>2, <1>3

(* The senders in the slots of pending events are those of the messages.   *)
LEMMA PendingFrom ==
    ASSUME TypeOK PROVE Promise!FromAll = PendingSenders
<1>1. /\ DOMAIN Contents = 1 .. wr - rd
      /\ \A k \in 1 .. wr - rd : Contents[k].from = senders[Slot(rd + k - 1)]
  BY DEF Contents
<1>2. ASSUME NEW i \in Pending
      PROVE  i - rd + 1 \in 1 .. wr - rd /\ rd + (i - rd + 1) - 1 = i
  BY DEF TypeOK, Pending
<1>3. ASSUME NEW k \in 1 .. wr - rd
      PROVE  rd + k - 1 \in Pending
  BY DEF TypeOK, Pending
<1>4. ASSUME NEW t \in PendingSenders PROVE t \in Promise!FromAll
  <2>1. PICK i \in Pending : t = senders[Slot(i)]
    BY <1>4 DEF PendingSenders
  <2>2. Contents[i - rd + 1].from = t
    BY <1>1, <1>2, <2>1
  <2> QED
    BY <1>1, <1>2, <2>2 DEF Promise!FromAll
<1>5. ASSUME NEW t \in Promise!FromAll PROVE t \in PendingSenders
  <2>1. PICK k \in 1 .. wr - rd : t = senders[Slot(rd + k - 1)]
    BY <1>1 DEF Promise!FromAll
  <2> QED
    BY <1>3, <2>1 DEF PendingSenders
<1> QED
  BY <1>4, <1>5

LEMMA EmptyMaps ==
    ASSUME TypeOK, TypeOK', QueueClear \/ QueueDelete
    PROVE  Promise!DropAll \/ Promise!Close
<1>1. Contents' = <<>>
  <2>1. rd' = wr /\ wr' = wr
    BY DEF QueueClear, QueueDelete
  <2>2. wr' - rd' = 0
    BY <2>1 DEF TypeOK
  <2> QED
    BY <2>2, NextContentsIs, EmptySeq
<1>2. CASE QueueClear
  <2>1. Promise!Return(PendingSenders, NoReply)
    BY <1>2, ReleaseReturns DEF QueueClear
  <2> QED
    BY <1>1, <1>2, <2>1, PendingFrom DEF QueueClear, Promise!DropAll,
       Promise!NoReply, NoReply
<1>3. CASE QueueDelete
  <2>1. Promise!Return(PendingSenders \cup {currSender}, NoReply)
    BY <1>3, ReleaseReturns DEF QueueDelete
  <2> QED
    BY <1>1, <1>3, <2>1, PendingFrom DEF QueueDelete, Promise!Close,
       Promise!NoReply, NoReply
<1> QED
  BY <1>2, <1>3

(* Sending is enabled: there is no sender to forget.                       *)
LEMMA EnableMaps ==
    ASSUME TypeOK, RingInv, EnableSend PROVE UNCHANGED Promise!vars
<1>1. senders' = senders /\ currSender' = currSender
  BY DEF TypeOK, EnableSend, RingInv, NoListNoSender
<1> QED
  BY <1>1, ContentsStay DEF EnableSend, sending, Promise!vars

LEMMA PromiseStep ==
    ASSUME TypeOK, TypeOK', RingInv, NobodyServedInWait, ~Overflow, ~MidRemoval,
           [Next]_vars
    PROVE  [Promise!Next]_Promise!vars
<1>1. CASE EnableSend
  BY <1>1, EnableMaps
<1>2. ASSUME NEW id \in Ids,
             QueuePost(id) \/ \E t \in Senders : QueueSendDisabled(t, id)
      PROVE  Promise!Next
  BY <1>2, PostMaps DEF Promise!Next
<1>3. ASSUME NEW t \in Senders, NEW id \in Ids, QueueSend(t, id)
      PROVE  Promise!Next
  BY <1>3, SendMaps DEF Promise!Next
<1>4. ASSUME NEW n \in {Forever} \cup 0 .. MaxTicks, NEW ev \in BOOLEAN,
             WaitStart(n, ev)
      PROVE  Promise!Next
  BY <1>4, WaitStartMaps
<1>5. CASE WaitResume
  BY <1>5, WaitResumeMaps
<1>6. CASE Tick \/ Expire \/ UNCHANGED vars
  BY <1>6, ContentsStay DEF Tick, Expire, vars, slots, sending, waiting, Promise!vars
<1>7. CASE QueueReply
  BY <1>7, ReplyMaps DEF Promise!Next
<1>8. ASSUME NEW filter \in SUBSET Ids, NEW i \in Pending, NEW ev \in BOOLEAN,
             QueuePeekEx(filter, i, ev)
      PROVE  Promise!Next
  BY <1>8, PeekMaps DEF Promise!Next
<1>9. CASE QueueClear \/ QueueDelete
  BY <1>9, EmptyMaps DEF Promise!Next
<1> QED
  BY <1>1, <1>2, <1>3, <1>4, <1>5, <1>6, <1>7, <1>8, <1>9 DEF Next

LEMMA PromiseInit == Init => Promise!Init
<1> SUFFICES ASSUME Init PROVE Promise!Init
  OBVIOUS
<1>1. TypeOK /\ IsEmpty
  BY TypeInit DEF Init, IsEmpty
<1>2. Contents = <<>>
  BY <1>1, ContentsIs
<1> QED
  BY <1>2 DEF Init, Promise!Init, Promise!Timeout, Timeout, Promise!NoReply, NoReply

(* The ring, its sender map and its wakeups implement MessageQueue: no     *)
(* message is lost, doubled or overtaken, and a sender comes back with the *)
(* answer to its own message or with none.                                 *)
THEOREM QueueKeepsPromise ==
    ASSUME ~Overflow, ~MidRemoval, ~ForeignPeek PROVE Spec => ImplementsPromise
<1>1. Init => TrackInv /\ RingInv
  BY TrackInit, RingInit
<1>2. TypeOK /\ NoLostWakeup /\ TrackInv /\ RingInv /\ [Next]_vars
        => TrackInv' /\ RingInv'
  BY TrackStep, RingStep DEF TrackInv
<1>3. TypeOK /\ TypeOK' /\ TrackInv /\ RingInv /\ [Next]_vars
        => [Promise!Next]_Promise!vars
  BY PromiseStep DEF TrackInv
<1> QED
  BY <1>1, <1>2, <1>3, PromiseInit, TypeCorrect, WakeupNotLost, PTL
     DEF Spec, ImplementsPromise, Promise!Spec

-----------------------------------------------------------------------------
(* The invariant behind HandledBeforeReturn: the number of an event tells  *)
(* where it is, a sender whose event is pending stands in that slot and is *)
(* blocked, nobody stands in two slots, and the message that is being      *)
(* served has left the ring.                                               *)
Numbered == \A i \in Pending : events[Slot(i)].seq = i
SentBefore == \A t \in Senders : sent[t] < wr
SenderInSlot ==
    \A t \in Senders : sent[t] \in Pending =>
        senders[Slot(sent[t])] = t /\ thread[t] = "sending"
SlotOfSender ==
    \A i \in Pending : senders[Slot(i)] # None => sent[senders[Slot(i)]] = i
ServedIsOut ==
    currSender # None => sent[currSender] < rd /\ thread[currSender] = "sending"
SentInv == Numbered /\ SentBefore /\ SenderInSlot /\ SlotOfSender /\ ServedIsOut

LEMMA SentInit == Init => SentInv
BY DEF Init, SentInv, Numbered, SentBefore, SenderInSlot, SlotOfSender,
   ServedIsOut, Pending, Never

LEMMA SentTells == SentInv => HandledBeforeReturn
BY DEF SentInv, Numbered, SenderInSlot, HandledBeforeReturn

LEMMA NothingSent ==
    ASSUME SentInv,
           UNCHANGED <<rd, wr, events, senders, currSender, thread, sent>>
    PROVE  SentInv'
BY DEF SentInv, Numbered, SentBefore, SenderInSlot, SlotOfSender, ServedIsOut,
   Pending

(* Whoever stands in a slot is not being served.                           *)
LEMMA HeadIsOther ==
    ASSUME TypeOK, SentInv, NEW i \in Pending, senders[Slot(i)] # None
    PROVE  /\ senders[Slot(i)] \in Senders /\ senders[Slot(i)] # currSender
           /\ thread[senders[Slot(i)]] = "sending"
<1>1. Slot(i) \in SlotIdx
  BY SlotInRing DEF TypeOK, Pending
<1>2. senders[Slot(i)] \in Senders
  BY <1>1 DEF TypeOK
<1>3. sent[senders[Slot(i)]] = i
  BY DEF SentInv, SlotOfSender
<1>4. ~(i < rd)
  BY DEF TypeOK, Pending
<1> QED
  BY <1>2, <1>3, <1>4 DEF SentInv, ServedIsOut, SenderInSlot

(* A write leaves what was pending where it was.                           *)
LEMMA WriteApart ==
    ASSUME TypeOK, RingInv, ~Overflow, NEW id \in Ids, Write(id)
    PROVE  /\ Slot(wr) \in SlotIdx /\ senders[Slot(wr)] = None
           /\ Pending' = Pending \cup {wr}
           /\ \A i \in Pending : Slot(i) \in SlotIdx /\ Slot(i) # Slot(wr)
           /\ events' = [events EXCEPT ![Slot(wr)] = [id |-> id, seq |-> wr]]
           /\ wr' = wr + 1 /\ UNCHANGED <<rd, currSender>>
<1>1. Slot(wr) \in SlotIdx /\ Slot(wr) \notin PendingSlots
      /\ senders[Slot(wr)] = None
  BY NextSlotFree DEF Write
<1>2. \A i \in Pending : Slot(i) \in SlotIdx
  BY SlotInRing DEF TypeOK, Pending
<1>3. Pending' = Pending \cup {wr}
  BY DEF TypeOK, Write, Pending
<1> QED
  BY <1>1, <1>2, <1>3 DEF Write, PendingSlots

LEMMA PostKeepsSent ==
    ASSUME TypeOK, RingInv, SentInv, ~Overflow, NEW id \in Ids, Write(id),
           senders' = [senders EXCEPT ![Slot(wr)] = None],
           UNCHANGED <<thread, sent>>
    PROVE  SentInv'
<1>1. /\ Slot(wr) \in SlotIdx
      /\ Pending' = Pending \cup {wr}
      /\ \A i \in Pending : Slot(i) \in SlotIdx /\ Slot(i) # Slot(wr)
      /\ events' = [events EXCEPT ![Slot(wr)] = [id |-> id, seq |-> wr]]
      /\ wr' = wr + 1 /\ UNCHANGED <<rd, currSender>>
  BY WriteApart
<1>2. \A i \in Pending : senders'[Slot(i)] = senders[Slot(i)]
                         /\ events'[Slot(i)] = events[Slot(i)]
  BY <1>1 DEF TypeOK
<1>3. senders'[Slot(wr)] = None /\ events'[Slot(wr)].seq = wr
  BY <1>1 DEF TypeOK
<1>4. Numbered'
  BY <1>1, <1>2, <1>3 DEF SentInv, Numbered
<1>5. \A t \in Senders : sent[t] < wr /\ sent[t] \in Int /\ sent[t] # wr
  BY DEF SentInv, SentBefore, TypeOK, Never
<1>6. SentBefore'
  BY <1>1, <1>5 DEF SentBefore, TypeOK
<1>7. SenderInSlot'
  BY <1>1, <1>2, <1>5 DEF SentInv, SenderInSlot
<1>8. SlotOfSender'
  BY <1>1, <1>2, <1>3 DEF SentInv, SlotOfSender
<1>9. ServedIsOut'
  BY <1>1 DEF SentInv, ServedIsOut
<1> QED
  BY <1>4, <1>6, <1>7, <1>8, <1>9 DEF SentInv

LEMMA SendKeepsSent ==
    ASSUME TypeOK, RingInv, SentInv, ~Overflow, NEW u \in Senders, NEW id \in Ids,
           QueueSend(u, id)
    PROVE  SentInv'
<1>1. /\ Write(id) /\ thread[u] = "running"
      /\ senders' = [senders EXCEPT ![Slot(wr)] = u]
      /\ sent' = [sent EXCEPT ![u] = wr]
  BY DEF QueueSend
<1>2. /\ Slot(wr) \in SlotIdx /\ senders[Slot(wr)] = None
      /\ Pending' = Pending \cup {wr}
      /\ \A i \in Pending : Slot(i) \in SlotIdx /\ Slot(i) # Slot(wr)
      /\ events' = [events EXCEPT ![Slot(wr)] = [id |-> id, seq |-> wr]]
      /\ wr' = wr + 1 /\ UNCHANGED <<rd, currSender>>
  BY <1>1, WriteApart
<1>3. \A t \in Senders : thread'[t] = IF t = u THEN "sending" ELSE thread[t]
  <2>1. \A t \in Senders : t # senders[Slot(wr)]
    BY <1>2, NoneAssumption
  <2> QED
    BY <2>1 DEF QueueSend
<1>4. \A i \in Pending : senders'[Slot(i)] = senders[Slot(i)]
                         /\ events'[Slot(i)] = events[Slot(i)]
  BY <1>2, <1>1 DEF TypeOK
<1>5. senders'[Slot(wr)] = u /\ events'[Slot(wr)].seq = wr
  BY <1>1, <1>2 DEF TypeOK
<1>6. sent'[u] = wr /\ \A t \in Senders \ {u} : sent'[t] = sent[t]
  BY <1>1 DEF TypeOK
<1>7. Numbered'
  BY <1>2, <1>4, <1>5 DEF SentInv, Numbered
<1>8. \A t \in Senders : sent[t] < wr /\ sent[t] \in Int /\ sent[t] # wr
  BY DEF SentInv, SentBefore, TypeOK, Never
<1>9. SentBefore'
  BY <1>2, <1>6, <1>8 DEF SentBefore, TypeOK
<1>10. SenderInSlot'
  <2>1. ASSUME NEW t \in Senders \ {u}, sent'[t] \in Pending'
        PROVE  senders'[Slot(sent'[t])] = t /\ thread'[t] = "sending"
    <3>1. sent'[t] = sent[t] /\ sent[t] \in Pending
      BY <1>2, <1>6, <1>8, <2>1
    <3> QED
      BY <1>3, <1>4, <3>1 DEF SentInv, SenderInSlot
  <2> QED
    BY <1>3, <1>5, <1>6, <2>1 DEF SenderInSlot
<1>11. SlotOfSender'
  <2>1. ASSUME NEW i \in Pending, senders[Slot(i)] # None
        PROVE  sent'[senders'[Slot(i)]] = i
    <3>1. senders[Slot(i)] \in Senders /\ senders[Slot(i)] # u
      BY <1>1, <2>1, HeadIsOther
    <3>2. sent[senders[Slot(i)]] = i
      BY <2>1 DEF SentInv, SlotOfSender
    <3> QED
      BY <1>4, <1>6, <3>1, <3>2
  <2> QED
    BY <1>2, <1>4, <1>5, <1>6, <2>1 DEF SlotOfSender
<1>12. ServedIsOut'
  BY <1>1, <1>2, <1>3, <1>6 DEF SentInv, ServedIsOut, TypeOK
<1> QED
  BY <1>7, <1>9, <1>10, <1>11, <1>12 DEF SentInv

(* The head leaves, and r comes back: the sender that was served so far,   *)
(* or the one in the head, or nobody.                                      *)
LEMMA HeadLeavesSent ==
    ASSUME TypeOK, RingInv, SentInv, ~IsEmpty, rd' = rd + 1,
           UNCHANGED <<wr, events, sent>>,
           senders' = [senders EXCEPT ![Slot(rd)] = None],
           NEW r \in {currSender, senders[Slot(rd)]},
           \A t \in Senders : t # r => thread'[t] = thread[t],
           \/ currSender' = None
           \/ currSender' = senders[Slot(rd)] /\ r = currSender
           \/ currSender' = currSender /\ r = senders[Slot(rd)]
    PROVE  SentInv'
<1>1. rd \in Pending /\ rd \in Nat /\ Slot(rd) \in SlotIdx
  BY SlotInRing DEF TypeOK, IsEmpty, Pending
<1>2. Pending' = Pending \ {rd}
  BY DEF TypeOK, Pending
<1>3. ASSUME NEW i \in Pending, i # rd
      PROVE  /\ Slot(i) \in SlotIdx /\ Slot(i) # Slot(rd)
             /\ senders'[Slot(i)] = senders[Slot(i)]
  <2>1. i \in Nat /\ i - rd < QueueLength /\ rd - i < QueueLength
    BY LengthAssumption DEF TypeOK, Pending, RingInv
  <2>2. Slot(i) \in SlotIdx /\ Slot(i) # Slot(rd)
    BY <1>1, <1>3, <2>1, SlotInRing, SlotsApart
  <2> QED
    BY <2>2 DEF TypeOK
<1>4. Numbered' /\ SentBefore'
  BY <1>2 DEF SentInv, Numbered, SentBefore
<1>5. SlotOfSender'
  BY <1>2, <1>3 DEF SentInv, SlotOfSender
<1>6. SenderInSlot'
  <2>1. ASSUME NEW t \in Senders, sent[t] \in Pending, sent[t] # rd
        PROVE  t # r
    <3>1. senders[Slot(rd)] = t => sent[t] = rd
      BY <1>1, NoneAssumption DEF SentInv, SlotOfSender
    <3>2. currSender = t => sent[t] < rd
      BY NoneAssumption DEF SentInv, ServedIsOut
    <3>3. ~(sent[t] < rd)
      BY <2>1 DEF TypeOK, Pending
    <3> QED
      BY <2>1, <3>1, <3>2, <3>3
  <2> QED
    BY <1>2, <1>3, <2>1 DEF SentInv, SenderInSlot
<1>7. ServedIsOut'
  <2>1. CASE currSender' = None
    BY <2>1 DEF ServedIsOut
  <2>2. CASE currSender' = senders[Slot(rd)] /\ r = currSender /\ currSender' # None
    <3>1. /\ currSender' \in Senders /\ currSender' # r
          /\ thread[currSender'] = "sending"
      BY <1>1, <2>2, HeadIsOther
    <3>2. sent[currSender'] = rd
      BY <1>1, <2>2 DEF SentInv, SlotOfSender
    <3> QED
      BY <1>1, <3>1, <3>2 DEF ServedIsOut
  <2>3. CASE currSender' = currSender /\ r = senders[Slot(rd)] /\ currSender # None
    <3>1. currSender \in Senders /\ currSender # r
      BY <1>1, <2>3, HeadIsOther DEF TypeOK
    <3>2. sent[currSender] \in Int /\ sent[currSender] < rd
          /\ thread[currSender] = "sending"
      BY <2>3, <3>1 DEF SentInv, ServedIsOut, TypeOK, Never
    <3> QED
      BY <1>1, <2>3, <3>1, <3>2 DEF ServedIsOut
  <2> QED
    BY <2>1, <2>2, <2>3
<1> QED
  BY <1>4, <1>5, <1>6, <1>7 DEF SentInv

(* Answering, clearing and deleting: those who come back have no message   *)
(* in the ring afterwards, and are not being served.                       *)
LEMMA ReplyKeepsSent ==
    ASSUME TypeOK, SentInv, UNCHANGED <<rd, wr, events, senders, sent>>,
           \A t \in Senders : t # currSender => thread'[t] = thread[t],
           currSender' = None
    PROVE  SentInv'
<1>1. ASSUME NEW t \in Senders, sent[t] \in Pending PROVE t # currSender
  <2>1. currSender = t => sent[t] < rd
    BY NoneAssumption DEF SentInv, ServedIsOut
  <2> QED
    BY <1>1, <2>1 DEF TypeOK, Pending
<1>2. SenderInSlot'
  BY <1>1 DEF SentInv, SenderInSlot, Pending
<1>3. Numbered' /\ SentBefore' /\ SlotOfSender' /\ ServedIsOut'
  BY DEF SentInv, Numbered, SentBefore, SlotOfSender, ServedIsOut, Pending
<1> QED
  BY <1>2, <1>3 DEF SentInv

LEMMA EmptyKeepsSent ==
    ASSUME TypeOK, SentInv, rd' = wr, UNCHANGED <<wr, sent>>,
           \/ currSender' = None
           \/ /\ currSender' = currSender
              /\ \A t \in Senders : t \notin PendingSenders => thread'[t] = thread[t]
    PROVE  SentInv'
<1>1. Pending' = {}
  BY DEF TypeOK, Pending
<1>2. ASSUME currSender # None
      PROVE  currSender \in Senders /\ currSender \notin PendingSenders
  BY <1>2, HeadIsOther DEF TypeOK, PendingSenders
<1>3. ServedIsOut'
  BY <1>2 DEF SentInv, ServedIsOut, SentBefore, TypeOK
<1>4. Numbered' /\ SentBefore' /\ SenderInSlot' /\ SlotOfSender'
  BY <1>1 DEF SentInv, Numbered, SentBefore, SenderInSlot, SlotOfSender
<1> QED
  BY <1>3, <1>4 DEF SentInv

LEMMA SentStep ==
    ASSUME TypeOK, RingInv, SentInv, NobodyServedInWait, NobodyWithoutList,
           ~Overflow, ~MidRemoval, [Next]_vars
    PROVE  SentInv'
<1> USE NoneAssumption
<1>1. CASE EnableSend
  BY <1>1, EnableMaps, NothingSent DEF EnableSend, sending, TypeOK, RingInv,
     NoListNoSender
<1>2. ASSUME NEW id \in Ids,
             QueuePost(id) \/ \E t \in Senders : QueueSendDisabled(t, id)
      PROVE  SentInv'
  <2>1. Write(id)
    BY <1>2 DEF QueuePost, QueueSendDisabled
  <2>2. senders[Slot(wr)] = None /\ Slot(wr) \in SlotIdx
    BY <2>1, NextSlotFree DEF Write
  <2>3. senders' = [senders EXCEPT ![Slot(wr)] = None]
    BY <1>2, <2>2 DEF TypeOK, QueuePost, QueueSendDisabled
  <2>4. UNCHANGED <<thread, sent>>
    BY <1>2, <2>2 DEF TypeOK, QueuePost, Release, QueueSendDisabled, sending
  <2> QED
    BY <2>1, <2>3, <2>4, PostKeepsSent
<1>3. ASSUME NEW t \in Senders, NEW id \in Ids, QueueSend(t, id) PROVE SentInv'
  BY <1>3, SendKeepsSent
<1>4. ASSUME NEW n \in {Forever} \cup 0 .. MaxTicks, NEW ev \in BOOLEAN,
             WaitStart(n, ev)
      PROVE  SentInv'
  <2>1. /\ UNCHANGED <<wr, events, sent>>
        /\ \A t \in Senders : t # currSender => thread'[t] = thread[t]
    BY <1>4 DEF WaitStart, Release
  <2>2. CASE ~IsEmpty /\ TakeHead(None)
    <3>1. /\ rd' = rd + 1 /\ currSender' = senders[Slot(rd)]
          /\ senders' = [senders EXCEPT ![Slot(rd)] = None]
      BY <2>2 DEF TakeHead, FetchSender
    <3> QED
      BY <2>1, <2>2, <3>1, HeadLeavesSent
  <2>3. CASE UNCHANGED <<rd, senders>> /\ currSender' = None
    BY <2>1, <2>3, ReplyKeepsSent
  <2> QED
    BY <1>4, <2>2, <2>3 DEF WaitStart, LeaveHead, Block
<1>5. CASE WaitResume
  <2>1. currSender = None /\ UNCHANGED <<wr, events, thread, sent>>
    BY <1>5 DEF WaitResume, NobodyServedInWait, sending
  <2>2. CASE ~IsEmpty /\ TakeHead(currSender)
    <3>1. /\ rd' = rd + 1 /\ currSender' = senders[Slot(rd)]
          /\ senders' = [senders EXCEPT ![Slot(rd)] = None]
      BY <2>1, <2>2 DEF TakeHead, FetchSender
    <3> QED
      BY <2>1, <2>2, <3>1, HeadLeavesSent
  <2>3. CASE UNCHANGED <<rd, senders, currSender>>
    BY <2>1, <2>3, NothingSent
  <2> QED
    BY <1>5, <2>2, <2>3 DEF WaitResume, LeaveHead, Block
<1>6. CASE Tick \/ Expire \/ UNCHANGED vars
  BY <1>6, NothingSent DEF Tick, Expire, vars, slots, sending
<1>7. CASE QueueReply
  BY <1>7, ReplyKeepsSent DEF QueueReply, slots, Release
<1>8. ASSUME NEW filter \in SUBSET Ids, NEW i \in Pending, NEW ev \in BOOLEAN,
             QueuePeekEx(filter, i, ev)
      PROVE  SentInv'
  <2>1. /\ i = rd /\ ~IsEmpty /\ rd' = rd + 1 /\ UNCHANGED <<wr, events>>
        /\ senders' = [senders EXCEPT ![Slot(rd)] = None]
    BY <1>8, PeekIsHead DEF QueuePeekEx
  <2>2. CASE ev
    <3>1. /\ currSender' = senders[Slot(rd)] /\ sent' = sent
          /\ \A t \in Senders : t # currSender => thread'[t] = thread[t]
      BY <1>8, <2>1, <2>2 DEF QueuePeekEx, Release
    <3> QED
      BY <2>1, <3>1, HeadLeavesSent
  <2>3. CASE ~ev
    <3>1. /\ currSender' = currSender /\ sent' = sent
          /\ \A t \in Senders : t # senders[Slot(rd)] => thread'[t] = thread[t]
      BY <1>8, <2>1, <2>3 DEF QueuePeekEx, Release
    <3> QED
      BY <2>1, <3>1, HeadLeavesSent
  <2> QED
    BY <2>2, <2>3
<1>9. CASE QueueClear
  BY <1>9, EmptyKeepsSent DEF QueueClear, Release
<1>10. CASE QueueDelete
  BY <1>10, EmptyKeepsSent DEF QueueDelete, Release
<1> QED
  BY <1>1, <1>2, <1>3, <1>4, <1>5, <1>6, <1>7, <1>8, <1>9, <1>10 DEF Next

(* A sender does not come back while its own message is still in the       *)
(* queue.  Removals from behind the head are what breaks this.             *)
THEOREM SendersWaitTheirTurn ==
    ASSUME ~Overflow, ~MidRemoval, ~ForeignPeek PROVE Spec => []HandledBeforeReturn
<1>1. Init => TrackInv /\ RingInv /\ SentInv
  BY TrackInit, RingInit, SentInit
<1>2. TypeOK /\ NoLostWakeup /\ TrackInv /\ RingInv /\ SentInv /\ [Next]_vars
        => TrackInv' /\ RingInv' /\ SentInv'
  BY TrackStep, RingStep, SentStep DEF TrackInv
<1> QED
  BY <1>1, <1>2, SentTells, TypeCorrect, WakeupNotLost, PTL DEF Spec
=============================================================================
