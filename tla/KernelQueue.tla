---------------------------- MODULE KernelQueue ----------------------------
(***************************************************************************)
(* One event queue of the kernel (firmware/kernel/queue.c): a ring of      *)
(* QueueLength slots with free-running read and write counters, an owner   *)
(* thread that waits on it, any number of posters (interrupt handlers and  *)
(* threads), and threads that send synchronously and block for the reply.  *)
(*                                                                         *)
(* Every operation runs with interrupts disabled on the only core, so it   *)
(* is one action, up to the point where it calls switch_thread().  A wait  *)
(* is therefore two actions, WaitStart and WaitResume, with everything the *)
(* other threads, the tick and the scheduler do in between.                *)
(*                                                                         *)
(* The counters are unbounded here and 32 bits wide in the code: a slot is *)
(* the counter modulo QueueLength, which divides 2^32.                     *)
(***************************************************************************)
EXTENDS Integers, Sequences, FiniteSets

CONSTANTS
    Senders,      \* threads that call queue_send
    None,         \* NULL
    Ids,          \* event ids that are posted and sent
    SYS_TIMEOUT,  \* the id a wait reports when it times out
    QueueLength,  \* QUEUE_LENGTH
    MaxWrites,    \* bound: events written in a behaviour
    MaxTicks,     \* bound: the longest timeout a wait is given
    Overflow,     \* may a writer write to a full queue?
    MidRemoval,   \* may an event be removed from behind the head?
    ForeignPeek   \* may a thread other than the owner remove events?

ASSUME LengthAssumption == QueueLength \in Nat \ {0}
ASSUME NoneAssumption == None \notin Senders
ASSUME TimeoutAssumption == SYS_TIMEOUT \notin Ids
ASSUME BoundAssumption == MaxWrites \in Nat /\ MaxTicks \in Nat
ASSUME FlagAssumption == {Overflow, MidRemoval, ForeignPeek} \subseteq BOOLEAN
(* Sliding the events of an overflowed ring, where two pending events may
   share a slot, is not modelled.                                          *)
ASSUME SlideAssumption == ~ (Overflow /\ MidRemoval)

VARIABLES
    rd, wr,       \* q->read, q->write
    events,       \* q->events[]
    senders,      \* q->send->senders[]
    currSender,   \* q->send->curr_sender
    send,         \* q->send # NULL
    alive,        \* FALSE once queue_delete has been called
    pc,           \* the owner: "run", "blocked" or "ready" in a wait
    linked,       \* the owner is on the list q->queue
    asked,        \* the ticks of the owner's wait, Forever without timeout
    waited,       \* ticks since the wait was called, up to asked
    take,         \* the wait was given an ev to fill
    got,          \* *ev of the last wait or removal
    thread,       \* each sender is "running" or "sending" (blocked)
    retval,       \* each sender's thread_entry.retval
    sent          \* ghost: the number of the event a sender sent last

slots == <<events, senders>>
waiting == <<pc, linked, asked, waited, take>>
sending == <<thread, retval, sent>>
vars == <<rd, wr, slots, currSender, send, alive, waiting, got, sending>>

Forever == -1      \* TIMEOUT_BLOCK
NoReply == 0       \* what a sender gets when nobody answers its message
Answer == 1        \* a reply the owner gives

SlotIdx == 0 .. QueueLength - 1
Slot(i) == i % QueueLength

(* An event's payload is its own number: the count of events before it.    *)
Events == [id : Ids, seq : Nat]
Timeout == [id |-> SYS_TIMEOUT, seq |-> 0]
Never == -1         \* no message sent yet

Pending == rd .. wr - 1
IsEmpty == rd = wr

TypeOK ==
    /\ rd \in Nat /\ wr \in Nat /\ rd <= wr
    /\ events \in [SlotIdx -> Events]
    /\ senders \in [SlotIdx -> Senders \cup {None}]
    /\ currSender \in Senders \cup {None}
    /\ send \in BOOLEAN /\ alive \in BOOLEAN
    /\ pc \in {"run", "blocked", "ready"}
    /\ linked \in BOOLEAN /\ take \in BOOLEAN
    /\ asked \in Int /\ asked >= Forever
    /\ waited \in Nat
    /\ got \in Events \cup {Timeout}
    /\ thread \in [Senders -> {"running", "sending"}]
    /\ retval \in [Senders -> {NoReply, Answer}]
    /\ sent \in [Senders -> Nat \cup {Never}]

Init ==
    /\ rd = 0 /\ wr = 0
    /\ events \in {[s \in SlotIdx |-> [id |-> i, seq |-> 0]] : i \in Ids}
    /\ senders = [s \in SlotIdx |-> None]
    /\ currSender = None
    /\ send = FALSE /\ alive = TRUE
    /\ pc = "run" /\ linked = FALSE /\ take = TRUE
    /\ asked = Forever /\ waited = 0
    /\ got = Timeout
    /\ thread = [t \in Senders |-> "running"]
    /\ retval = [t \in Senders |-> NoReply]
    /\ sent = [t \in Senders |-> Never]

-----------------------------------------------------------------------------
(* The helpers of queue.c.                                                 *)

(* queue_release_sender on each reference of refs: store the return value  *)
(* and wake the thread; waking a running thread stores the value only.     *)
Release(refs, value) ==
    /\ thread' = [t \in Senders |->
                    IF t \in refs THEN "running" ELSE thread[t]]
    /\ retval' = [t \in Senders |->
                    IF t \in refs THEN value ELSE retval[t]]
    /\ UNCHANGED sent

Bug_WakeUntimedOnly ==
    /\ pc' = IF linked /\ asked = Forever THEN "ready" ELSE pc
    /\ linked' = (linked /\ asked # Forever)

(* queue_wake_waiter: wakeup_thread unlinks the first thread of q->queue   *)
(* and makes it runnable, a timed out one (runnable but linked) included.  *)
WakeWaiter ==
    /\ pc' = IF linked THEN "ready" ELSE pc
    /\ linked' = FALSE

(* Both writers store the event in the slot of the write counter and wake  *)
(* the waiter.                                                             *)
Write(id) ==
    /\ alive
    /\ wr < MaxWrites
    /\ Overflow \/ wr - rd < QueueLength
    /\ wr' = wr + 1
    /\ events' = [events EXCEPT ![Slot(wr)] = [id |-> id, seq |-> wr]]
    /\ WakeWaiter
    /\ UNCHANGED <<rd, currSender, send, alive, asked, waited, take, got>>

Bug_FetchSenderLeavesSlot(i, curr) ==
    /\ currSender' = IF senders[Slot(i)] # None THEN senders[Slot(i)] ELSE curr
    /\ UNCHANGED senders

(* queue_do_fetch_sender: the sender of the event that is taken becomes    *)
(* the current sender; a posted event leaves the current sender alone.     *)
FetchSender(i, curr) ==
    /\ currSender' = IF senders[Slot(i)] # None THEN senders[Slot(i)] ELSE curr
    /\ senders' = [senders EXCEPT ![Slot(i)] = None]

(* Both waits end by taking the head; ev = NULL leaves it in the queue.    *)
TakeHead(curr) ==
    /\ pc' = "run"
    /\ rd' = rd + 1
    /\ got' = events[Slot(rd)]
    /\ FetchSender(rd, curr)

LeaveHead(curr, result) ==
    /\ pc' = "run"
    /\ got' = result
    /\ currSender' = curr
    /\ UNCHANGED <<rd, senders>>

(* block_thread on q->queue.                                               *)
Block(curr) ==
    /\ pc' = "blocked"
    /\ linked' = TRUE
    /\ currSender' = curr
    /\ UNCHANGED <<rd, senders, got>>

-----------------------------------------------------------------------------
(* queue_enable_queue_send: the caller's cleared sender list is attached.  *)
EnableSend ==
    /\ alive /\ ~send
    /\ send' = TRUE
    /\ senders' = [s \in SlotIdx |-> None]
    /\ currSender' = None
    /\ UNCHANGED <<rd, wr, events, alive, waiting, got, sending>>

(* queue_post: a sender whose unread event is overwritten is released.     *)
QueuePost(id) ==
    /\ Write(id)
    /\ senders' = [senders EXCEPT ![Slot(wr)] = None]
    /\ Release({senders[Slot(wr)]}, NoReply)

(* queue_send: as queue_post, then the sender takes the slot and blocks.   *)
QueueSend(t, id) ==
    /\ send /\ thread[t] = "running"
    /\ Write(id)
    /\ senders' = [senders EXCEPT ![Slot(wr)] = t]
    /\ thread' = [u \in Senders |->
                    IF u = t THEN "sending"
                    ELSE IF u = senders[Slot(wr)] THEN "running" ELSE thread[u]]
    /\ retval' = [u \in Senders |->
                    IF u = senders[Slot(wr)] THEN NoReply ELSE retval[u]]
    /\ sent' = [sent EXCEPT ![t] = wr]

(* queue_send on a queue without a sender list is a post.                  *)
QueueSendDisabled(t, id) ==
    /\ ~send /\ thread[t] = "running"
    /\ Write(id)
    /\ UNCHANGED <<senders, sending>>

Bug_WaitStartNoAutoReply(n, ev) ==
    /\ alive /\ pc = "run"
    /\ asked' = n /\ waited' = 0 /\ take' = ev
    /\ UNCHANGED sending
    /\ \/ ~IsEmpty /\ ev /\ TakeHead(None) /\ UNCHANGED linked
       \/ ~IsEmpty /\ ~ev /\ LeaveHead(None, got) /\ UNCHANGED linked
       \/ /\ IsEmpty /\ n = 0 /\ UNCHANGED linked
          /\ LeaveHead(None, IF ev THEN Timeout ELSE got)
       \/ IsEmpty /\ n # 0 /\ Block(None)
    /\ UNCHANGED <<wr, events, send, alive>>

(* queue_wait (n = Forever) and queue_wait_w_tmo, up to their return or to *)
(* switch_thread(): whoever still waits for a reply gets the default one.  *)
WaitStart(n, ev) ==
    /\ alive /\ pc = "run"
    /\ asked' = n /\ waited' = 0 /\ take' = ev
    /\ Release({currSender}, NoReply)
    /\ \/ ~IsEmpty /\ ev /\ TakeHead(None) /\ UNCHANGED linked
       \/ ~IsEmpty /\ ~ev /\ LeaveHead(None, got) /\ UNCHANGED linked
       \/ /\ IsEmpty /\ n = 0 /\ UNCHANGED linked
          /\ LeaveHead(None, IF ev THEN Timeout ELSE got)
       \/ IsEmpty /\ n # 0 /\ Block(None)
    /\ UNCHANGED <<wr, events, send, alive>>

Bug_ResumeWithoutRecheck ==
    /\ pc = "ready"
    /\ \/ ~IsEmpty /\ take /\ TakeHead(currSender) /\ UNCHANGED linked
       \/ ~IsEmpty /\ ~take /\ LeaveHead(currSender, got) /\ UNCHANGED linked
       \/ IsEmpty /\ LeaveHead(currSender, Timeout) /\ linked' = FALSE
    /\ UNCHANGED <<wr, events, send, alive, asked, waited, take, sending>>

Bug_ResumeTakesBlindly ==
    /\ pc = "ready"
    /\ \/ ~linked /\ TakeHead(currSender) /\ UNCHANGED linked
       \/ linked /\ LeaveHead(currSender, Timeout) /\ linked' = FALSE
    /\ UNCHANGED <<wr, events, send, alive, asked, waited, take, sending>>

(* Both waits after switch_thread() returns: the message that woke the     *)
(* owner may be gone, and then an unexpired wait blocks again.             *)
WaitResume ==
    /\ pc = "ready"
    /\ \/ ~IsEmpty /\ take /\ TakeHead(currSender) /\ UNCHANGED linked
       \/ ~IsEmpty /\ ~take /\ LeaveHead(currSender, got) /\ UNCHANGED linked
       \/ /\ IsEmpty /\ asked # Forever
          /\ linked \/ waited >= asked
          /\ linked' = FALSE
          /\ LeaveHead(currSender, IF take THEN Timeout ELSE got)
       \/ /\ IsEmpty
          /\ asked = Forever \/ (~linked /\ waited < asked)
          /\ Block(currSender)
    /\ UNCHANGED <<wr, events, send, alive, asked, waited, take, sending>>

(* The tick, and the scheduler that finds the owner's timeout in the past: *)
(* the owner becomes runnable and stays linked to q->queue.                *)
Tick ==
    /\ pc # "run" /\ waited < asked
    /\ waited' = waited + 1
    /\ UNCHANGED <<rd, wr, slots, currSender, send, alive, pc, linked, asked,
                   take, got, sending>>

Expire ==
    /\ pc = "blocked" /\ asked # Forever /\ waited >= asked
    /\ pc' = "ready"
    /\ UNCHANGED <<rd, wr, slots, currSender, send, alive, linked, asked,
                   waited, take, got, sending>>

(* queue_reply, by the owner.                                              *)
QueueReply ==
    /\ alive /\ pc = "run" /\ currSender # None
    /\ Release({currSender}, Answer)
    /\ currSender' = None
    /\ UNCHANGED <<rd, wr, slots, send, alive, waiting, got>>

(* queue_peek_ex with QPEEK_REMOVE_EVENTS: the first event whose id passes *)
(* the filter.  It is returned, as by a wait, or discarded, and the events *)
(* before it slide over its slot; the old head slot is left as it was.     *)
FirstMatch(filter, i) ==
    /\ i \in Pending /\ events[Slot(i)].id \in filter
    /\ \A j \in rd .. i - 1 : events[Slot(j)].id \notin filter

Slide(array, i) ==
    [s \in SlotIdx |-> IF \E k \in rd + 1 .. i : Slot(k) = s
                       THEN array[Slot(s + QueueLength - 1)] ELSE array[s]]

QueuePeekEx(filter, i, ev) ==
    /\ alive
    /\ pc = "run" \/ ForeignPeek
    /\ MidRemoval \/ i = rd
    /\ FirstMatch(filter, i)
    /\ rd' = rd + 1
    /\ events' = Slide(events, i)
    /\ senders' = Slide([senders EXCEPT ![Slot(i)] = None], i)
    /\ IF ev
       THEN /\ Release({currSender}, NoReply)
            /\ currSender' = senders[Slot(i)]
            /\ got' = events[Slot(i)]
       ELSE /\ Release({senders[Slot(i)]}, NoReply)
            /\ UNCHANGED <<currSender, got>>
    /\ UNCHANGED <<wr, send, alive, waiting>>

(* queue_clear, and queue_release_all_senders on the way.                  *)
PendingSenders == {senders[Slot(i)] : i \in Pending}
PendingSlots == {Slot(i) : i \in Pending}
ForgetSenders ==
    senders' = [s \in SlotIdx |->
                  IF s \in PendingSlots THEN None ELSE senders[s]]

Bug_ClearHeadSender ==
    /\ alive
    /\ rd' = wr
    /\ Release(IF IsEmpty THEN {} ELSE {senders[Slot(rd)]}, NoReply)
    /\ ForgetSenders
    /\ UNCHANGED <<wr, events, currSender, send, alive, waiting, got>>

QueueClear ==
    /\ alive
    /\ rd' = wr
    /\ Release(PendingSenders, NoReply)
    /\ ForgetSenders
    /\ UNCHANGED <<wr, events, currSender, send, alive, waiting, got>>

(* queue_delete, by the owner: "Queue must not be available for use".      *)
QueueDelete ==
    /\ alive /\ pc = "run"
    /\ alive' = FALSE
    /\ WakeWaiter
    /\ rd' = wr
    /\ Release(PendingSenders \cup {currSender}, NoReply)
    /\ ForgetSenders
    /\ currSender' = None /\ send' = FALSE
    /\ UNCHANGED <<wr, events, asked, waited, take, got>>

Next ==
    \/ EnableSend
    \/ \E id \in Ids : QueuePost(id)
    \/ \E t \in Senders, id \in Ids : QueueSend(t, id)
    \/ \E t \in Senders, id \in Ids : QueueSendDisabled(t, id)
    \/ \E n \in {Forever} \cup 0 .. MaxTicks, ev \in BOOLEAN : WaitStart(n, ev)
    \/ WaitResume
    \/ Tick
    \/ Expire
    \/ QueueReply
    \/ \E filter \in SUBSET Ids, i \in Pending, ev \in BOOLEAN :
          QueuePeekEx(filter, i, ev)
    \/ QueueClear
    \/ QueueDelete

Spec == Init /\ [][Next]_vars

(* The owner keeps coming back to its wait and the scheduler keeps running *)
(* it once it is runnable; nobody else is obliged to do anything.          *)
OwnerTakes == \E n \in {Forever} \cup 0 .. MaxTicks : WaitStart(n, TRUE)
Fairness == WF_vars(OwnerTakes) /\ WF_vars(WaitResume)
LiveSpec == Spec /\ Fairness

-----------------------------------------------------------------------------
(* The ring read from the outside: the pending events in order, each with  *)
(* the thread that waits for it.                                           *)
Contents ==
    [k \in 1 .. wr - rd |-> [msg  |-> events[Slot(rd + k - 1)],
                             from |-> senders[Slot(rd + k - 1)]]]

Promise == INSTANCE MessageQueue WITH
    pending <- Contents, written <- wr, serving <- currSender

(* The ring, its sender map and its wakeups implement the plain message    *)
(* queue of MessageQueue, as long as no writer overruns the ring and only  *)
(* the owner removes events, at the head.                                  *)
ImplementsPromise == Promise!Spec

-----------------------------------------------------------------------------
(* No thread is left behind: a thread blocked in queue_send is always held *)
(* by the slot of a pending event or by curr_sender, so that a reply, the  *)
(* next wait, a discard, an overflow or queue_clear will release it.       *)
SenderTracked ==
    \A t \in Senders : thread[t] = "sending" =>
        t = currSender \/ t \in PendingSenders

(* queue_send does not return while its event is still waiting in the      *)
(* queue: only the end of its own message releases a sender.               *)
HandledBeforeReturn ==
    \A t \in Senders : thread[t] = "running" =>
        \A i \in Pending : events[Slot(i)].seq # sent[t]

(* No wakeup is lost and no list entry outlives its wait: the owner is     *)
(* linked to q->queue only inside a wait, always while it is blocked, and  *)
(* never while an event is pending.                                        *)
NoLostWakeup ==
    /\ linked => IsEmpty /\ pc # "run"
    /\ pc = "blocked" => linked

(* A wait with a timeout that comes back without an event has lasted as    *)
(* long as asked, also when it was woken by an event that then vanished.   *)
TimeoutNotEarly ==
    [][pc = "ready" /\ pc' = "run" /\ IsEmpty => waited >= asked]_vars

(* Every synchronous send returns, as long as the owner keeps waiting.     *)
SendReturns == \A t \in Senders : thread[t] = "sending" ~> thread[t] = "running"

=============================================================================
