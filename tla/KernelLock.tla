------------------------------ MODULE KernelLock ------------------------------
(***************************************************************************)
(* The kernel's mutex (firmware/kernel/mutex.c) and its lock for many      *)
(* readers or one writer (firmware/kernel/mrsw_lock.c), on the one core of *)
(* the device.  The file system takes the second around every call and a   *)
(* mutex per stream under it.                                              *)
(*                                                                         *)
(* A thread runs until it blocks, sleeps or yields, so one call of the API *)
(* up to its switch_thread is one step here, and any runnable thread may   *)
(* take the next one.  A lock is handed over by the one who gives it up:   *)
(* the woken thread owns it before it runs.                                *)
(***************************************************************************)
EXTENDS Integers, Sequences, FiniteSets

CONSTANTS
  Threads,    \* the threads that use the locks
  Mutexes,    \* the objects of type struct mutex
  RwLocks,    \* the objects of type struct mrsw_lock
  None,       \* no owner: a NULL blocker.thread
  Rank,       \* [lock -> number]: the order in which the callers nest locks
  MaxDepth    \* [lock -> number]: how often a thread takes again what it has

Locks == Mutexes \cup RwLocks

ASSUME LockConstants ==
  /\ None \notin Threads
  /\ Mutexes \cap RwLocks = {}
  /\ Rank \in [Locks -> Int]
  /\ MaxDepth \in [Locks -> Nat]

VARIABLES
  owner,    \* [lock -> blocker.thread: the owner, if there is one only]
  mask,     \* [lock -> splay.mask: the readers that are in]
  count,    \* [lock -> m->recursion of a mutex, mrsw->count of the other]
  depth,    \* [lock -> [thread -> rdrecursion]]
  queue,    \* [lock -> the threads that wait, first come first]
  shared,   \* [thread -> retval = 1: it waits, or last waited, as a reader]
  state,    \* [thread -> "running", "blocked" on a lock, "sleeping", or
            \* "parked": blocked on something that is not a lock]
  held      \* [thread -> [lock -> what its calls have got it and it has
            \* not given back]]: not in the code, what the callers rely on

lockvars == <<owner, mask, count, depth, queue, shared, state, held>>

Init ==
  /\ owner = [l \in Locks |-> None]
  /\ mask = [l \in Locks |-> {}]
  /\ count = [l \in Locks |-> 0]
  /\ depth = [l \in Locks |-> [t \in Threads |-> 0]]
  /\ queue = [l \in Locks |-> <<>>]
  /\ shared = [t \in Threads |-> FALSE]
  /\ state = [t \in Threads |-> "running"]
  /\ held = [t \in Threads |-> [l \in Locks |-> "none"]]

Running(t) == state[t] = "running"

\* The callers nest locks in one order and no reader asks to write.
MayAsk(t, l) ==
  /\ Running(t)
  /\ \A k \in Locks : held[t][k] # "none" => Rank[k] < Rank[l]

-------------------------------------------------------------------------------
\* block_thread on the lock's queue.
Block(t, l) ==
  /\ queue' = [queue EXCEPT ![l] = Append(@, t)]
  /\ state' = [state EXCEPT ![t] = "blocked"]
  /\ UNCHANGED <<owner, mask, count, depth, held>>

\* Giving up and getting a lock, as the callers see it.
Give(t, l, getting, mode) ==
  held' = [u \in Threads |->
             IF u = t THEN [held[u] EXCEPT ![l] = "none"]
             ELSE IF u \in getting THEN [held[u] EXCEPT ![l] = mode]
             ELSE held[u]]

\* Mutant: the lock is left open for the thread that is woken.
Bug_TransferOpens(t, l) ==
  /\ owner' = [owner EXCEPT ![l] = None]
  /\ queue' = [queue EXCEPT ![l] = Tail(@)]
  /\ state' = [state EXCEPT ![Head(queue[l])] = "running"]
  /\ Give(t, l, {Head(queue[l])}, "write")

\* wakeup_thread(head of the queue, WAKEUP_TRANSFER), called by t.
Transfer(t, l) ==
  /\ owner' = [owner EXCEPT ![l] = Head(queue[l])]
  /\ queue' = [queue EXCEPT ![l] = Tail(@)]
  /\ state' = [state EXCEPT ![Head(queue[l])] = "running"]
  /\ Give(t, l, {Head(queue[l])}, "write")

-------------------------------------------------------------------------------
MutexAgain(t, l) ==
  /\ Running(t)
  /\ owner[l] = t
  /\ count[l] < MaxDepth[l]
  /\ count' = [count EXCEPT ![l] = @ + 1]
  /\ UNCHANGED <<owner, mask, depth, queue, shared, state, held>>

MutexOpen(t, l) ==
  /\ MayAsk(t, l)
  /\ owner[l] = None
  /\ owner' = [owner EXCEPT ![l] = t]
  /\ held' = [held EXCEPT ![t][l] = "write"]
  /\ UNCHANGED <<mask, count, depth, queue, shared, state>>

MutexWait(t, l) ==
  /\ MayAsk(t, l)
  /\ owner[l] \notin {t, None}
  /\ Block(t, l)
  /\ UNCHANGED shared

MutexLock(t, l) == MutexAgain(t, l) \/ MutexOpen(t, l) \/ MutexWait(t, l)

MutexLess(t, l) ==
  /\ count[l] > 0
  /\ count' = [count EXCEPT ![l] = @ - 1]
  /\ UNCHANGED <<owner, mask, depth, queue, shared, state, held>>

MutexFree(t, l) ==
  /\ count[l] = 0
  /\ queue[l] = <<>>
  /\ owner' = [owner EXCEPT ![l] = None]
  /\ Give(t, l, {}, "none")
  /\ UNCHANGED <<mask, count, depth, queue, shared, state>>

MutexPass(t, l) ==
  /\ count[l] = 0
  /\ queue[l] # <<>>
  /\ Transfer(t, l)
  /\ UNCHANGED <<mask, count, depth, shared>>

MutexUnlock(t, l) ==
  /\ Running(t)
  /\ held[t][l] = "write"
  /\ MutexLess(t, l) \/ MutexFree(t, l) \/ MutexPass(t, l)

-------------------------------------------------------------------------------
Writing(t, l) == owner[l] = t /\ count[l] < 0

ReadIgnored(t, l) == Running(t) /\ Writing(t, l) /\ UNCHANGED lockvars

ReadAgain(t, l) ==
  /\ Running(t)
  /\ ~Writing(t, l)
  /\ t \in mask[l]
  /\ depth[l][t] < MaxDepth[l]
  /\ depth' = [depth EXCEPT ![l][t] = @ + 1]
  /\ UNCHANGED <<owner, mask, count, queue, shared, state, held>>

\* Mutant: a reader joins the readers past a writer that waits.
Bug_ReadPastWriter(t, l) ==
  /\ MayAsk(t, l)
  /\ ~Writing(t, l) /\ t \notin mask[l]
  /\ count[l] >= 0
  /\ count' = [count EXCEPT ![l] = @ + 1]
  /\ mask' = [mask EXCEPT ![l] = @ \cup {t}]
  /\ owner' = [owner EXCEPT ![l] = IF count[l] = 0 THEN t ELSE None]
  /\ held' = [held EXCEPT ![t][l] = "read"]
  /\ UNCHANGED <<depth, queue, shared, state>>

\* mrsw_reader_claim
ReadOpen(t, l) ==
  /\ MayAsk(t, l)
  /\ ~Writing(t, l) /\ t \notin mask[l]
  /\ count[l] >= 0 /\ queue[l] = <<>>
  /\ count' = [count EXCEPT ![l] = @ + 1]
  /\ mask' = [mask EXCEPT ![l] = @ \cup {t}]
  /\ owner' = [owner EXCEPT ![l] = IF count[l] = 0 THEN t ELSE None]
  /\ held' = [held EXCEPT ![t][l] = "read"]
  /\ UNCHANGED <<depth, queue, shared, state>>

ReadWait(t, l) ==
  /\ MayAsk(t, l)
  /\ ~Writing(t, l) /\ t \notin mask[l]
  /\ ~(count[l] >= 0 /\ queue[l] = <<>>)
  /\ shared' = [shared EXCEPT ![t] = TRUE]
  /\ Block(t, l)

ReadAcquire(t, l) == \/ ReadIgnored(t, l) \/ ReadAgain(t, l)
                     \/ ReadOpen(t, l) \/ ReadWait(t, l)

ReadLess(t, l) ==
  /\ depth[l][t] > 0
  /\ depth' = [depth EXCEPT ![l][t] = @ - 1]
  /\ UNCHANGED <<owner, mask, count, queue, shared, state, held>>

\* The last reader hands the lock to the writer at the head of the queue.
ReadPass(t, l) ==
  /\ depth[l][t] = 0
  /\ count[l] = 1 /\ queue[l] # <<>>
  /\ count' = [count EXCEPT ![l] = -1]
  /\ mask' = [mask EXCEPT ![l] = @ \ {t}]
  /\ Transfer(t, l)
  /\ UNCHANGED <<depth, shared>>

\* Mutants: the last reader goes without a look at the queue; the reader that
\* stays alone does not become the owner.
Bug_RelinquishPastWriter(t, l) ==
  /\ depth[l][t] = 0
  /\ count' = [count EXCEPT ![l] = @ - 1]
  /\ mask' = [mask EXCEPT ![l] = @ \ {t}]
  /\ owner' = [owner EXCEPT ![l] =
                 IF count[l] = 2 THEN CHOOSE u \in mask[l] \ {t} : TRUE ELSE None]
  /\ Give(t, l, {}, "none")
  /\ UNCHANGED <<depth, queue, shared, state>>

Bug_RelinquishKeepsOwner(t, l) ==
  /\ depth[l][t] = 0
  /\ ~(count[l] = 1 /\ queue[l] # <<>>)
  /\ count' = [count EXCEPT ![l] = @ - 1]
  /\ mask' = [mask EXCEPT ![l] = @ \ {t}]
  /\ owner' = [owner EXCEPT ![l] = IF count[l] = 1 THEN None ELSE @]
  /\ Give(t, l, {}, "none")
  /\ UNCHANGED <<depth, queue, shared, state>>

\* mrsw_reader_relinquish
Relinquish(t, l) ==
  LET n == count[l] - 1
  IN  /\ depth[l][t] = 0
      /\ ~(n = 0 /\ queue[l] # <<>>)
      /\ count' = [count EXCEPT ![l] = n]
      /\ mask' = [mask EXCEPT ![l] = @ \ {t}]
      /\ owner' = [owner EXCEPT ![l] =
                     IF n = 0 THEN None
                     ELSE IF n = 1 THEN CHOOSE u \in mask[l] \ {t} : TRUE
                     ELSE @]
      /\ Give(t, l, {}, "none")
      /\ UNCHANGED <<depth, queue, shared, state>>

ReadRelease(t, l) ==
  /\ Running(t)
  /\ \/ Writing(t, l) /\ UNCHANGED lockvars
     \/ /\ held[t][l] = "read"
        /\ ReadLess(t, l) \/ ReadPass(t, l) \/ Relinquish(t, l)

WriteAgain(t, l) ==
  /\ Running(t)
  /\ held[t][l] = "write" /\ owner[l] = t
  /\ count[l] >= -MaxDepth[l]
  /\ count' = [count EXCEPT ![l] = @ - 1]
  /\ UNCHANGED <<owner, mask, depth, queue, shared, state, held>>

WriteOpen(t, l) ==
  /\ MayAsk(t, l)
  /\ owner[l] # t /\ count[l] = 0
  /\ count' = [count EXCEPT ![l] = -1]
  /\ owner' = [owner EXCEPT ![l] = t]
  /\ held' = [held EXCEPT ![t][l] = "write"]
  /\ UNCHANGED <<mask, depth, queue, shared, state>>

WriteWait(t, l) ==
  /\ MayAsk(t, l)
  /\ owner[l] # t /\ count[l] # 0
  /\ shared' = [shared EXCEPT ![t] = FALSE]
  /\ Block(t, l)

WriteAcquire(t, l) == WriteAgain(t, l) \/ WriteOpen(t, l) \/ WriteWait(t, l)

WriteLess(t, l) ==
  /\ count[l] < -1
  /\ count' = [count EXCEPT ![l] = @ + 1]
  /\ UNCHANGED <<owner, mask, depth, queue, shared, state, held>>

WriteFree(t, l) ==
  /\ count[l] = -1 /\ queue[l] = <<>>
  /\ owner' = [owner EXCEPT ![l] = None]
  /\ count' = [count EXCEPT ![l] = 0]
  /\ Give(t, l, {}, "none")
  /\ UNCHANGED <<mask, depth, queue, shared, state>>

WritePass(t, l) ==
  /\ count[l] = -1 /\ queue[l] # <<>>
  /\ ~shared[Head(queue[l])]
  /\ Transfer(t, l)
  /\ UNCHANGED <<mask, count, depth, shared>>

\* n readers stand at the front of the queue, and no more than n.
ReadersAhead(l, n) ==
  /\ \A i \in 1..n : shared[queue[l][i]]
  /\ n < Len(queue[l]) => ~shared[queue[l][n + 1]]

\* wakeup_thread(first, WAKEUP_TRANSFER_MULTI)
WakeReaders(t, l, n) ==
  LET woken == {queue[l][i] : i \in 1..n}
  IN  /\ count[l] = -1 /\ queue[l] # <<>>
      /\ shared[Head(queue[l])]
      /\ ReadersAhead(l, n)
      /\ count' = [count EXCEPT ![l] = n]
      /\ mask' = [mask EXCEPT ![l] = @ \cup woken]
      /\ owner' = [owner EXCEPT ![l] = IF n = 1 THEN Head(queue[l]) ELSE None]
      /\ queue' = [queue EXCEPT ![l] = SubSeq(@, n + 1, Len(@))]
      /\ state' = [u \in Threads |-> IF u \in woken THEN "running" ELSE state[u]]
      /\ Give(t, l, woken, "read")
      /\ UNCHANGED <<depth, shared>>

WriteRelease(t, l) ==
  /\ Running(t)
  /\ held[t][l] = "write"
  /\ \/ WriteLess(t, l) \/ WriteFree(t, l) \/ WritePass(t, l)
     \/ \E n \in 1..Len(queue[l]) : WakeReaders(t, l, n)

-------------------------------------------------------------------------------
\* sleep_thread and the tick that ends it.
Sleep(t) ==
  /\ Running(t)
  /\ state' = [state EXCEPT ![t] = "sleeping"]
  /\ UNCHANGED <<owner, mask, count, depth, queue, shared, held>>

Wake(t) ==
  /\ state[t] = "sleeping"
  /\ state' = [state EXCEPT ![t] = "running"]
  /\ UNCHANGED <<owner, mask, count, depth, queue, shared, held>>

LockNext(t) ==
  \/ \E l \in Mutexes : MutexLock(t, l) \/ MutexUnlock(t, l)
  \/ \E l \in RwLocks : \/ ReadAcquire(t, l) \/ ReadRelease(t, l)
                        \/ WriteAcquire(t, l) \/ WriteRelease(t, l)
  \/ Sleep(t) \/ Wake(t)

Next == \E t \in Threads : LockNext(t)

Spec == Init /\ [][Next]_lockvars

-------------------------------------------------------------------------------
GiveBack(t, l) ==
  /\ \/ l \in Mutexes /\ MutexUnlock(t, l)
     \/ l \in RwLocks /\ (ReadRelease(t, l) \/ WriteRelease(t, l))
  /\ held'[t][l] = "none"

-------------------------------------------------------------------------------
TypeOK ==
  /\ owner \in [Locks -> Threads \cup {None}]
  /\ mask \in [Locks -> SUBSET Threads]
  /\ count \in [Locks -> Int]
  /\ depth \in [Locks -> [Threads -> Nat]]
  /\ queue \in [Locks -> Seq(Threads)]
  /\ shared \in [Threads -> BOOLEAN]
  /\ state \in [Threads -> {"running", "blocked", "sleeping", "parked"}]
  /\ held \in [Threads -> [Locks -> {"none", "read", "write"}]]

\* A thread that was told it may write is alone: no other thread was told that
\* it has the lock, for reading or for writing.  Ownership is handed to a thread
\* that has not run yet, and a third may ask in between.
Exclusion ==
  \A l \in Locks : \A t, u \in Threads :
    held[t][l] = "write" /\ t # u => held[u][l] = "none"

\* The KERNEL_ASSERTs of the two files, for every thread that acts on what it
\* was told: the unlocker is the owner, a releasing reader is in the mask and
\* counted, the mask has as many readers as the count, and (THREAD_ASSERT in
\* wakeup_thread_transfer) a sole reader is the owner.
AssertsHold ==
  /\ \A t \in Threads, l \in Locks :
       /\ held[t][l] = "write" => owner[l] = t
       /\ held[t][l] = "read" => t \in mask[l] /\ count[l] > 0
  /\ \A l \in RwLocks : count[l] >= 0 => Cardinality(mask[l]) = count[l]
  /\ \A l \in RwLocks : count[l] = 1 => mask[l] = {owner[l]}

\* Nobody is left in a queue: a thread is blocked exactly if it waits in one
\* queue, once; whoever waits, waits for a thread that has the lock and is not in
\* that queue itself; and when readers have it, the first to wait is a writer
\* ("the next after the owning readers is a writer", mrsw_lock.c).
NobodyForgotten ==
  /\ \A t \in Threads :
       state[t] = "blocked" <=>
         \E l \in Locks : \E i \in DOMAIN queue[l] : queue[l][i] = t
  /\ \A k, l \in Locks : \A i \in DOMAIN queue[k], j \in DOMAIN queue[l] :
       queue[k][i] = queue[l][j] => k = l /\ i = j
  /\ \A l \in Locks : queue[l] # <<>> =>
       \E t \in Threads : held[t][l] # "none"
                          /\ \A i \in DOMAIN queue[l] : queue[l][i] # t
  /\ \A l \in RwLocks : count[l] > 0 /\ queue[l] # <<>> => ~shared[Head(queue[l])]

\* Whoever waits for a lock gets it.
Granted == \A t \in Threads : state[t] = "blocked" ~> state[t] # "blocked"

\* Who is in and who stands in line, in which mode.
ModeOf(t, l) == IF l \in RwLocks /\ shared[t] THEN "read" ELSE "write"

Inside == [l \in Locks |-> {<<t, held[t][l]>> :
                              t \in {u \in Threads : held[u][l] # "none"}}]
Line == [l \in Locks |-> [i \in DOMAIN queue[l] |->
                            <<queue[l][i], ModeOf(queue[l][i], l)>>]]

Promise == INSTANCE FairLock WITH inside <- Inside, line <- Line

\* The locks are fair: nobody gets in past somebody who waits, and when somebody
\* leaves, those who wait first move in, as many as fit.  A wakeup that hands the
\* lock over too early, or to too few, breaks it.
FairLocks == Promise!Spec
===============================================================================
