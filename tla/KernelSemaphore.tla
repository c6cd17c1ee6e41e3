---------------------------- MODULE KernelSemaphore ----------------------------
(***************************************************************************)
(* The kernel's semaphore (firmware/kernel/semaphore.c), used by threads   *)
(* that also take KernelLock's locks, as a disk driver waits for the       *)
(* hardware with the lock of the file system in its hands.                 *)
(*                                                                         *)
(* A wait with a timeout ends in one of two ways: a release takes the      *)
(* thread off the list, or the tick makes it runnable and leaves it on the *)
(* list, and it has to find out itself.  Between the look at the list and  *)
(* the section in which it takes itself off, interrupts are enabled.       *)
(***************************************************************************)
EXTENDS KernelLock

CONSTANTS
  Drivers,    \* the threads that use the semaphore
  MaxCount    \* the max of semaphore_init; the count starts at 0

ASSUME SemaphoreConstants ==
  /\ Drivers \subseteq Threads
  /\ MaxCount \in Nat \ {0}

VARIABLES
  up,       \* s->count
  waiters,  \* s->queue
  call,     \* [thread -> where it is in semaphore_wait: "none", "waiting" up
            \* to switch_thread and in it, "late" after the first look]
  timed,    \* [thread -> its wait has a timeout]
  answer    \* what the call that returned in the last step answered

semavars == <<up, waiters, call, timed, answer>>

vars == <<lockvars, semavars>>

SemaInit ==
  /\ Init
  /\ up = 0 /\ waiters = <<>> /\ answer = "none"
  /\ call = [t \in Threads |-> "none"]
  /\ timed = [t \in Threads |-> FALSE]

\* wait_queue_ptr(t) # NULL
Linked(t) == \E i \in DOMAIN waiters : waiters[i] = t

\* The sequence s without its i-th element
Without(s, i) == [j \in 1..(Len(s) - 1) |-> IF j < i THEN s[j] ELSE s[j + 1]]

\* wait_queue_remove, of a thread that is on the list or not
Unlink(t) ==
  IF Linked(t) THEN \E i \in DOMAIN waiters :
                      waiters[i] = t /\ waiters' = Without(waiters, i)
  ELSE UNCHANGED waiters

\* A thread between two calls, on a core that no other thread is using.
Free(t) == /\ Running(t)
           /\ call[t] = "none"
           /\ \A u \in Threads : call[u] # "late"

Return(t, what) ==
  /\ call' = [call EXCEPT ![t] = "none"]
  /\ timed' = [timed EXCEPT ![t] = FALSE]
  /\ answer' = what

SemaQuiet == answer' = "none" /\ UNCHANGED <<up, waiters, call, timed>>

SetState(t, s) == /\ state' = [state EXCEPT ![t] = s]
                  /\ UNCHANGED <<owner, mask, count, depth, queue, shared, held>>

-------------------------------------------------------------------------------
\* semaphore_wait, with the count up
Down(t) ==
  /\ Free(t)
  /\ up > 0
  /\ up' = up - 1
  /\ Return(t, "succeeded")
  /\ UNCHANGED <<waiters, lockvars>>

\* semaphore_wait with TIMEOUT_NOBLOCK
Poll(t) ==
  /\ Free(t)
  /\ up = 0
  /\ Return(t, "timed out")
  /\ UNCHANGED <<up, waiters, lockvars>>

\* A thread with a lock in its hands always waits with a timeout: so do the
\* drivers (storage_ata-6g.c).
SemaphoreWait(t, timeout) ==
  /\ Free(t)
  /\ up = 0
  /\ timeout \/ \A l \in Locks : held[t][l] = "none"
  /\ waiters' = Append(waiters, t)
  /\ call' = [call EXCEPT ![t] = "waiting"]
  /\ timed' = [timed EXCEPT ![t] = timeout]
  /\ SetState(t, "parked")
  /\ answer' = "none"
  /\ UNCHANGED up

\* check_tmo_expired: the thread can run and is still linked.
Expire(t) ==
  /\ state[t] = "parked" /\ timed[t]
  /\ SetState(t, "running")
  /\ SemaQuiet

\* Mutants: whoever had a timeout is taken to be late; whoever is late waits
\* again.
Bug_ResumeDistrusts(t) ==
  /\ Running(t) /\ call[t] = "waiting"
  /\ \A u \in Threads : call[u] # "late"
  /\ IF timed[t] THEN /\ call' = [call EXCEPT ![t] = "late"]
                      /\ answer' = "none"
                      /\ UNCHANGED timed
     ELSE Return(t, "succeeded")
  /\ UNCHANGED <<up, waiters, lockvars>>

Bug_ResumeWaitsAgain(t) ==
  /\ Running(t) /\ call[t] = "waiting"
  /\ IF Linked(t) THEN SetState(t, "parked") /\ answer' = "none"
                       /\ UNCHANGED <<call, timed>>
     ELSE Return(t, "succeeded") /\ UNCHANGED lockvars
  /\ UNCHANGED <<up, waiters>>

\* After switch_thread: woken by a release, or look again with interrupts off.
Resume(t) ==
  /\ Running(t) /\ call[t] = "waiting"
  /\ \A u \in Threads : call[u] # "late"
  /\ \/ /\ ~Linked(t)
        /\ Return(t, "succeeded")
     \/ /\ Linked(t)
        /\ call' = [call EXCEPT ![t] = "late"]
        /\ answer' = "none"
        /\ UNCHANGED timed
  /\ UNCHANGED <<up, waiters, lockvars>>

LastLook(t) ==
  /\ call[t] = "late"
  /\ Unlink(t)
  /\ \/ /\ Linked(t) /\ up > 0
        /\ up' = up - 1
        /\ Return(t, "succeeded")
     \/ /\ ~(Linked(t) /\ up > 0)
        /\ UNCHANGED up
        /\ Return(t, "timed out")
  /\ UNCHANGED lockvars

\* wakeup_thread of the first on the list, with interrupts disabled
WakeFirst ==
  /\ waiters # <<>>
  /\ waiters' = Tail(waiters)
  /\ SetState(Head(waiters), "running")
  /\ UNCHANGED up

\* Mutants: no limit; a release that finds the first on the list running counts.
Bug_CountUpFreely ==
  /\ waiters = <<>>
  /\ up' = up + 1
  /\ UNCHANGED <<waiters, lockvars>>

Bug_CountUpPastLate ==
  /\ \A i \in DOMAIN waiters : i = 1 => Running(waiters[i])
  /\ up' = IF up < MaxCount THEN up + 1 ELSE up
  /\ UNCHANGED <<waiters, lockvars>>

CountUp ==
  /\ waiters = <<>>
  /\ up' = IF up < MaxCount THEN up + 1 ELSE up
  /\ UNCHANGED <<waiters, lockvars>>

\* By a thread or by an interrupt handler, which comes in whatever the threads
\* do, between the two looks of a late one too.
SemaphoreRelease ==
  /\ WakeFirst \/ CountUp
  /\ answer' = "none"
  /\ UNCHANGED <<call, timed>>

-------------------------------------------------------------------------------
\* A step of KernelLock by a thread that is not in semaphore_wait.
LockStep(t) ==
  /\ Free(t) \/ state[t] = "sleeping"
  /\ LockNext(t)
  /\ SemaQuiet

SemaNext ==
  \/ \E t \in Threads : LockStep(t)
  \/ \E t \in Drivers :
       \/ Down(t) \/ Poll(t)
       \/ \E timeout \in BOOLEAN : SemaphoreWait(t, timeout)
       \/ Expire(t) \/ Resume(t) \/ LastLook(t)
  \/ SemaphoreRelease

SemaSpec == SemaInit /\ [][SemaNext]_vars

\* The tick ends every sleep and every wait with a timeout.  The scheduler ages
\* the threads it passes over, so that each one that can run does, and a thread
\* that gets to run again and again comes to the end of its critical section.
\* Nobody has to release the semaphore.
SemaFairness ==
  /\ \A t \in Drivers : /\ WF_vars(Expire(t))
                        /\ SF_vars(Resume(t))
                        /\ WF_vars(LastLook(t))
  /\ \A t \in Threads :
       /\ WF_vars(Wake(t) /\ SemaQuiet)
       /\ \A l \in Locks : SF_vars(Free(t) /\ GiveBack(t, l) /\ SemaQuiet)

LiveSemaSpec == SemaSpec /\ SemaFairness

-------------------------------------------------------------------------------
SemaTypeOK ==
  /\ TypeOK
  /\ up \in 0..MaxCount
  /\ waiters \in Seq(Threads)
  /\ call \in [Threads -> {"none", "waiting", "late"}]
  /\ timed \in [Threads -> BOOLEAN]
  /\ answer \in {"none", "succeeded", "timed out"}

\* A thread is on the list or on its way back, never parked off the list and
\* never on it twice; and a signal is not kept while somebody waits for one
\* ("threads queued but count=%d!", semaphore.c:112).
NobodyParked ==
  /\ \A t \in Threads :
       /\ state[t] = "parked" => Linked(t)
       /\ Linked(t) => call[t] # "none"
  /\ \A i, j \in DOMAIN waiters : waiters[i] = waiters[j] => i = j
  /\ waiters # <<>> => up = 0

\* No signal counts twice, whichever of timeout and release comes first, and
\* none is lost but one: "Up the semaphore's count and release any thread waiting
\* at the head of the queue" (semaphore.c:99) also releases a thread that has
\* found itself on the list after its timeout (line 72) and has not yet disabled
\* interrupts (line 75).
Signals == INSTANCE CountedSignals WITH
  Limit <- MaxCount,
  spare <- up,
  line <- waiters,
  given <- {t \in Threads : call[t] # "none" /\ ~Linked(t)},
  expired <- {t \in Threads : call[t] = "late"}

SignalsKept == Signals!Spec

\* A wait with a timeout ends, released or not, also one that is made with a
\* lock in hand.
WaitEnds == \A t \in Threads : timed[t] ~> ~timed[t]
===============================================================================
