------------------------ MODULE KernelSemaphoreProofs ------------------------
(***************************************************************************)
(* Theorems about the semaphore of KernelSemaphore and the locks that its  *)
(* users also take, for any number of threads and locks and any limit of   *)
(* the count.                                                              *)
(***************************************************************************)
EXTENDS KernelSemaphore, KernelLockProofs

-------------------------------------------------------------------------------
\* Who stands in a line, and that nobody does twice.
Among(s, u) == \E i \in DOMAIN s : s[i] = u
Single(s) == \A i, j \in DOMAIN s : s[i] = s[j] => i = j

LEMMA SameLength ==
  ASSUME NEW m \in Nat, NEW n \in Nat, 1..m = 1..n
  PROVE  m = n
<1>1. ~(m < n)
  <2>1. m < n => n \in 1..n /\ n \notin 1..m
    OBVIOUS
  <2> QED BY <2>1
<1>2. ~(n < m)
  <2>1. n < m => m \in 1..m /\ m \notin 1..n
    OBVIOUS
  <2> QED BY <2>1
<1> QED BY <1>1, <1>2

LEMMA LastJoins ==
  ASSUME NEW s \in Seq(Threads), NEW t \in Threads
  PROVE  /\ Append(s, t) \in Seq(Threads)
         /\ \A u \in Threads : Among(Append(s, t), u) <=> Among(s, u) \/ u = t
         /\ Single(s) /\ ~Among(s, t) => Single(Append(s, t))
<1> DEFINE r == Append(s, t)
<1>1. /\ r \in Seq(Threads)
      /\ DOMAIN s = 1..Len(s) /\ DOMAIN r = 1..(Len(s) + 1) /\ Len(s) \in Nat
      /\ \A i \in 1..Len(s) : r[i] = s[i]
      /\ r[Len(s) + 1] = t
  OBVIOUS
<1> HIDE DEF r
<1>2. ASSUME NEW u \in Threads
      PROVE  Among(r, u) <=> Among(s, u) \/ u = t
  <2>1. ASSUME NEW i \in DOMAIN r, r[i] = u
        PROVE  Among(s, u) \/ u = t
    BY <2>1, <1>1 DEF Among
  <2>2. ASSUME NEW i \in DOMAIN s, s[i] = u
        PROVE  Among(r, u)
    <3>1. i \in DOMAIN r /\ r[i] = u
      BY <2>2, <1>1
    <3> QED BY <3>1 DEF Among
  <2>3. u = t => Among(r, u)
    <3>1. Len(s) + 1 \in DOMAIN r
      BY <1>1
    <3> QED BY <3>1, <1>1 DEF Among
  <2> QED BY <2>1, <2>2, <2>3 DEF Among
<1>3. Single(s) /\ ~Among(s, t) => Single(r)
  BY <1>1 DEF Single, Among
<1> QED BY <1>1, <1>2, <1>3 DEF r

LEMMA OneLeaves ==
  ASSUME NEW s \in Seq(Threads), NEW i \in DOMAIN s, Single(s)
  PROVE  /\ Without(s, i) \in Seq(Threads)
         /\ \A u \in Threads : Among(Without(s, i), u) <=> Among(s, u) /\ u # s[i]
         /\ Single(Without(s, i))
<1> DEFINE r == Without(s, i)
           Was(j) == IF j < i THEN j ELSE j + 1
<1>1. /\ DOMAIN s = 1..Len(s) /\ Len(s) \in Nat /\ i \in 1..Len(s)
      /\ \A j \in DOMAIN s : s[j] \in Threads
  OBVIOUS
<1>2. /\ DOMAIN r = 1..(Len(s) - 1)
      /\ \A j \in DOMAIN r : r[j] = s[Was(j)]
      /\ \A j \in DOMAIN r : Was(j) \in DOMAIN s /\ Was(j) # i
  BY <1>1 DEF Without
<1>3. \A j, k \in DOMAIN r : Was(j) = Was(k) => j = k
  BY <1>1, <1>2
<1>4. \A k \in DOMAIN s : k # i => \E j \in DOMAIN r : Was(j) = k
  <2> SUFFICES ASSUME NEW k \in DOMAIN s, k # i
               PROVE  \E j \in DOMAIN r : Was(j) = k
    OBVIOUS
  <2>1. CASE k < i
    <3>1. k \in DOMAIN r /\ Was(k) = k
      BY <2>1, <1>1, <1>2
    <3> QED BY <3>1
  <2>2. CASE k > i
    <3>1. k - 1 \in DOMAIN r /\ Was(k - 1) = k
      BY <2>2, <1>1, <1>2
    <3> QED BY <3>1
  <2> QED BY <2>1, <2>2, <1>1
<1> HIDE DEF r, Was
<1>5. r \in Seq(Threads)
  <2>1. /\ Len(s) - 1 \in Nat
        /\ \A j \in 1..(Len(s) - 1) : (IF j < i THEN s[j] ELSE s[j + 1]) \in Threads
    BY <1>1
  <2> QED BY <2>1, IsASeq DEF r, Without
<1>6. ASSUME NEW u \in Threads
      PROVE  Among(r, u) <=> Among(s, u) /\ u # s[i]
  <2>1. ASSUME NEW j \in DOMAIN r, r[j] = u
        PROVE  Among(s, u) /\ u # s[i]
    BY <2>1, <1>2 DEF Among, Single
  <2>2. ASSUME NEW k \in DOMAIN s, s[k] = u, u # s[i]
        PROVE  Among(r, u)
    BY <2>2, <1>2, <1>4 DEF Among
  <2> QED BY <2>1, <2>2 DEF Among
<1>7. Single(r)
  BY <1>2, <1>3 DEF Single
<1> QED BY <1>5, <1>6, <1>7 DEF r

LEMMA FirstGoes ==
  ASSUME NEW s \in Seq(Threads), s # <<>>, Single(s)
  PROVE  /\ Head(s) \in Threads /\ Among(s, Head(s))
         /\ Tail(s) \in Seq(Threads)
         /\ \A u \in Threads : Among(Tail(s), u) <=> Among(s, u) /\ u # Head(s)
         /\ Single(Tail(s))
<1>1. /\ Head(s) = s[1] /\ 1 \in DOMAIN s
      /\ Tail(s) \in Seq(Threads)
      /\ DOMAIN Tail(s) = 1..(Len(s) - 1) /\ Len(s) \in Nat /\ DOMAIN s = 1..Len(s)
      /\ \A j \in 1..(Len(s) - 1) : Tail(s)[j] = s[j + 1]
  OBVIOUS
<1>2. /\ Without(s, 1) \in Seq(Threads)
      /\ \A u \in Threads : Among(Without(s, 1), u) <=> Among(s, u) /\ u # s[1]
      /\ Single(Without(s, 1))
  BY <1>1, OneLeaves
<1>3. /\ DOMAIN Without(s, 1) = 1..(Len(s) - 1)
      /\ \A j \in 1..(Len(s) - 1) : Without(s, 1)[j] = s[j + 1]
  BY <1>1 DEF Without
<1>4. Tail(s) = Without(s, 1)
  <2>1. Len(Without(s, 1)) = Len(s) - 1 /\ Len(Tail(s)) = Len(s) - 1
    <3>1. /\ 1..Len(Without(s, 1)) = 1..(Len(s) - 1)
          /\ 1..Len(Tail(s)) = 1..(Len(s) - 1)
          /\ Len(Without(s, 1)) \in Nat /\ Len(Tail(s)) \in Nat
          /\ Len(s) - 1 \in Nat
      <4>1. \A r \in Seq(Threads) : Len(r) \in Nat /\ DOMAIN r = 1..Len(r)
        OBVIOUS
      <4>2. Len(s) - 1 \in Nat
        BY <1>1
      <4> QED BY <4>1, <4>2, <1>1, <1>2, <1>3
    <3> QED BY <3>1, SameLength
  <2> QED BY <1>1, <1>2, <1>3, <2>1, SeqEqual
<1>5. Head(s) \in Threads /\ Among(s, Head(s))
  BY <1>1 DEF Among
<1> QED BY <1>1, <1>2, <1>4, <1>5

-------------------------------------------------------------------------------
\* The inductive invariant.  A thread inside semaphore_wait is parked or runs,
\* and parked only while it is on the list; whoever is on the list is inside.
\* Whoever has found itself on the list runs, and may have been taken off it.
WaitKept(t) ==
  /\ Linked(t) => call[t] # "none"
  /\ state[t] = "parked" => Linked(t)
  /\ call[t] # "none" => state[t] \in {"parked", "running"}
  /\ call[t] = "late" => state[t] = "running"

SemaInv ==
  /\ LockInv
  /\ SemaTypeOK
  /\ Single(waiters)
  /\ waiters # <<>> => up = 0
  /\ \A t \in Threads : WaitKept(t)

LEMMA SemaInvInit == SemaInit => SemaInv
<1> SUFFICES ASSUME SemaInit PROVE SemaInv
  OBVIOUS
<1>1. LockInv /\ TypeOK
  BY InvInit DEF SemaInit, LockInv
<1>2. SemaTypeOK /\ Single(waiters) /\ up = 0
  BY <1>1, SemaphoreConstants DEF SemaInit, SemaTypeOK, Single
<1>3. ASSUME NEW t \in Threads
      PROVE  WaitKept(t)
  BY DEF SemaInit, Init, WaitKept, Linked
<1> QED BY <1>1, <1>2, <1>3 DEF SemaInv

\* What a step of the locks does to the threads: only those that run, sleep or
\* are in a lock's queue are moved, and none is parked.
LEMMA LockMoves ==
  ASSUME LockInv, NEW t \in Threads, LockNext(t), NEW u \in Threads
  PROVE  \/ state'[u] = state[u]
         \/ /\ state'[u] # "parked"
            /\ \/ state[u] \in {"blocked", "sleeping"}
               \/ u = t
<1>1. ASSUME NEW l \in Locks, Block(t, l)
      PROVE  state'[u] = state[u] \/ (state'[u] = "blocked" /\ u = t)
  BY <1>1 DEF Block, LockInv, TypeOK
<1>2. ASSUME NEW l \in Locks, queue[l] # <<>>, Transfer(t, l)
      PROVE  state'[u] = state[u] \/ (state'[u] = "running" /\ state[u] = "blocked")
  <2>1. Head(queue[l]) = queue[l][1] /\ 1 \in DOMAIN queue[l]
    BY <1>2 DEF LockInv, TypeOK
  <2> QED BY <1>2, <2>1 DEF Transfer, LockInv, TypeOK, QueuesKept
<1>3. ASSUME NEW l \in Locks, NEW n \in 1..Len(queue[l]), WakeReaders(t, l, n)
      PROVE  state'[u] = state[u] \/ (state'[u] = "running" /\ state[u] = "blocked")
  BY <1>3 DEF WakeReaders, LockInv, TypeOK, QueuesKept
<1>4. ASSUME NEW l \in Mutexes, MutexLock(t, l) \/ MutexUnlock(t, l)
      PROVE  \/ UNCHANGED state
             \/ Block(t, l)
             \/ queue[l] # <<>> /\ Transfer(t, l)
  BY <1>4 DEF MutexLock, MutexAgain, MutexOpen, MutexWait, MutexUnlock, MutexLess,
              MutexFree, MutexPass
<1>5. ASSUME NEW l \in RwLocks, ReadAcquire(t, l) \/ WriteAcquire(t, l)
      PROVE  UNCHANGED state \/ Block(t, l)
  BY <1>5 DEF ReadAcquire, ReadIgnored, ReadAgain, ReadOpen, ReadWait, WriteAcquire,
              WriteAgain, WriteOpen, WriteWait, lockvars
<1>6. ASSUME NEW l \in RwLocks, ReadRelease(t, l) \/ WriteRelease(t, l)
      PROVE  \/ UNCHANGED state
             \/ queue[l] # <<>> /\ Transfer(t, l)
             \/ \E n \in 1..Len(queue[l]) : WakeReaders(t, l, n)
  BY <1>6 DEF ReadRelease, ReadLess, ReadPass, Relinquish, WriteRelease, WriteLess,
              WriteFree, WritePass, lockvars
<1>7. ASSUME Sleep(t) \/ Wake(t)
      PROVE  \/ state'[u] = state[u]
             \/ u = t /\ state'[u] # "parked"
  BY <1>7 DEF Sleep, Wake, LockInv, TypeOK
<1>8. /\ \A l \in Mutexes : l \in Locks
      /\ \A l \in RwLocks : l \in Locks
  BY DEF Locks
<1>9. CASE \E l \in Mutexes : MutexLock(t, l) \/ MutexUnlock(t, l)
  BY <1>9, <1>1, <1>2, <1>4, <1>8
<1>10. CASE \E l \in RwLocks : ReadAcquire(t, l) \/ WriteAcquire(t, l)
  BY <1>10, <1>1, <1>5, <1>8
<1>11. CASE \E l \in RwLocks : ReadRelease(t, l) \/ WriteRelease(t, l)
  BY <1>11, <1>2, <1>3, <1>6, <1>8
<1> QED BY <1>7, <1>9, <1>10, <1>11 DEF LockNext

\* The list of the semaphore and the calls are left alone, and the threads are
\* moved by the locks only.
LEMMA LockStepWaits ==
  ASSUME SemaInv, NEW t \in Threads, LockStep(t)
  PROVE  SemaInv'
<1>1. /\ LockInv' /\ TypeOK'
      /\ UNCHANGED <<up, waiters, call, timed>> /\ answer' = "none"
  BY LockStepKeeps DEF SemaInv, LockStep, SemaQuiet, LockInv
<1>2. SemaTypeOK' /\ Single(waiters)' /\ (waiters # <<>> => up = 0)'
  BY <1>1 DEF SemaInv, SemaTypeOK, Single
<1>3. ASSUME NEW u \in Threads
      PROVE  WaitKept(u)'
  <2>1. \/ state'[u] = state[u]
        \/ /\ state'[u] # "parked"
           /\ state[u] \in {"blocked", "sleeping"} \/ u = t
    BY LockMoves DEF SemaInv, LockStep
  <2>2. WaitKept(u) /\ Linked(u)' = Linked(u) /\ call'[u] = call[u]
    BY <1>1 DEF SemaInv, Linked
  <2>3. CASE state'[u] = state[u]
    BY <2>2, <2>3 DEF WaitKept
  <2>4. CASE state'[u] # "parked" /\ state[u] \in {"blocked", "sleeping"}
    BY <2>2, <2>4 DEF WaitKept
  <2>5. CASE state'[u] # "parked" /\ u = t
    <3>1. call[t] = "none"
      BY <2>2, <2>5 DEF LockStep, Free, WaitKept
    <3> QED BY <2>2, <2>5, <3>1 DEF WaitKept
  <2> QED BY <2>1, <2>3, <2>4, <2>5
<1> QED BY <1>1, <1>2, <1>3 DEF SemaInv

\* A thread parks, or is made to run, outside the locks.
LEMMA SetStateKeeps ==
  ASSUME LockInv, NEW t \in Threads, state[t] # "blocked",
         NEW s \in {"running", "parked"}, SetState(t, s)
  PROVE  /\ LockInv' /\ TypeOK'
         /\ \A u \in Threads : state'[u] = IF u = t THEN s ELSE state[u]
<1>1. /\ state' \in [Threads -> States]
      /\ \A u \in Threads : state'[u] = IF u = t THEN s ELSE state[u]
      /\ UNCHANGED <<owner, mask, count, depth, queue, shared, held>>
  BY DEF SetState, LockInv, TypeOK, States
<1>2. TypeOK'
  BY <1>1 DEF LockInv, TypeOK, States
<1>3. \A u \in Threads : state'[u] = "blocked" <=> state[u] = "blocked"
  BY <1>1
<1>4. QueuesKept'
  BY <1>1, <1>3 DEF LockInv, QueuesKept
<1>5. ASSUME NEW k \in Locks
      PROVE  LockKept(k)'
  BY <1>1, Untouched DEF LockInv, TypeOK
<1> QED BY <1>1, <1>2, <1>4, <1>5 DEF LockInv

LEMMA LocksStay ==
  ASSUME LockInv, UNCHANGED lockvars
  PROVE  LockInv' /\ TypeOK' /\ state' = state
BY StutterKeeps DEF lockvars, LockInv

-------------------------------------------------------------------------------
\* A call that returns at once.
LEMMA QuickKeeps ==
  ASSUME SemaInv, NEW t \in Threads, Down(t) \/ Poll(t)
  PROVE  SemaInv'
<1>1. /\ LockInv' /\ TypeOK' /\ state' = state /\ waiters' = waiters
      /\ call[t] = "none"
  BY LocksStay DEF SemaInv, Down, Poll, Free
<1>2. /\ call' \in [Threads -> {"none", "waiting", "late"}]
      /\ \A u \in Threads : call'[u] = call[u]
      /\ timed' \in [Threads -> BOOLEAN]
      /\ answer' \in {"none", "succeeded", "timed out"}
  BY <1>1 DEF SemaInv, SemaTypeOK, Down, Poll, Return
<1>3. up' \in 0..MaxCount /\ (up = 0 => up' = 0)
  <2>1. up \in 0..MaxCount /\ (up' = up \/ (up > 0 /\ up' = up - 1))
    BY DEF SemaInv, SemaTypeOK, Down, Poll
  <2> QED BY <2>1, SemaphoreConstants
<1>4. SemaTypeOK' /\ Single(waiters)' /\ (waiters # <<>> => up = 0)'
  BY <1>1, <1>2, <1>3 DEF SemaInv, SemaTypeOK, Single
<1>5. ASSUME NEW u \in Threads
      PROVE  WaitKept(u)'
  <2>1. WaitKept(u) /\ Linked(u)' = Linked(u)
    BY <1>1 DEF SemaInv, Linked
  <2> QED BY <1>1, <1>2, <2>1 DEF WaitKept
<1> QED BY <1>1, <1>4, <1>5 DEF SemaInv

\* Who is on the list when a thread has joined it, has taken itself off, or has
\* been woken from its head.
LEMMA JoinLinks ==
  ASSUME SemaInv, NEW t \in Threads, NEW timeout \in BOOLEAN,
         SemaphoreWait(t, timeout)
  PROVE  /\ call[t] = "none" /\ ~Linked(t)
         /\ waiters' \in Seq(Threads)
         /\ \A u \in Threads : Linked(u)' <=> Linked(u) \/ u = t
         /\ Single(waiters)'
<1>1. call[t] = "none" /\ ~Linked(t)
  BY DEF SemaInv, WaitKept, SemaphoreWait, Free
<1>2. waiters \in Seq(Threads) /\ Single(waiters) /\ ~Among(waiters, t)
  BY <1>1 DEF SemaInv, SemaTypeOK, Linked, Among
<1>3. /\ Append(waiters, t) \in Seq(Threads)
      /\ \A u \in Threads : Among(Append(waiters, t), u) <=> Among(waiters, u) \/ u = t
      /\ Single(Append(waiters, t))
  BY <1>2, LastJoins
<1>4. waiters' = Append(waiters, t)
  BY DEF SemaphoreWait
<1> QED BY <1>1, <1>3, <1>4 DEF Linked, Among, Single

LEMMA UnlinkLinks ==
  ASSUME SemaInv, NEW t \in Threads, Unlink(t)
  PROVE  /\ waiters' \in Seq(Threads)
         /\ \A u \in Threads : Linked(u)' <=> Linked(u) /\ u # t
         /\ Single(waiters)'
         /\ waiters' # <<>> => waiters # <<>>
<1>1. CASE ~Linked(t)
  BY <1>1 DEF SemaInv, SemaTypeOK, Unlink, Linked, Single
<1>2. CASE Linked(t)
  <2>1. PICK i \in DOMAIN waiters :
          waiters[i] = t /\ waiters' = Without(waiters, i)
    BY <1>2 DEF Unlink
  <2>2. waiters \in Seq(Threads) /\ Single(waiters)
    BY DEF SemaInv, SemaTypeOK
  <2>3. /\ waiters' \in Seq(Threads)
        /\ \A u \in Threads : Among(waiters', u) <=> Among(waiters, u) /\ u # t
        /\ Single(waiters')
    BY <2>1, <2>2, OneLeaves
  <2>4. waiters # <<>>
    BY <2>1, <2>2
  <2> QED BY <2>3, <2>4 DEF Linked, Among, Single
<1> QED BY <1>1, <1>2

LEMMA WakeLinks ==
  ASSUME SemaInv, WakeFirst
  PROVE  /\ Head(waiters) \in Threads
         /\ Linked(Head(waiters)) /\ call[Head(waiters)] # "none"
         /\ waiters' \in Seq(Threads)
         /\ \A u \in Threads : Linked(u)' <=> Linked(u) /\ u # Head(waiters)
         /\ Single(waiters)'
<1>1. /\ Head(waiters) \in Threads /\ Among(waiters, Head(waiters))
      /\ waiters' \in Seq(Threads)
      /\ \A u \in Threads : Linked(u)' <=> Linked(u) /\ u # Head(waiters)
      /\ Single(waiters)'
  BY FirstGoes DEF SemaInv, SemaTypeOK, WakeFirst, Linked, Among, Single
<1>2. Linked(Head(waiters))
  BY <1>1 DEF Linked, Among
<1> QED BY <1>1, <1>2 DEF SemaInv, WaitKept

\* Nobody who is on the list finds the count up.
LEMMA LinkedFindsNone ==
  ASSUME SemaInv, NEW t \in Threads, Linked(t)
  PROVE  up = 0
<1>1. waiters = <<>> => DOMAIN waiters = {}
  OBVIOUS
<1>2. waiters # <<>>
  BY <1>1 DEF Linked
<1> QED BY <1>2 DEF SemaInv

LEMMA SemaphoreWaitKeeps ==
  ASSUME SemaInv, NEW t \in Threads, NEW timeout \in BOOLEAN,
         SemaphoreWait(t, timeout)
  PROVE  SemaInv'
<1>1. /\ state[t] = "running" /\ call[t] = "none" /\ up = 0 /\ up' = 0
      /\ ~Linked(t)
  BY DEF SemaInv, WaitKept, SemaphoreWait, Free, Running
<1>2. /\ LockInv' /\ TypeOK'
      /\ \A u \in Threads : state'[u] = IF u = t THEN "parked" ELSE state[u]
  BY <1>1, SetStateKeeps DEF SemaInv, SemaphoreWait
<1>3. /\ waiters' \in Seq(Threads)
      /\ \A u \in Threads : Linked(u)' <=> Linked(u) \/ u = t
      /\ Single(waiters)'
  BY JoinLinks
<1>4. SemaTypeOK'
  BY <1>1, <1>2, <1>3 DEF SemaInv, SemaTypeOK, SemaphoreWait
<1>5. ASSUME NEW u \in Threads
      PROVE  WaitKept(u)'
  <2>1. call'[u] = IF u = t THEN "waiting" ELSE call[u]
    BY DEF SemaInv, SemaTypeOK, SemaphoreWait
  <2> QED BY <1>1, <1>2, <1>3, <2>1 DEF SemaInv, WaitKept
<1> QED BY <1>1, <1>2, <1>3, <1>4, <1>5 DEF SemaInv

LEMMA ExpireKeeps ==
  ASSUME SemaInv, NEW t \in Threads, Expire(t)
  PROVE  SemaInv'
<1>1. state[t] = "parked" /\ UNCHANGED <<up, waiters, call, timed>> /\ answer' = "none"
  BY DEF Expire, SemaQuiet
<1>2. /\ LockInv' /\ TypeOK'
      /\ \A u \in Threads : state'[u] = IF u = t THEN "running" ELSE state[u]
  BY <1>1, SetStateKeeps DEF SemaInv, Expire
<1>3. SemaTypeOK' /\ Single(waiters)' /\ (waiters # <<>> => up = 0)'
  BY <1>1, <1>2 DEF SemaInv, SemaTypeOK, Single
<1>4. ASSUME NEW u \in Threads
      PROVE  WaitKept(u)'
  BY <1>1, <1>2 DEF SemaInv, WaitKept, Linked
<1> QED BY <1>2, <1>3, <1>4 DEF SemaInv

LEMMA ResumeKeeps ==
  ASSUME SemaInv, NEW t \in Threads, Resume(t)
  PROVE  SemaInv'
<1>1. /\ LockInv' /\ TypeOK' /\ state' = state
      /\ state[t] = "running" /\ UNCHANGED <<up, waiters>>
  BY LocksStay DEF SemaInv, Resume, Running
<1>2. /\ call' \in [Threads -> {"none", "waiting", "late"}]
      /\ \A u \in Threads : call'[u] = IF u # t THEN call[u]
                                      ELSE IF Linked(t) THEN "late" ELSE "none"
      /\ timed' \in [Threads -> BOOLEAN]
      /\ answer' \in {"none", "succeeded"}
  BY DEF SemaInv, SemaTypeOK, Resume, Return
<1>3. SemaTypeOK' /\ Single(waiters)' /\ (waiters # <<>> => up = 0)'
  BY <1>1, <1>2 DEF SemaInv, SemaTypeOK, Single
<1>4. ASSUME NEW u \in Threads
      PROVE  WaitKept(u)'
  <2>1. WaitKept(u) /\ Linked(u)' = Linked(u)
    BY <1>1 DEF SemaInv, Linked
  <2> QED BY <1>1, <1>2, <2>1 DEF WaitKept
<1> QED BY <1>1, <1>3, <1>4 DEF SemaInv

LEMMA LastLookKeeps ==
  ASSUME SemaInv, NEW t \in Threads, LastLook(t)
  PROVE  SemaInv'
<1>1. /\ LockInv' /\ TypeOK' /\ state' = state /\ call[t] = "late"
  BY LocksStay DEF SemaInv, LastLook
<1>2. Linked(t) => up = 0
  BY LinkedFindsNone
<1>3. /\ up' = up
      /\ \A u \in Threads : call'[u] = IF u = t THEN "none" ELSE call[u]
      /\ call' \in [Threads -> {"none", "waiting", "late"}]
      /\ timed' \in [Threads -> BOOLEAN]
      /\ answer' = "timed out"
  <2>1. ~(Linked(t) /\ up > 0)
    BY <1>2
  <2>2. up' = up /\ Return(t, "timed out")
    BY <2>1 DEF LastLook
  <2> QED BY <2>2 DEF SemaInv, SemaTypeOK, Return
<1>4. /\ waiters' \in Seq(Threads)
      /\ \A u \in Threads : Linked(u)' <=> Linked(u) /\ u # t
      /\ Single(waiters)'
      /\ waiters' # <<>> => waiters # <<>>
  BY UnlinkLinks DEF LastLook
<1>5. SemaTypeOK' /\ (waiters # <<>> => up = 0)'
  BY <1>1, <1>3, <1>4 DEF SemaInv, SemaTypeOK
<1>6. ASSUME NEW u \in Threads
      PROVE  WaitKept(u)'
  BY <1>1, <1>3, <1>4 DEF SemaInv, WaitKept
<1> QED BY <1>1, <1>4, <1>5, <1>6 DEF SemaInv

LEMMA ReleaseKeeps ==
  ASSUME SemaInv, SemaphoreRelease
  PROVE  SemaInv'
<1>1. /\ UNCHANGED <<call, timed>> /\ answer' = "none"
  BY DEF SemaphoreRelease
<1>2. CASE WakeFirst
  <2>1. /\ Head(waiters) \in Threads
        /\ Linked(Head(waiters)) /\ call[Head(waiters)] # "none"
        /\ waiters' \in Seq(Threads)
        /\ \A u \in Threads : Linked(u)' <=> Linked(u) /\ u # Head(waiters)
        /\ Single(waiters)'
        /\ waiters # <<>> /\ up' = up
    BY <1>2, WakeLinks DEF WakeFirst
  <2>2. state[Head(waiters)] # "blocked"
    BY <2>1 DEF SemaInv, WaitKept
  <2>3. /\ LockInv' /\ TypeOK'
        /\ \A u \in Threads :
             state'[u] = IF u = Head(waiters) THEN "running" ELSE state[u]
    BY <1>2, <2>1, <2>2, SetStateKeeps DEF SemaInv, WakeFirst
  <2>4. SemaTypeOK' /\ (waiters # <<>> => up = 0)'
    BY <1>1, <2>1, <2>3 DEF SemaInv, SemaTypeOK
  <2>5. ASSUME NEW u \in Threads
        PROVE  WaitKept(u)'
    BY <1>1, <2>1, <2>3 DEF SemaInv, WaitKept
  <2> QED BY <2>1, <2>3, <2>4, <2>5 DEF SemaInv
<1>3. CASE CountUp
  <2>1. /\ LockInv' /\ TypeOK' /\ state' = state
        /\ waiters = <<>> /\ waiters' = waiters
        /\ up' \in 0..MaxCount
    <3>1. up \in 0..MaxCount /\ up' = IF up < MaxCount THEN up + 1 ELSE up
      BY <1>3 DEF SemaInv, SemaTypeOK, CountUp
    <3>2. up' \in 0..MaxCount
      BY <3>1, SemaphoreConstants
    <3> QED BY <1>3, <3>2, LocksStay DEF SemaInv, CountUp
  <2>2. SemaTypeOK' /\ Single(waiters)'
    BY <1>1, <2>1 DEF SemaInv, SemaTypeOK, Single
  <2>3. ASSUME NEW u \in Threads
        PROVE  WaitKept(u)'
    BY <1>1, <2>1 DEF SemaInv, WaitKept, Linked
  <2> QED BY <2>1, <2>2, <2>3 DEF SemaInv
<1> QED BY <1>2, <1>3 DEF SemaphoreRelease

LEMMA SemaStutterKeeps ==
  ASSUME SemaInv, UNCHANGED vars
  PROVE  SemaInv'
<1>1. /\ LockInv' /\ TypeOK' /\ state' = state
      /\ UNCHANGED <<up, waiters, call, timed, answer>>
  BY LocksStay DEF SemaInv, vars, semavars
<1> QED BY <1>1 DEF SemaInv, SemaTypeOK, Single, WaitKept, Linked

THEOREM SemaKept == SemaSpec => []SemaInv
<1>1. SemaInv /\ [SemaNext]_vars => SemaInv'
  BY SemaphoreConstants, LockStepWaits, QuickKeeps, SemaphoreWaitKeeps, ExpireKeeps,
     ResumeKeeps, LastLookKeeps, ReleaseKeeps, SemaStutterKeeps DEF SemaNext
<1> QED BY SemaInvInit, <1>1, PTL DEF SemaSpec

-------------------------------------------------------------------------------
\* Each step counts signals as CountedSignals does: who has been given one is
\* inside the call and off the list, and who has looked again has seen the time
\* run out.
Given == {t \in Threads : call[t] # "none" /\ ~Linked(t)}
Expired == {t \in Threads : call[t] = "late"}

LEMMA LockStepMaps ==
  ASSUME SemaInv, NEW t \in Threads, LockStep(t) \/ Expire(t)
  PROVE  Signals!Elsewhere
<1>1. SemaQuiet
  BY DEF LockStep, Expire
<1> QED BY <1>1 DEF SemaQuiet, Signals!Elsewhere, Linked

LEMMA QuickMaps ==
  ASSUME SemaInv, NEW t \in Threads, Down(t) \/ Poll(t)
  PROVE  Signals!TakeSpare \/ Signals!Refuse
<1>1. /\ UNCHANGED waiters
      /\ \A u \in Threads : call'[u] = call[u]
  BY DEF SemaInv, SemaTypeOK, Down, Poll, Return, Free
<1>2. Given' = Given /\ Expired' = Expired
  BY <1>1 DEF Given, Expired, Linked
<1>3. CASE Down(t)
  BY <1>1, <1>2, <1>3 DEF Down, Return, Signals!TakeSpare, Given, Expired
<1>4. CASE Poll(t)
  BY <1>1, <1>2, <1>4 DEF Poll, Return, Signals!Refuse, Given, Expired
<1> QED BY <1>3, <1>4

LEMMA WaitMaps ==
  ASSUME SemaInv, NEW t \in Threads, NEW timeout \in BOOLEAN,
         SemaphoreWait(t, timeout)
  PROVE  Signals!Join(t)
<1>1. /\ \A u \in Threads : call'[u] = IF u = t THEN "waiting" ELSE call[u]
      /\ up = 0 /\ up' = up /\ waiters' = Append(waiters, t) /\ answer' = "none"
  BY DEF SemaInv, SemaTypeOK, SemaphoreWait
<1>2. Given' = Given /\ Expired' = Expired
  BY <1>1, JoinLinks DEF Given, Expired
<1> QED BY <1>1, <1>2 DEF Signals!Join, Given, Expired

LEMMA ResumeMaps ==
  ASSUME SemaInv, NEW t \in Threads, Resume(t)
  PROVE  Signals!Expire(t) \/ Signals!TakeGiven(t)
<1>1. /\ call[t] = "waiting" /\ UNCHANGED <<up, waiters>>
      /\ \A u \in Threads : Linked(u)' <=> Linked(u)
  BY DEF Resume, Linked
<1>2. CASE Linked(t)
  <2>1. /\ \A u \in Threads : call'[u] = IF u = t THEN "late" ELSE call[u]
        /\ answer' = "none"
    BY <1>2 DEF SemaInv, SemaTypeOK, Resume
  <2>2. Given' = Given /\ Expired' = Expired \cup {t}
    BY <1>1, <2>1 DEF Given, Expired
  <2>3. \E i \in DOMAIN waiters : waiters[i] = t
    BY <1>2 DEF Linked
  <2> QED BY <1>1, <2>1, <2>2, <2>3 DEF Signals!Expire, Given, Expired
<1>3. CASE ~Linked(t)
  <2>1. /\ \A u \in Threads : call'[u] = IF u = t THEN "none" ELSE call[u]
        /\ answer' = "succeeded"
    BY <1>3 DEF SemaInv, SemaTypeOK, Resume, Return
  <2>2. /\ t \in Given \ Expired
        /\ Given' = Given \ {t} /\ Expired' = Expired
    BY <1>1, <1>3, <2>1 DEF Given, Expired
  <2> QED BY <1>1, <2>1, <2>2 DEF Signals!TakeGiven, Given, Expired
<1> QED BY <1>2, <1>3

\* This is where interrupts matter: a late thread may have been taken off the
\* list between its two looks.
LEMMA LastLookMaps ==
  ASSUME SemaInv, NEW t \in Threads, LastLook(t)
  PROVE  Signals!GiveUp(t) \/ Signals!TooLate(t)
<1>1. Linked(t) => up = 0
  BY LinkedFindsNone
<1>2. up' = up /\ Return(t, "timed out") /\ call[t] = "late"
  <2>1. ~(Linked(t) /\ up > 0)
    BY <1>1
  <2> QED BY <2>1 DEF LastLook
<1>3. \A u \in Threads : call'[u] = IF u = t THEN "none" ELSE call[u]
  BY <1>2 DEF SemaInv, SemaTypeOK, Return
<1>4. \A u \in Threads : Linked(u)' <=> Linked(u) /\ u # t
  BY UnlinkLinks DEF LastLook
<1>5. t \in Expired /\ Expired' = Expired \ {t} /\ Given' = Given \ {t}
  BY <1>2, <1>3, <1>4 DEF Given, Expired
<1>6. CASE Linked(t)
  <2>1. \E i \in DOMAIN waiters : waiters[i] = t /\ waiters' = Without(waiters, i)
    BY <1>6 DEF LastLook, Unlink
  <2>2. Given' = Given
    BY <1>5, <1>6 DEF Given
  <2> QED BY <1>2, <1>5, <2>1, <2>2
          DEF Signals!GiveUp, Given, Expired, Without, Return
<1>7. CASE ~Linked(t)
  <2>1. waiters' = waiters
    BY <1>7 DEF LastLook, Unlink
  <2>2. t \in Given
    BY <1>2, <1>7 DEF Given
  <2> QED BY <1>2, <1>5, <2>1, <2>2 DEF Signals!TooLate, Given, Expired, Return
<1> QED BY <1>6, <1>7

LEMMA ReleaseMaps ==
  ASSUME SemaInv, SemaphoreRelease
  PROVE  Signals!Signal
<1>1. UNCHANGED call /\ answer' = "none" /\ Expired' = Expired
  BY DEF SemaphoreRelease, Expired
<1>2. CASE WakeFirst
  <2>1. /\ Head(waiters) \in Threads /\ Linked(Head(waiters))
        /\ call[Head(waiters)] # "none"
        /\ \A u \in Threads : Linked(u)' <=> Linked(u) /\ u # Head(waiters)
    BY <1>2, WakeLinks
  <2>2. Given' = Given \cup {Head(waiters)}
    BY <1>1, <2>1 DEF Given
  <2> QED BY <1>1, <1>2, <2>2 DEF WakeFirst, Signals!Signal, Given, Expired
<1>3. CASE CountUp
  <2>1. Given' = Given
    BY <1>1, <1>3 DEF CountUp, Given, Linked
  <2> QED BY <1>1, <1>3, <2>1 DEF CountUp, Signals!Signal, Given, Expired
<1> QED BY <1>2, <1>3 DEF SemaphoreRelease

LEMMA StutterMaps == UNCHANGED vars => UNCHANGED Signals!vars
BY DEF vars, semavars, Signals!vars, Linked

-------------------------------------------------------------------------------
\* The type invariant of semaphore and locks.
THEOREM SemaTyped == SemaSpec => []SemaTypeOK
<1>1. SemaInv => SemaTypeOK
  BY DEF SemaInv
<1> QED BY SemaKept, <1>1, PTL

\* Nobody is left parked off the list of the semaphore, and no signal is kept
\* while somebody is on it.
THEOREM NobodyLeftParked == SemaSpec => []NobodyParked
<1>1. SemaInv => NobodyParked
  BY DEF SemaInv, WaitKept, Single, NobodyParked
<1> QED BY SemaKept, <1>1, PTL

\* Waiting for the semaphore with a lock in hand does not break the queues of
\* the locks.
THEOREM SemaLocksRemember == SemaSpec => []NobodyForgotten
<1>1. SemaInv => NobodyForgotten
  BY InvRemembers DEF SemaInv
<1> QED BY SemaKept, <1>1, PTL

\* The semaphore counts signals, whichever of timeout and release comes first
\* and whoever releases: it loses none but one that is given to a thread between
\* its two looks after the timeout.
THEOREM SignalsCounted == SemaSpec => SignalsKept
<1>1. SemaInit => Signals!Init
  BY DEF SemaInit, Signals!Init
<1>2. SemaInv /\ [SemaNext]_vars => [Signals!Next]_(Signals!vars)
  BY SemaphoreConstants, LockStepMaps, QuickMaps, WaitMaps, ResumeMaps, LastLookMaps,
     ReleaseMaps, StutterMaps DEF SemaNext, Signals!Next
<1> QED BY <1>1, <1>2, SemaKept, PTL DEF SemaSpec, SignalsKept, Signals!Spec

\* Only a step of a lock touches what the promise of the locks is about.
LEMMA SemaFairStep ==
  ASSUME SemaInv, [SemaNext]_vars
  PROVE  [Promise!Next]_Promise!vars
<1>1. LockInv
  BY DEF SemaInv
<1>2. ASSUME NEW t \in Threads, LockStep(t)
      PROVE  [Promise!Next]_Promise!vars
  <2>1. LockNext(t)
    BY <1>2 DEF LockStep
  <2>2. [Next]_lockvars
    BY <2>1 DEF Next
  <2> QED BY <1>1, <2>2, FairStep
<1>3. ASSUME NEW t \in Drivers,
             \/ Down(t) \/ Poll(t)
             \/ \E timeout \in BOOLEAN : SemaphoreWait(t, timeout)
             \/ Expire(t) \/ Resume(t) \/ LastLook(t)
      PROVE  UNCHANGED <<held, queue, shared>>
  BY <1>3 DEF Down, Poll, SemaphoreWait, Expire, Resume, LastLook, SetState, lockvars
<1>4. SemaphoreRelease => UNCHANGED <<held, queue, shared>>
  BY DEF SemaphoreRelease, WakeFirst, CountUp, SetState, lockvars
<1>5. UNCHANGED vars => UNCHANGED <<held, queue, shared>>
  BY DEF vars, lockvars
<1> QED BY <1>2, <1>3, <1>4, <1>5, QuietStep DEF SemaNext

\* The locks stay fair among threads that also wait for the semaphore, with a
\* lock in hand or not, whatever ends those waits.
THEOREM SemaLocksFair == SemaSpec => FairLocks
<1>1. SemaInit => Promise!Init
  BY FairInit DEF SemaInit
<1>2. SemaInv /\ [SemaNext]_vars => [Promise!Next]_Promise!vars
  BY SemaFairStep
<1> QED BY <1>1, <1>2, SemaKept, PTL DEF SemaSpec, FairLocks, Promise!Spec
===============================================================================
