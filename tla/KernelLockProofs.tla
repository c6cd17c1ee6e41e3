--------------------------- MODULE KernelLockProofs ---------------------------
(***************************************************************************)
(* Theorems about the locks of KernelLock, for any number of threads and   *)
(* locks, any order of nesting and any depth of recursion.                 *)
(***************************************************************************)
EXTENDS KernelLock, FiniteSetTheorems, SequenceTheorems, TLAPS

-------------------------------------------------------------------------------
\* The inductive invariant, lock by lock.  What the callers of lock l have been
\* told is what its fields say: a mutex and a lock that is written have one
\* owner, one that is read has the readers of its mask, counted.
MutexKept(l) ==
  l \in Mutexes =>
    \A t \in Threads : held[t][l] = IF t = owner[l] THEN "write" ELSE "none"

WriterKept(l) ==
  l \in RwLocks /\ count[l] < 0 =>
    /\ owner[l] \in Threads
    /\ mask[l] = {}
    /\ \A t \in Threads : held[t][l] = IF t = owner[l] THEN "write" ELSE "none"

ReadersKept(l) ==
  l \in RwLocks /\ count[l] >= 0 =>
    /\ IsFiniteSet(mask[l])
    /\ Cardinality(mask[l]) = count[l]
    /\ count[l] = 1 => mask[l] = {owner[l]}
    /\ \A t \in Threads : held[t][l] = IF t \in mask[l] THEN "read" ELSE "none"

\* Whoever waits for l has nothing of it, somebody else has it, and the first
\* behind readers is a writer.
WaitersKept(l) ==
  /\ \A i \in DOMAIN queue[l] : held[queue[l][i]][l] = "none"
  /\ queue[l] # <<>> => IF l \in Mutexes THEN owner[l] # None ELSE count[l] # 0
  /\ l \in RwLocks /\ count[l] > 0 /\ queue[l] # <<>> => ~shared[Head(queue[l])]

LockKept(l) == MutexKept(l) /\ WriterKept(l) /\ ReadersKept(l) /\ WaitersKept(l)

\* A blocked thread is in one queue, once, and nobody else is in one.
QueuesKept ==
  /\ \A t \in Threads :
       state[t] = "blocked" <=>
         \E l \in Locks : \E i \in DOMAIN queue[l] : queue[l][i] = t
  /\ \A k, l \in Locks : \A i \in DOMAIN queue[k], j \in DOMAIN queue[l] :
       queue[k][i] = queue[l][j] => k = l /\ i = j

LockInv == TypeOK /\ (\A l \in Locks : LockKept(l)) /\ QueuesKept

Modes == {"none", "read", "write"}
States == {"running", "blocked", "sleeping", "parked"}

-------------------------------------------------------------------------------
\* What Give changes: what its two sides have of the one lock.
LEMMA GiveChanges ==
  ASSUME TypeOK, NEW t \in Threads, NEW l \in Locks,
         NEW getting \in SUBSET Threads, NEW mode \in Modes,
         Give(t, l, getting, mode)
  PROVE  /\ held' \in [Threads -> [Locks -> Modes]]
         /\ \A u \in Threads, k \in Locks :
              held'[u][k] = IF k # l THEN held[u][k]
                            ELSE IF u = t THEN "none"
                            ELSE IF u \in getting THEN mode
                            ELSE held[u][k]
BY DEF TypeOK, Give, Modes

\* A lock that a step does not touch keeps its part of the invariant.
LEMMA Untouched ==
  ASSUME NEW k \in Locks, LockKept(k), queue[k] \in Seq(Threads),
         owner'[k] = owner[k], mask'[k] = mask[k], count'[k] = count[k],
         queue'[k] = queue[k],
         \A u \in Threads : held'[u][k] = held[u][k],
         \A i \in DOMAIN queue[k] : shared'[queue[k][i]] = shared[queue[k][i]]
  PROVE  LockKept(k)'
<1>1. \A i \in DOMAIN queue[k] : queue[k][i] \in Threads
  OBVIOUS
<1>2. MutexKept(k)' /\ WriterKept(k)'
  BY DEF LockKept, MutexKept, WriterKept
<1>3. ReadersKept(k)'
  BY DEF LockKept, ReadersKept
<1>4. WaitersKept(k)'
  <2>1. \A i \in DOMAIN queue'[k] : held'[queue'[k][i]][k] = "none"
    BY <1>1 DEF LockKept, WaitersKept
  <2>2. queue'[k] # <<>> => shared'[Head(queue'[k])] = shared[Head(queue[k])]
    OBVIOUS
  <2> QED BY <2>1, <2>2 DEF LockKept, WaitersKept
<1> QED BY <1>2, <1>3, <1>4 DEF LockKept

-------------------------------------------------------------------------------
\* The queues after a step that leaves them and the threads alone, after a
\* thread has joined one, and after some have left the front of one.
LEMMA QueuesAlone ==
  ASSUME QueuesKept, UNCHANGED <<queue, state>>
  PROVE  QueuesKept'
BY DEF QueuesKept

LEMMA NobodyRunsInLine ==
  ASSUME TypeOK, QueuesKept, NEW t \in Threads, state[t] # "blocked"
  PROVE  \A l \in Locks : \A i \in DOMAIN queue[l] : queue[l][i] # t
BY DEF QueuesKept

LEMMA QueuesJoined ==
  ASSUME TypeOK, QueuesKept, NEW t \in Threads, NEW l \in Locks,
         Running(t), Block(t, l)
  PROVE  /\ QueuesKept'
         /\ queue' \in [Locks -> Seq(Threads)]
         /\ state' \in [Threads -> States]
         /\ \A k \in Locks \ {l} : queue'[k] = queue[k]
         /\ queue'[l] = Append(queue[l], t)
<1>1. /\ queue' \in [Locks -> Seq(Threads)]
      /\ state' \in [Threads -> States]
      /\ \A k \in Locks \ {l} : queue'[k] = queue[k]
      /\ queue'[l] = Append(queue[l], t)
      /\ \A u \in Threads : state'[u] = IF u = t THEN "blocked" ELSE state[u]
  BY DEF TypeOK, Block, States
<1>2. /\ DOMAIN queue'[l] = 1..(Len(queue[l]) + 1)
      /\ \A i \in DOMAIN queue[l] : queue'[l][i] = queue[l][i]
      /\ queue'[l][Len(queue[l]) + 1] = t
      /\ DOMAIN queue[l] = 1..Len(queue[l])
      /\ Len(queue[l]) \in Nat
  BY <1>1 DEF TypeOK
<1>3. \A k \in Locks : \A i \in DOMAIN queue[k] : queue[k][i] # t
  BY NobodyRunsInLine DEF Running
<1> DEFINE Last(b, n) == b = l /\ n = Len(queue[l]) + 1
<1>4. \A b \in Locks : \A n \in DOMAIN queue'[b] :
        \/ Last(b, n) /\ queue'[b][n] = t
        \/ ~Last(b, n) /\ n \in DOMAIN queue[b] /\ queue'[b][n] = queue[b][n]
  <2> SUFFICES ASSUME NEW b \in Locks, NEW n \in DOMAIN queue'[b]
               PROVE  \/ Last(b, n) /\ queue'[b][n] = t
                      \/ /\ ~Last(b, n)
                         /\ n \in DOMAIN queue[b] /\ queue'[b][n] = queue[b][n]
    OBVIOUS
  <2>1. CASE b = l
    BY <2>1, <1>2
  <2>2. CASE b # l
    BY <2>2, <1>1
  <2> QED BY <2>1, <2>2
<1>5. \A b \in Locks : \A n \in DOMAIN queue[b] :
        n \in DOMAIN queue'[b] /\ queue'[b][n] = queue[b][n]
  <2> SUFFICES ASSUME NEW b \in Locks, NEW n \in DOMAIN queue[b]
               PROVE  n \in DOMAIN queue'[b] /\ queue'[b][n] = queue[b][n]
    OBVIOUS
  <2>1. CASE b = l
    BY <2>1, <1>2
  <2>2. CASE b # l
    BY <2>2, <1>1
  <2> QED BY <2>1, <2>2
<1>6. \E n \in DOMAIN queue'[l] : queue'[l][n] = t
  BY <1>2
<1> HIDE DEF Last
<1>7. \A u \in Threads :
        state'[u] = "blocked" <=>
          \E k \in Locks : \E i \in DOMAIN queue'[k] : queue'[k][i] = u
  <2>1. ASSUME NEW u \in Threads, u # t
        PROVE  state'[u] = "blocked" <=>
                 \E k \in Locks : \E i \in DOMAIN queue'[k] : queue'[k][i] = u
    BY <2>1, <1>1, <1>4, <1>5 DEF QueuesKept
  <2> QED BY <2>1, <1>1, <1>6
<1>8. ASSUME NEW k \in Locks, NEW m \in Locks,
             NEW i \in DOMAIN queue'[k], NEW j \in DOMAIN queue'[m],
             queue'[k][i] = queue'[m][j]
      PROVE  k = m /\ i = j
  <2>1. CASE Last(k, i) \/ Last(m, j)
    BY <2>1, <1>3, <1>4, <1>8 DEF Last
  <2>2. CASE ~Last(k, i) /\ ~Last(m, j)
    BY <2>2, <1>4, <1>8 DEF QueuesKept
  <2> QED BY <2>1, <2>2
<1> QED BY <1>1, <1>7, <1>8 DEF QueuesKept

\* The first n of the queue of l leave it and run.
Leaves(l, n) ==
  /\ \A k \in Locks \ {l} : queue'[k] = queue[k]
  /\ queue' \in [Locks -> Seq(Threads)]
  /\ DOMAIN queue'[l] = 1..(Len(queue[l]) - n)
  /\ \A i \in 1..(Len(queue[l]) - n) : queue'[l][i] = queue[l][i + n]
  /\ \A u \in Threads :
       state'[u] = IF \E i \in 1..n : queue[l][i] = u THEN "running" ELSE state[u]

LEMMA QueuesLeft ==
  ASSUME TypeOK, QueuesKept, NEW l \in Locks, NEW n \in 1..Len(queue[l]),
         Leaves(l, n)
  PROVE  QueuesKept'
<1> DEFINE Was(b, i) == IF b = l THEN i + n ELSE i
<1>1. /\ DOMAIN queue[l] = 1..Len(queue[l])
      /\ Len(queue[l]) \in Nat /\ n \in Nat
  BY DEF TypeOK
<1>2. \A b \in Locks : \A i \in DOMAIN queue'[b] :
        Was(b, i) \in DOMAIN queue[b] /\ queue'[b][i] = queue[b][Was(b, i)]
  <2> SUFFICES ASSUME NEW b \in Locks, NEW i \in DOMAIN queue'[b]
               PROVE  Was(b, i) \in DOMAIN queue[b] /\ queue'[b][i] = queue[b][Was(b, i)]
    OBVIOUS
  <2>1. CASE b = l
    BY <2>1, <1>1 DEF Leaves
  <2>2. CASE b # l
    BY <2>2 DEF Leaves
  <2> QED BY <2>1, <2>2
<1>3. \A b \in Locks : \A j \in DOMAIN queue[b] :
        \/ b = l /\ j \in 1..n
        \/ \E i \in DOMAIN queue'[b] : queue'[b][i] = queue[b][j]
  <2> SUFFICES ASSUME NEW b \in Locks, NEW j \in DOMAIN queue[b],
                      ~(b = l /\ j \in 1..n)
               PROVE  \E i \in DOMAIN queue'[b] : queue'[b][i] = queue[b][j]
    OBVIOUS
  <2>1. CASE b = l
    <3>1. /\ j - n \in DOMAIN queue'[l]
          /\ (j - n) + n = j
      BY <2>1, <1>1 DEF Leaves
    <3> QED BY <3>1, <2>1, <1>1 DEF Leaves
  <2>2. CASE b # l
    BY <2>2 DEF Leaves
  <2> QED BY <2>1, <2>2
<1>4. \A b \in Locks : \A i, j \in DOMAIN queue'[b] : Was(b, i) = Was(b, j) => i = j
  <2> SUFFICES ASSUME NEW b \in Locks, NEW i \in DOMAIN queue'[b],
                      NEW j \in DOMAIN queue'[b], Was(b, i) = Was(b, j)
               PROVE  i = j
    OBVIOUS
  <2> QED BY <1>1 DEF Leaves
<1>5. \A b \in Locks : \A i \in DOMAIN queue'[b] : b = l => Was(b, i) \notin 1..n
  BY <1>1 DEF Leaves
<1> HIDE DEF Was
<1>6. \A u \in Threads :
        state'[u] = "blocked" <=>
          \E k \in Locks : \E i \in DOMAIN queue'[k] : queue'[k][i] = u
  <2> SUFFICES ASSUME NEW u \in Threads
               PROVE state'[u] = "blocked" <=>
                 \E k \in Locks : \E i \in DOMAIN queue'[k] : queue'[k][i] = u
    OBVIOUS
  <2>1. CASE \E i \in 1..n : queue[l][i] = u
    <3>1. PICK i \in 1..n : queue[l][i] = u
      BY <2>1
    <3>2. i \in DOMAIN queue[l]
      BY <1>1
    <3>3. ASSUME NEW k \in Locks, NEW j \in DOMAIN queue'[k], queue'[k][j] = u
          PROVE  FALSE
      BY <1>2, <1>5, <3>1, <3>2, <3>3 DEF QueuesKept
    <3>4. state'[u] # "blocked"
      BY <2>1 DEF Leaves
    <3> QED BY <3>3, <3>4
  <2>2. CASE ~\E i \in 1..n : queue[l][i] = u
    <3>1. state'[u] = state[u]
      BY <2>2 DEF Leaves
    <3>2. ASSUME NEW k \in Locks, NEW j \in DOMAIN queue[k], queue[k][j] = u
          PROVE  \E i \in DOMAIN queue'[k] : queue'[k][i] = u
      BY <1>3, <2>2, <3>2
    <3> QED BY <1>2, <3>1, <3>2 DEF QueuesKept
  <2> QED BY <2>1, <2>2
<1>7. ASSUME NEW k \in Locks, NEW m \in Locks,
             NEW i \in DOMAIN queue'[k], NEW j \in DOMAIN queue'[m],
             queue'[k][i] = queue'[m][j]
      PROVE  k = m /\ i = j
  <2>1. k = m /\ Was(k, i) = Was(m, j)
    BY <1>2, <1>7 DEF QueuesKept
  <2> QED BY <2>1, <1>4
<1> QED BY <1>6, <1>7 DEF QueuesKept

LEMMA FirstLeaves ==
  ASSUME TypeOK, NEW t \in Threads, NEW l \in Locks, queue[l] # <<>>,
         Transfer(t, l)
  PROVE  /\ 1 \in 1..Len(queue[l])
         /\ Head(queue[l]) = queue[l][1]
         /\ Head(queue[l]) \in Threads
         /\ Leaves(l, 1)
         /\ state' \in [Threads -> States]
<1> DEFINE q == queue[l]
<1>1. /\ q \in Seq(Threads) /\ q # <<>>
      /\ Len(q) \in Nat /\ Len(q) >= 1
      /\ Head(q) = q[1] /\ Head(q) \in Threads
  BY DEF TypeOK
<1>2. /\ Tail(q) \in Seq(Threads)
      /\ DOMAIN Tail(q) = 1..(Len(q) - 1)
      /\ \A i \in 1..(Len(q) - 1) : Tail(q)[i] = q[i + 1]
  BY <1>1
<1> HIDE DEF q
<1>3. /\ queue' \in [Locks -> Seq(Threads)]
      /\ queue'[l] = Tail(q)
      /\ \A k \in Locks \ {l} : queue'[k] = queue[k]
  BY <1>2 DEF Transfer, TypeOK, q
<1>4. /\ state' \in [Threads -> States]
      /\ \A u \in Threads : state'[u] = IF u = q[1] THEN "running" ELSE state[u]
  BY <1>1 DEF Transfer, TypeOK, States, q
<1>5. \A u \in Threads : u = q[1] <=> \E i \in 1..1 : q[i] = u
  OBVIOUS
<1> QED BY <1>1, <1>2, <1>3, <1>4, <1>5 DEF Leaves, q

LEMMA ReadersLeave ==
  ASSUME TypeOK, NEW t \in Threads, NEW l \in Locks, NEW n \in 1..Len(queue[l]),
         WakeReaders(t, l, n)
  PROVE  /\ Leaves(l, n)
         /\ state' \in [Threads -> States]
<1> DEFINE q == queue[l]
<1>1. /\ q \in Seq(Threads) /\ Len(q) \in Nat /\ n \in 1..Len(q)
  BY DEF TypeOK
<1>2. /\ SubSeq(q, n + 1, Len(q)) \in Seq(Threads)
      /\ Len(SubSeq(q, n + 1, Len(q))) = Len(q) - n
      /\ \A i \in 1..(Len(q) - n) : SubSeq(q, n + 1, Len(q))[i] = q[i + n]
  <2>1. /\ n + 1 \in 1..(Len(q) + 1) /\ Len(q) \in n..Len(q)
        /\ Len(q) - (n + 1) + 1 = Len(q) - n
    BY <1>1
  <2> HIDE DEF q
  <2>2. ASSUME NEW i \in 1..(Len(q) - n)
        PROVE  (n + 1) + i - 1 = i + n
    BY <1>1
  <2> QED BY <2>1, <2>2, <1>1, SubSeqProperties
<1> HIDE DEF q
<1>3. DOMAIN SubSeq(q, n + 1, Len(q)) = 1..(Len(q) - n)
  BY <1>2, LenProperties
<1>4. /\ queue' \in [Locks -> Seq(Threads)]
      /\ queue'[l] = SubSeq(q, n + 1, Len(q))
      /\ \A k \in Locks \ {l} : queue'[k] = queue[k]
  BY <1>2 DEF WakeReaders, TypeOK, q
<1>5. /\ state' \in [Threads -> States]
      /\ \A u \in Threads :
           state'[u] = IF \E i \in 1..n : q[i] = u THEN "running" ELSE state[u]
  BY DEF WakeReaders, TypeOK, States, q
<1> QED BY <1>2, <1>3, <1>4, <1>5 DEF Leaves, q

-------------------------------------------------------------------------------
\* The three ways in which a step concerns the queue of a lock.

\* A thread that has nothing of l joins its queue.
LEMMA WaitKeeps ==
  ASSUME LockInv, NEW t \in Threads, NEW l \in Locks,
         MayAsk(t, l), Block(t, l), held[t][l] = "none",
         IF l \in Mutexes THEN owner[l] # None ELSE count[l] # 0 \/ queue[l] # <<>>,
         shared' \in [Threads -> BOOLEAN],
         \A u \in Threads \ {t} : shared'[u] = shared[u],
         l \in RwLocks /\ count[l] > 0 /\ queue[l] = <<>> => ~shared'[t]
  PROVE  LockInv'
<1>1. /\ QueuesKept'
      /\ queue' \in [Locks -> Seq(Threads)]
      /\ state' \in [Threads -> States]
      /\ \A k \in Locks \ {l} : queue'[k] = queue[k]
      /\ queue'[l] = Append(queue[l], t)
  BY QueuesJoined DEF LockInv, MayAsk
<1>2. UNCHANGED <<owner, mask, count, depth, held>>
  BY DEF Block
<1>3. TypeOK'
  BY <1>1, <1>2 DEF LockInv, TypeOK, States
<1>4. \A k \in Locks : \A i \in DOMAIN queue[k] : queue[k][i] # t
  BY NobodyRunsInLine DEF LockInv, MayAsk, Running
<1>5. ASSUME NEW k \in Locks, k # l
      PROVE  LockKept(k)'
  <2>1. /\ LockKept(k) /\ queue[k] \in Seq(Threads)
        /\ owner'[k] = owner[k] /\ mask'[k] = mask[k] /\ count'[k] = count[k]
        /\ queue'[k] = queue[k]
        /\ \A u \in Threads : held'[u][k] = held[u][k]
    BY <1>1, <1>2, <1>5 DEF LockInv, TypeOK
  <2>2. \A i \in DOMAIN queue[k] : shared'[queue[k][i]] = shared[queue[k][i]]
    BY <1>4, <2>1
  <2> QED BY <2>1, <2>2, Untouched
<1>6. LockKept(l)'
  <2>1. MutexKept(l)' /\ WriterKept(l)' /\ ReadersKept(l)'
    BY <1>2 DEF LockInv, LockKept, MutexKept, WriterKept, ReadersKept
  <2>2. /\ queue[l] \in Seq(Threads)
        /\ DOMAIN queue'[l] = 1..(Len(queue[l]) + 1)
        /\ \A i \in DOMAIN queue[l] : queue'[l][i] = queue[l][i]
        /\ queue'[l][Len(queue[l]) + 1] = t
        /\ DOMAIN queue[l] = 1..Len(queue[l])
        /\ Len(queue[l]) \in Nat
    BY <1>1 DEF LockInv, TypeOK
  <2>3. ASSUME NEW i \in DOMAIN queue'[l]
        PROVE  held'[queue'[l][i]][l] = "none"
    BY <1>2, <2>2 DEF LockInv, LockKept, WaitersKept
  <2>4. IF l \in Mutexes THEN owner'[l] # None ELSE count'[l] # 0
    BY <1>2 DEF LockInv, LockKept, WaitersKept
  <2>5. ASSUME l \in RwLocks, count'[l] > 0
        PROVE  ~shared'[Head(queue'[l])]
    <3>1. CASE queue[l] = <<>>
      BY <1>1, <1>2, <2>5, <3>1
    <3>2. CASE queue[l] # <<>>
      <4>1. /\ Head(queue'[l]) = queue[l][1]
            /\ Head(queue[l]) = queue[l][1]
            /\ 1 \in DOMAIN queue[l] /\ queue[l][1] \in Threads
        BY <1>1, <2>2, <3>2
      <4>2. ~shared[queue[l][1]]
        BY <1>2, <2>5, <3>2, <4>1 DEF LockInv, LockKept, WaitersKept
      <4> QED BY <4>1, <4>2, <1>4
    <3> QED BY <3>1, <3>2
  <2> QED BY <2>1, <2>3, <2>4, <2>5 DEF LockKept, WaitersKept
<1> QED BY <1>1, <1>3, <1>5, <1>6 DEF LockInv

\* Who has l alone gives it to the first of the queue, to write.
LEMMA TransferKeeps ==
  ASSUME LockInv, NEW t \in Threads, NEW l \in Locks, queue[l] # <<>>,
         held[t][l] # "none",
         \A u \in Threads \ {t} : held[u][l] = "none",
         Transfer(t, l),
         mask' \in [Locks -> SUBSET Threads], count' \in [Locks -> Int],
         \A k \in Locks \ {l} : mask'[k] = mask[k] /\ count'[k] = count[k],
         l \in RwLocks => mask'[l] = {} /\ count'[l] = -1,
         UNCHANGED <<depth, shared>>
  PROVE  LockInv'
<1> DEFINE w == Head(queue[l])
<1>1. /\ 1 \in 1..Len(queue[l]) /\ w = queue[l][1] /\ w \in Threads
      /\ Leaves(l, 1) /\ state' \in [Threads -> States]
  BY FirstLeaves DEF LockInv
<1>2. QueuesKept'
  BY <1>1, QueuesLeft DEF LockInv
<1>3. /\ owner' = [owner EXCEPT ![l] = w]
      /\ Give(t, l, {w}, "write")
  BY DEF Transfer
<1>4. w # t
  BY <1>1 DEF LockInv, LockKept, WaitersKept, TypeOK
<1> HIDE DEF w
<1>5. /\ held' \in [Threads -> [Locks -> Modes]]
      /\ \A u \in Threads, k \in Locks :
           held'[u][k] = IF k # l THEN held[u][k]
                         ELSE IF u = t THEN "none"
                         ELSE IF u \in {w} THEN "write"
                         ELSE held[u][k]
  BY <1>1, <1>3, GiveChanges DEF LockInv, Modes
<1>6. \A u \in Threads : held'[u][l] = IF u = w THEN "write" ELSE "none"
  BY <1>4, <1>5
<1>7. /\ owner' \in [Locks -> Threads \cup {None}] /\ owner'[l] = w
      /\ \A k \in Locks \ {l} : owner'[k] = owner[k]
  BY <1>1, <1>3 DEF LockInv, TypeOK
<1>8. TypeOK'
  BY <1>1, <1>5, <1>7 DEF LockInv, TypeOK, Leaves, States, Modes
<1>9. ASSUME NEW k \in Locks, k # l
      PROVE  LockKept(k)'
  <2>1. /\ LockKept(k) /\ queue[k] \in Seq(Threads)
        /\ owner'[k] = owner[k] /\ mask'[k] = mask[k] /\ count'[k] = count[k]
        /\ queue'[k] = queue[k]
        /\ \A u \in Threads : held'[u][k] = held[u][k]
        /\ shared' = shared
    BY <1>1, <1>5, <1>7, <1>9 DEF LockInv, TypeOK, Leaves
  <2> QED BY <2>1, Untouched
<1>10. LockKept(l)'
  <2>1. MutexKept(l)'
    BY <1>6, <1>7 DEF MutexKept
  <2>2. WriterKept(l)'
    BY <1>1, <1>6, <1>7 DEF WriterKept
  <2>3. ReadersKept(l)'
    BY DEF ReadersKept
  <2>4. ASSUME NEW i \in DOMAIN queue'[l]
        PROVE  held'[queue'[l][i]][l] = "none"
    <3>1. /\ queue[l] \in Seq(Threads)
          /\ Len(queue[l]) \in Nat /\ DOMAIN queue[l] = 1..Len(queue[l])
      BY DEF LockInv, TypeOK
    <3>2. /\ i + 1 \in DOMAIN queue[l] /\ i + 1 # 1 /\ 1 \in DOMAIN queue[l]
          /\ queue'[l][i] = queue[l][i + 1]
          /\ queue[l][i + 1] \in Threads
      BY <1>1, <2>4, <3>1 DEF Leaves
    <3>3. queue[l][i + 1] # w
      BY <1>1, <3>2 DEF LockInv, QueuesKept
    <3> QED BY <1>6, <3>2, <3>3
  <2>5. w # None
    BY <1>1, LockConstants
  <2>6. l \notin Mutexes => l \in RwLocks
    BY DEF Locks
  <2> QED BY <1>7, <2>1, <2>2, <2>3, <2>4, <2>5, <2>6 DEF LockKept, WaitersKept
<1> QED BY <1>2, <1>8, <1>9, <1>10 DEF LockInv

\* The writer gives l to the n readers at the front of the queue.
LEMMA ReadersCounted ==
  ASSUME LockInv, NEW l \in Locks, NEW n \in 1..Len(queue[l]),
         NEW woken, woken = {queue[l][i] : i \in 1..n}
  PROVE  /\ woken \in SUBSET Threads
         /\ IsFiniteSet(woken) /\ Cardinality(woken) = n
<1> DEFINE f == [i \in 1..n |-> queue[l][i]]
<1>1. /\ queue[l] \in Seq(Threads)
      /\ Len(queue[l]) \in Nat /\ DOMAIN queue[l] = 1..Len(queue[l])
      /\ n \in Nat /\ 1..n \subseteq DOMAIN queue[l]
  BY DEF LockInv, TypeOK
<1>2. woken \in SUBSET Threads
  BY <1>1
<1>3. \A i, j \in 1..n : queue[l][i] = queue[l][j] => i = j
  BY <1>1 DEF LockInv, QueuesKept
<1>4. f \in Bijection(1..n, woken)
  <2>1. f \in [1..n -> woken] /\ \A i \in 1..n : f[i] = queue[l][i]
    OBVIOUS
  <2>2. \A i, j \in 1..n : f[i] = f[j] => i = j
    BY <1>3, <2>1
  <2>3. \A x \in woken : \E i \in 1..n : f[i] = x
    OBVIOUS
  <2> QED BY <2>1, <2>2, <2>3 DEF Bijection, Injection, Surjection, IsInjective
<1>5. ExistsBijection(1..n, woken)
  BY <1>4 DEF ExistsBijection
<1>6. IsFiniteSet(woken)
  BY <1>1, <1>5, FS_NatBijection
<1>7. Cardinality(woken) = n
  BY <1>1, <1>5, FS_CountingElements
<1> QED BY <1>2, <1>6, <1>7

LEMMA WakeReadersKeeps ==
  ASSUME LockInv, NEW t \in Threads, NEW l \in RwLocks, NEW n \in 1..Len(queue[l]),
         held[t][l] = "write",
         WakeReaders(t, l, n)
  PROVE  LockInv'
<1> DEFINE woken == {queue[l][i] : i \in 1..n}
<1>0. l \in Locks /\ l \notin Mutexes
  BY LockConstants DEF Locks
<1>1. /\ Leaves(l, n) /\ state' \in [Threads -> States] /\ QueuesKept'
  BY <1>0, ReadersLeave, QueuesLeft DEF LockInv
<1>2. /\ woken \in SUBSET Threads
      /\ IsFiniteSet(woken) /\ Cardinality(woken) = n
  BY <1>0, ReadersCounted
<1>3. /\ queue[l] \in Seq(Threads) /\ n \in Nat /\ n >= 1
      /\ Len(queue[l]) \in Nat /\ DOMAIN queue[l] = 1..Len(queue[l])
      /\ Head(queue[l]) = queue[l][1] /\ queue[l][1] \in Threads
  BY <1>0 DEF LockInv, TypeOK
<1>4. /\ count[l] = -1 /\ owner[l] = t /\ mask[l] = {}
      /\ \A u \in Threads \ {t} : held[u][l] = "none"
  BY <1>0 DEF WakeReaders, LockInv, LockKept, WriterKept
<1>5. t \notin woken
  BY <1>0, <1>3 DEF LockInv, LockKept, WaitersKept
<1>6. /\ count' = [count EXCEPT ![l] = n]
      /\ mask' = [mask EXCEPT ![l] = @ \cup woken]
      /\ owner' = [owner EXCEPT ![l] = IF n = 1 THEN Head(queue[l]) ELSE None]
      /\ Give(t, l, woken, "read")
      /\ ReadersAhead(l, n)
      /\ UNCHANGED <<depth, shared>>
  BY DEF WakeReaders
<1>7. n = 1 => woken = {Head(queue[l])}
  BY <1>3
<1> HIDE DEF woken
<1>8. /\ count' \in [Locks -> Int] /\ count'[l] = n
      /\ mask' \in [Locks -> SUBSET Threads] /\ mask'[l] = woken
      /\ owner' \in [Locks -> Threads \cup {None}]
      /\ n = 1 => owner'[l] = Head(queue[l])
      /\ \A k \in Locks \ {l} :
           count'[k] = count[k] /\ mask'[k] = mask[k] /\ owner'[k] = owner[k]
  BY <1>0, <1>2, <1>3, <1>4, <1>6 DEF LockInv, TypeOK
<1>9. /\ held' \in [Threads -> [Locks -> Modes]]
      /\ \A u \in Threads, k \in Locks :
           held'[u][k] = IF k # l THEN held[u][k]
                         ELSE IF u = t THEN "none"
                         ELSE IF u \in woken THEN "read"
                         ELSE held[u][k]
  BY <1>0, <1>2, <1>6, GiveChanges DEF LockInv, Modes
<1>10. \A u \in Threads : held'[u][l] = IF u \in woken THEN "read" ELSE "none"
  BY <1>0, <1>4, <1>5, <1>9
<1>11. TypeOK'
  BY <1>1, <1>6, <1>8, <1>9 DEF LockInv, TypeOK, Leaves, States, Modes
<1>12. ASSUME NEW k \in Locks, k # l
       PROVE  LockKept(k)'
  <2>1. /\ LockKept(k) /\ queue[k] \in Seq(Threads)
        /\ owner'[k] = owner[k] /\ mask'[k] = mask[k] /\ count'[k] = count[k]
        /\ queue'[k] = queue[k]
        /\ \A u \in Threads : held'[u][k] = held[u][k]
        /\ shared' = shared
    BY <1>1, <1>6, <1>8, <1>9, <1>12 DEF LockInv, TypeOK, Leaves
  <2> QED BY <2>1, Untouched
<1>13. LockKept(l)'
  <2>1. MutexKept(l)' /\ WriterKept(l)'
    BY <1>0, <1>3, <1>8 DEF MutexKept, WriterKept
  <2>2. ReadersKept(l)'
    BY <1>2, <1>7, <1>8, <1>10 DEF ReadersKept
  <2>3. ASSUME NEW i \in DOMAIN queue'[l]
        PROVE  held'[queue'[l][i]][l] = "none"
    <3>1. /\ i + n \in DOMAIN queue[l] /\ i + n \notin 1..n
          /\ queue'[l][i] = queue[l][i + n]
          /\ queue[l][i + n] \in Threads
      BY <1>1, <1>3, <2>3 DEF Leaves
    <3>2. queue[l][i + n] \notin woken
      BY <1>0, <1>3, <3>1 DEF LockInv, QueuesKept, woken
    <3> QED BY <1>10, <3>1, <3>2
  <2>4. queue'[l] # <<>> => ~shared'[Head(queue'[l])]
    <3> SUFFICES ASSUME queue'[l] # <<>> PROVE ~shared'[Head(queue'[l])]
      OBVIOUS
    <3>1. /\ queue'[l] \in Seq(Threads) /\ Len(queue'[l]) = Len(queue[l]) - n
      BY <1>0, <1>1, <1>3 DEF Leaves
    <3>2. /\ n < Len(queue[l])
          /\ Head(queue'[l]) = queue[l][n + 1]
      BY <1>1, <1>3, <3>1 DEF Leaves
    <3> QED BY <1>6, <3>2 DEF ReadersAhead
  <2> QED BY <1>0, <1>3, <1>8, <2>1, <2>2, <2>3, <2>4 DEF LockKept, WaitersKept
<1> QED BY <1>1, <1>11, <1>12, <1>13 DEF LockInv

-------------------------------------------------------------------------------
\* The steps of the mutex.

LEMMA MutexCountKeeps ==
  ASSUME LockInv, NEW t \in Threads, NEW l \in Mutexes,
         MutexAgain(t, l) \/ MutexLess(t, l)
  PROVE  LockInv'
<1>1. /\ count' \in [Locks -> Int]
      /\ \A k \in Locks \ {l} : count'[k] = count[k]
      /\ UNCHANGED <<owner, mask, depth, queue, shared, state, held>>
  BY DEF MutexAgain, MutexLess, LockInv, TypeOK, Locks
<1>2. TypeOK' /\ QueuesKept'
  BY <1>1, QueuesAlone DEF LockInv, TypeOK
<1>3. ASSUME NEW k \in Locks
      PROVE  LockKept(k)'
  <2>1. CASE k = l
    BY <1>1, <2>1, LockConstants
      DEF LockInv, LockKept, MutexKept, WriterKept, ReadersKept, WaitersKept
  <2>2. CASE k # l
    BY <1>1, <2>2, Untouched DEF LockInv, TypeOK
  <2> QED BY <2>1, <2>2
<1> QED BY <1>2, <1>3 DEF LockInv

LEMMA MutexOpenKeeps ==
  ASSUME LockInv, NEW t \in Threads, NEW l \in Mutexes, MutexOpen(t, l)
  PROVE  LockInv'
<1>0. l \in Locks /\ l \notin RwLocks /\ t # None
  BY LockConstants DEF Locks
<1>1. /\ owner' \in [Locks -> Threads \cup {None}] /\ owner'[l] = t
      /\ \A k \in Locks \ {l} : owner'[k] = owner[k]
      /\ UNCHANGED <<mask, count, depth, queue, shared, state>>
  BY <1>0 DEF MutexOpen, LockInv, TypeOK
<1>2. /\ held' \in [Threads -> [Locks -> Modes]]
      /\ \A u \in Threads, k \in Locks :
           held'[u][k] = IF u = t /\ k = l THEN "write" ELSE held[u][k]
  BY <1>0 DEF MutexOpen, LockInv, TypeOK, Modes
<1>3. TypeOK' /\ QueuesKept'
  BY <1>1, <1>2, QueuesAlone DEF LockInv, TypeOK, Modes
<1>4. ASSUME NEW k \in Locks
      PROVE  LockKept(k)'
  <2>1. CASE k = l
    <3>1. owner[l] = None /\ queue[l] = <<>>
      BY <1>0 DEF MutexOpen, LockInv, LockKept, WaitersKept
    <3>2. \A u \in Threads : held[u][l] = "none"
      BY <1>0, <3>1, LockConstants DEF LockInv, LockKept, MutexKept
    <3>3. MutexKept(l)'
      BY <1>0, <1>1, <1>2, <3>2 DEF MutexKept
    <3> QED BY <1>0, <1>1, <2>1, <3>1, <3>3
          DEF LockKept, WriterKept, ReadersKept, WaitersKept
  <2>2. CASE k # l
    BY <1>1, <1>2, <2>2, Untouched DEF LockInv, TypeOK
  <2> QED BY <2>1, <2>2
<1> QED BY <1>3, <1>4 DEF LockInv

LEMMA MutexWaitKeeps ==
  ASSUME LockInv, NEW t \in Threads, NEW l \in Mutexes, MutexWait(t, l)
  PROVE  LockInv'
<1>1. l \in Locks /\ l \notin RwLocks
  BY LockConstants DEF Locks
<1>2. held[t][l] = "none" /\ owner[l] # None
  BY <1>1 DEF MutexWait, LockInv, LockKept, MutexKept
<1> QED BY <1>1, <1>2, WaitKeeps DEF MutexWait, LockInv, TypeOK

LEMMA MutexFreeKeeps ==
  ASSUME LockInv, NEW t \in Threads, NEW l \in Mutexes,
         held[t][l] = "write", MutexFree(t, l)
  PROVE  LockInv'
<1>0. l \in Locks /\ l \notin RwLocks
  BY LockConstants DEF Locks
<1>1. /\ owner' \in [Locks -> Threads \cup {None}] /\ owner'[l] = None
      /\ \A k \in Locks \ {l} : owner'[k] = owner[k]
      /\ UNCHANGED <<mask, count, depth, queue, shared, state>>
  BY <1>0 DEF MutexFree, LockInv, TypeOK
<1>2. /\ held' \in [Threads -> [Locks -> Modes]]
      /\ \A u \in Threads, k \in Locks :
           held'[u][k] = IF k # l THEN held[u][k]
                         ELSE IF u = t THEN "none" ELSE held[u][k]
  BY <1>0, GiveChanges DEF MutexFree, LockInv, Modes
<1>3. TypeOK' /\ QueuesKept'
  BY <1>1, <1>2, QueuesAlone DEF LockInv, TypeOK, Modes
<1>4. ASSUME NEW k \in Locks
      PROVE  LockKept(k)'
  <2>1. CASE k = l
    <3>1. queue[l] = <<>>
      BY DEF MutexFree
    <3>2. \A u \in Threads \ {t} : held[u][l] = "none"
      BY <1>0 DEF LockInv, LockKept, MutexKept
    <3>3. MutexKept(l)'
      BY <1>0, <1>1, <1>2, <3>2, LockConstants DEF MutexKept
    <3> QED BY <1>0, <1>1, <2>1, <3>1, <3>3
          DEF LockKept, WriterKept, ReadersKept, WaitersKept
  <2>2. CASE k # l
    BY <1>1, <1>2, <2>2, Untouched DEF LockInv, TypeOK
  <2> QED BY <2>1, <2>2
<1> QED BY <1>3, <1>4 DEF LockInv

LEMMA MutexPassKeeps ==
  ASSUME LockInv, NEW t \in Threads, NEW l \in Mutexes,
         held[t][l] = "write", MutexPass(t, l)
  PROVE  LockInv'
<1>1. l \in Locks /\ l \notin RwLocks
  BY LockConstants DEF Locks
<1>2. \A u \in Threads \ {t} : held[u][l] = "none"
  BY <1>1 DEF LockInv, LockKept, MutexKept
<1> QED BY <1>1, <1>2, TransferKeeps DEF MutexPass, LockInv, TypeOK

-------------------------------------------------------------------------------
\* The steps of the readers/writer lock.

LEMMA RwLocksAreLocks ==
  ASSUME NEW l \in RwLocks PROVE l \in Locks /\ l \notin Mutexes
BY LockConstants DEF Locks

\* In the order of nesting, who asks for a lock has nothing of it.
LEMMA AskerHasNothing ==
  ASSUME TypeOK, NEW t \in Threads, NEW l \in Locks, MayAsk(t, l)
  PROVE  held[t][l] = "none"
<1>1. Rank[l] \in Int
  BY LockConstants
<1>2. ~(Rank[l] < Rank[l])
  BY <1>1
<1> QED BY <1>2 DEF MayAsk

\* A reader or a writer takes again, or gives back, what it keeps.
LEMMA DepthKeeps ==
  ASSUME LockInv, NEW t \in Threads, NEW l \in RwLocks,
         ReadAgain(t, l) \/ ReadLess(t, l)
  PROVE  LockInv'
<1>1. /\ depth' \in [Locks -> [Threads -> Nat]]
      /\ UNCHANGED <<owner, mask, count, queue, shared, state, held>>
  <2>1. /\ l \in Locks /\ depth \in [Locks -> [Threads -> Nat]]
        /\ depth[l] \in [Threads -> Nat] /\ depth[l][t] \in Nat
    BY RwLocksAreLocks DEF LockInv, TypeOK
  <2>2. ASSUME NEW n \in Nat, depth' = [depth EXCEPT ![l][t] = n]
        PROVE  depth' \in [Locks -> [Threads -> Nat]]
    BY <2>1, <2>2
  <2>3. CASE ReadAgain(t, l)
    BY <2>1, <2>2, <2>3 DEF ReadAgain
  <2>4. CASE ReadLess(t, l)
    BY <2>1, <2>2, <2>4 DEF ReadLess
  <2> QED BY <2>3, <2>4
<1>2. TypeOK' /\ QueuesKept'
  BY <1>1, QueuesAlone DEF LockInv, TypeOK
<1>3. ASSUME NEW k \in Locks
      PROVE  LockKept(k)'
  BY <1>1, Untouched DEF LockInv, TypeOK
<1> QED BY <1>2, <1>3 DEF LockInv

LEMMA WriteCountKeeps ==
  ASSUME LockInv, NEW t \in Threads, NEW l \in RwLocks,
         WriteAgain(t, l) \/ WriteLess(t, l), held[t][l] = "write"
  PROVE  LockInv'
<1>0. l \in Locks /\ l \notin Mutexes
  BY RwLocksAreLocks
<1>1. count[l] < 0 /\ count[l] \in Int
  <2>1. count[l] \in Int
    BY <1>0 DEF LockInv, TypeOK
  <2>2. ~(count[l] >= 0)
    BY <1>0 DEF LockInv, LockKept, ReadersKept
  <2> QED BY <2>1, <2>2
<1>2. /\ count' \in [Locks -> Int] /\ count'[l] < 0
      /\ \A k \in Locks \ {l} : count'[k] = count[k]
      /\ UNCHANGED <<owner, mask, depth, queue, shared, state, held>>
  BY <1>0, <1>1 DEF WriteAgain, WriteLess, LockInv, TypeOK
<1>3. TypeOK' /\ QueuesKept'
  BY <1>2, QueuesAlone DEF LockInv, TypeOK
<1>4. ASSUME NEW k \in Locks
      PROVE  LockKept(k)'
  <2>1. CASE k = l
    BY <1>0, <1>1, <1>2, <2>1
      DEF LockInv, LockKept, MutexKept, WriterKept, ReadersKept, WaitersKept
  <2>2. CASE k # l
    BY <1>2, <2>2, Untouched DEF LockInv, TypeOK
  <2> QED BY <2>1, <2>2
<1> QED BY <1>3, <1>4 DEF LockInv

LEMMA ReadOpenKeeps ==
  ASSUME LockInv, NEW t \in Threads, NEW l \in RwLocks, ReadOpen(t, l)
  PROVE  LockInv'
<1>0. l \in Locks /\ l \notin Mutexes
  BY RwLocksAreLocks
<1>1. /\ count[l] \in Int /\ count[l] >= 0 /\ t \notin mask[l]
      /\ IsFiniteSet(mask[l]) /\ Cardinality(mask[l]) = count[l]
      /\ \A u \in Threads : held[u][l] = IF u \in mask[l] THEN "read" ELSE "none"
      /\ queue[l] = <<>>
  BY <1>0 DEF ReadOpen, LockInv, LockKept, ReadersKept, TypeOK
<1>2. /\ count' \in [Locks -> Int] /\ count'[l] = count[l] + 1
      /\ mask' \in [Locks -> SUBSET Threads] /\ mask'[l] = mask[l] \cup {t}
      /\ owner' \in [Locks -> Threads \cup {None}]
      /\ count[l] = 0 => owner'[l] = t
      /\ \A k \in Locks \ {l} :
           count'[k] = count[k] /\ mask'[k] = mask[k] /\ owner'[k] = owner[k]
      /\ UNCHANGED <<depth, queue, shared, state>>
  BY <1>0 DEF ReadOpen, LockInv, TypeOK
<1>3. /\ held' \in [Threads -> [Locks -> Modes]]
      /\ \A u \in Threads, k \in Locks :
           held'[u][k] = IF u = t /\ k = l THEN "read" ELSE held[u][k]
  BY <1>0 DEF ReadOpen, LockInv, TypeOK, Modes
<1>4. TypeOK' /\ QueuesKept'
  BY <1>2, <1>3, QueuesAlone DEF LockInv, TypeOK, Modes
<1>5. /\ IsFiniteSet(mask'[l]) /\ Cardinality(mask'[l]) = count'[l]
  <2>1. /\ IsFiniteSet(mask[l] \cup {t})
        /\ Cardinality(mask[l] \cup {t}) = Cardinality(mask[l]) + 1
    BY <1>1, FS_AddElement
  <2> QED BY <1>1, <1>2, <2>1
<1>6. count'[l] = 1 => mask'[l] = {owner'[l]}
  <2> SUFFICES ASSUME count'[l] = 1 PROVE mask'[l] = {owner'[l]}
    OBVIOUS
  <2>1. count[l] = 0
    BY <1>1, <1>2
  <2>2. mask[l] = {}
    BY <1>1, <2>1, FS_EmptySet
  <2> QED BY <1>2, <2>1, <2>2
<1>7. ASSUME NEW k \in Locks
      PROVE  LockKept(k)'
  <2>1. CASE k = l
    <3>1. ReadersKept(l)'
      BY <1>0, <1>1, <1>2, <1>3, <1>5, <1>6 DEF ReadersKept
    <3>2. MutexKept(l)' /\ WriterKept(l)' /\ WaitersKept(l)'
      BY <1>0, <1>1, <1>2 DEF MutexKept, WriterKept, WaitersKept
    <3> QED BY <2>1, <3>1, <3>2 DEF LockKept
  <2>2. CASE k # l
    BY <1>2, <1>3, <2>2, Untouched DEF LockInv, TypeOK
  <2> QED BY <2>1, <2>2
<1> QED BY <1>4, <1>7 DEF LockInv

LEMMA ReadWaitKeeps ==
  ASSUME LockInv, NEW t \in Threads, NEW l \in RwLocks, ReadWait(t, l)
  PROVE  LockInv'
<1>0. l \in Locks /\ l \notin Mutexes
  BY RwLocksAreLocks
<1>1. held[t][l] = "none"
  BY <1>0, AskerHasNothing DEF ReadWait, LockInv
<1>2. count[l] \in Int
  BY <1>0 DEF LockInv, TypeOK
<1>3. /\ shared' \in [Threads -> BOOLEAN]
      /\ \A u \in Threads \ {t} : shared'[u] = shared[u]
  BY DEF ReadWait, LockInv, TypeOK
<1>4. /\ MayAsk(t, l) /\ Block(t, l)
      /\ count[l] # 0 \/ queue[l] # <<>>
      /\ ~(count[l] > 0 /\ queue[l] = <<>>)
  BY <1>2 DEF ReadWait
<1> QED BY <1>0, <1>1, <1>3, <1>4, WaitKeeps

LEMMA WriteWaitKeeps ==
  ASSUME LockInv, NEW t \in Threads, NEW l \in RwLocks, WriteWait(t, l)
  PROVE  LockInv'
<1>0. l \in Locks /\ l \notin Mutexes
  BY RwLocksAreLocks
<1>1. held[t][l] = "none"
  BY <1>0, AskerHasNothing DEF WriteWait, LockInv
<1>2. /\ shared' \in [Threads -> BOOLEAN] /\ ~shared'[t]
      /\ \A u \in Threads \ {t} : shared'[u] = shared[u]
  BY DEF WriteWait, LockInv, TypeOK
<1> QED BY <1>0, <1>1, <1>2, WaitKeeps DEF WriteWait

LEMMA RelinquishKeeps ==
  ASSUME LockInv, NEW t \in Threads, NEW l \in RwLocks,
         held[t][l] = "read", Relinquish(t, l)
  PROVE  LockInv'
<1> DEFINE n == count[l] - 1
           rest == mask[l] \ {t}
<1>0. l \in Locks /\ l \notin Mutexes
  BY RwLocksAreLocks
<1>1. count[l] \in Int /\ ~(count[l] < 0)
  BY <1>0 DEF LockInv, LockKept, WriterKept, TypeOK
<1>2. /\ IsFiniteSet(mask[l]) /\ Cardinality(mask[l]) = count[l]
      /\ mask[l] \in SUBSET Threads /\ t \in mask[l]
      /\ \A u \in Threads : held[u][l] = IF u \in mask[l] THEN "read" ELSE "none"
  BY <1>0, <1>1 DEF LockInv, LockKept, ReadersKept, TypeOK
<1>3. /\ IsFiniteSet(rest) /\ Cardinality(rest) = n /\ n \in Int
      /\ rest \in SUBSET Threads
  <2>1. /\ IsFiniteSet(mask[l] \ {t})
        /\ Cardinality(mask[l] \ {t}) = Cardinality(mask[l]) - 1
    BY <1>2, FS_RemoveElement
  <2> QED BY <1>1, <1>2, <2>1
<1>4. n >= 0
  BY <1>3, FS_CardinalityType
<1>5. ASSUME n = 1
      PROVE  rest = {CHOOSE u \in rest : TRUE}
  <2>1. PICK x : rest = {x}
    BY <1>3, <1>5, FS_Singleton
  <2> QED BY <2>1
<1>6. /\ count' \in [Locks -> Int] /\ count'[l] = n
      /\ mask' \in [Locks -> SUBSET Threads] /\ mask'[l] = rest
      /\ \A k \in Locks \ {l} : count'[k] = count[k] /\ mask'[k] = mask[k]
      /\ UNCHANGED <<depth, queue, shared, state>>
      /\ ~(n = 0 /\ queue[l] # <<>>)
  BY <1>0, <1>1, <1>3 DEF Relinquish, LockInv, TypeOK
<1>7. /\ owner' \in [Locks -> Threads \cup {None}]
      /\ n = 1 => rest = {owner'[l]}
      /\ \A k \in Locks \ {l} : owner'[k] = owner[k]
  <2>1. n = 1 => (CHOOSE u \in rest : TRUE) \in Threads
    BY <1>3, <1>5
  <2>2. owner' = [owner EXCEPT ![l] = IF n = 0 THEN None
                                     ELSE IF n = 1 THEN CHOOSE u \in rest : TRUE
                                     ELSE @]
    BY DEF Relinquish
  <2> HIDE DEF rest, n
  <2> QED BY <1>0, <1>5, <2>1, <2>2 DEF LockInv, TypeOK
<1>8. /\ held' \in [Threads -> [Locks -> Modes]]
      /\ \A u \in Threads, k \in Locks :
           held'[u][k] = IF k # l THEN held[u][k]
                         ELSE IF u = t THEN "none" ELSE held[u][k]
  BY <1>0, GiveChanges DEF Relinquish, LockInv, Modes
<1>9. TypeOK' /\ QueuesKept'
  BY <1>6, <1>7, <1>8, QueuesAlone DEF LockInv, TypeOK, Modes
<1>10. ASSUME NEW k \in Locks
       PROVE  LockKept(k)'
  <2>1. CASE k = l
    <3>1. ReadersKept(l)'
      BY <1>0, <1>2, <1>3, <1>6, <1>7, <1>8 DEF ReadersKept
    <3>2. MutexKept(l)' /\ WriterKept(l)'
      BY <1>0, <1>4, <1>6 DEF MutexKept, WriterKept
    <3>3. \A i \in DOMAIN queue[l] : held'[queue[l][i]][l] = "none"
      BY <1>0, <1>8 DEF LockInv, LockKept, WaitersKept, TypeOK
    <3>4. queue[l] # <<>> => n # 0 /\ (n > 0 => ~shared[Head(queue[l])])
      BY <1>0, <1>1, <1>4, <1>6 DEF LockInv, LockKept, WaitersKept
    <3>5. WaitersKept(l)'
      BY <1>0, <1>6, <3>3, <3>4 DEF WaitersKept
    <3> QED BY <2>1, <3>1, <3>2, <3>5 DEF LockKept
  <2>2. CASE k # l
    BY <1>6, <1>7, <1>8, <2>2, Untouched DEF LockInv, TypeOK
  <2> QED BY <2>1, <2>2
<1> QED BY <1>9, <1>10 DEF LockInv

LEMMA ReadPassKeeps ==
  ASSUME LockInv, NEW t \in Threads, NEW l \in RwLocks,
         held[t][l] = "read", ReadPass(t, l)
  PROVE  LockInv'
<1>0. l \in Locks /\ l \notin Mutexes
  BY RwLocksAreLocks
<1>1. /\ mask[l] = {owner[l]}
      /\ \A u \in Threads : held[u][l] = IF u \in mask[l] THEN "read" ELSE "none"
  BY <1>0 DEF ReadPass, LockInv, LockKept, ReadersKept
<1>2. /\ \A u \in Threads \ {t} : held[u][l] = "none"
      /\ mask[l] \ {t} = {}
  BY <1>1
<1>3. /\ mask' \in [Locks -> SUBSET Threads] /\ mask'[l] = {}
      /\ count' \in [Locks -> Int] /\ count'[l] = -1
      /\ \A k \in Locks \ {l} : mask'[k] = mask[k] /\ count'[k] = count[k]
  BY <1>0, <1>2 DEF ReadPass, LockInv, TypeOK
<1> QED BY <1>0, <1>2, <1>3, TransferKeeps DEF ReadPass

LEMMA WriteOpenKeeps ==
  ASSUME LockInv, NEW t \in Threads, NEW l \in RwLocks, WriteOpen(t, l)
  PROVE  LockInv'
<1>0. l \in Locks /\ l \notin Mutexes
  BY RwLocksAreLocks
<1>1. /\ count[l] = 0 /\ IsFiniteSet(mask[l]) /\ Cardinality(mask[l]) = 0
      /\ \A u \in Threads : held[u][l] = IF u \in mask[l] THEN "read" ELSE "none"
      /\ queue[l] = <<>>
  BY <1>0 DEF WriteOpen, LockInv, LockKept, ReadersKept, WaitersKept
<1>2. mask[l] = {}
  BY <1>1, FS_EmptySet
<1>3. /\ count' \in [Locks -> Int] /\ count'[l] = -1
      /\ owner' \in [Locks -> Threads \cup {None}] /\ owner'[l] = t
      /\ \A k \in Locks \ {l} : count'[k] = count[k] /\ owner'[k] = owner[k]
      /\ UNCHANGED <<mask, depth, queue, shared, state>>
  BY <1>0 DEF WriteOpen, LockInv, TypeOK
<1>4. /\ held' \in [Threads -> [Locks -> Modes]]
      /\ \A u \in Threads, k \in Locks :
           held'[u][k] = IF u = t /\ k = l THEN "write" ELSE held[u][k]
  BY <1>0 DEF WriteOpen, LockInv, TypeOK, Modes
<1>5. TypeOK' /\ QueuesKept'
  BY <1>3, <1>4, QueuesAlone DEF LockInv, TypeOK, Modes
<1>6. ASSUME NEW k \in Locks
      PROVE  LockKept(k)'
  <2>1. CASE k = l
    <3>1. WriterKept(l)'
      BY <1>0, <1>1, <1>2, <1>3, <1>4 DEF WriterKept
    <3>2. MutexKept(l)' /\ ReadersKept(l)' /\ WaitersKept(l)'
      BY <1>0, <1>1, <1>3 DEF MutexKept, ReadersKept, WaitersKept
    <3> QED BY <2>1, <3>1, <3>2 DEF LockKept
  <2>2. CASE k # l
    BY <1>3, <1>4, <2>2, Untouched DEF LockInv, TypeOK
  <2> QED BY <2>1, <2>2
<1> QED BY <1>5, <1>6 DEF LockInv

LEMMA WriterIsAlone ==
  ASSUME LockInv, NEW t \in Threads, NEW l \in RwLocks, held[t][l] = "write"
  PROVE  /\ count[l] < 0 /\ owner[l] = t /\ mask[l] = {}
         /\ \A u \in Threads \ {t} : held[u][l] = "none"
<1>0. l \in Locks /\ count[l] \in Int
  BY RwLocksAreLocks DEF LockInv, TypeOK
<1>1. ~(count[l] >= 0)
  BY <1>0 DEF LockInv, LockKept, ReadersKept
<1> QED BY <1>0, <1>1 DEF LockInv, LockKept, WriterKept

LEMMA WriteFreeKeeps ==
  ASSUME LockInv, NEW t \in Threads, NEW l \in RwLocks,
         held[t][l] = "write", WriteFree(t, l)
  PROVE  LockInv'
<1>0. l \in Locks /\ l \notin Mutexes
  BY RwLocksAreLocks
<1>1. /\ mask[l] = {} /\ queue[l] = <<>>
      /\ \A u \in Threads \ {t} : held[u][l] = "none"
  BY WriterIsAlone DEF WriteFree
<1>2. /\ count' \in [Locks -> Int] /\ count'[l] = 0
      /\ owner' \in [Locks -> Threads \cup {None}]
      /\ \A k \in Locks \ {l} : count'[k] = count[k] /\ owner'[k] = owner[k]
      /\ UNCHANGED <<mask, depth, queue, shared, state>>
  BY <1>0 DEF WriteFree, LockInv, TypeOK
<1>3. /\ held' \in [Threads -> [Locks -> Modes]]
      /\ \A u \in Threads, k \in Locks :
           held'[u][k] = IF k # l THEN held[u][k]
                         ELSE IF u = t THEN "none" ELSE held[u][k]
  BY <1>0, GiveChanges DEF WriteFree, LockInv, Modes
<1>4. TypeOK' /\ QueuesKept'
  BY <1>2, <1>3, QueuesAlone DEF LockInv, TypeOK, Modes
<1>5. ASSUME NEW k \in Locks
      PROVE  LockKept(k)'
  <2>1. CASE k = l
    <3>1. \A u \in Threads : held'[u][l] = "none"
      BY <1>0, <1>1, <1>3
    <3>2. mask'[l] = {} /\ count'[l] = 0
      BY <1>1, <1>2
    <3>3. ReadersKept(l)'
      BY <3>1, <3>2, FS_EmptySet DEF ReadersKept
    <3>4. MutexKept(l)' /\ WriterKept(l)' /\ WaitersKept(l)'
      BY <1>0, <1>1, <1>2 DEF MutexKept, WriterKept, WaitersKept
    <3> QED BY <2>1, <3>3, <3>4 DEF LockKept
  <2>2. CASE k # l
    BY <1>2, <1>3, <2>2, Untouched DEF LockInv, TypeOK
  <2> QED BY <2>1, <2>2
<1> QED BY <1>4, <1>5 DEF LockInv

LEMMA WritePassKeeps ==
  ASSUME LockInv, NEW t \in Threads, NEW l \in RwLocks,
         held[t][l] = "write", WritePass(t, l)
  PROVE  LockInv'
<1>0. l \in Locks
  BY RwLocksAreLocks
<1>1. /\ mask[l] = {} /\ count[l] = -1
      /\ \A u \in Threads \ {t} : held[u][l] = "none"
  BY WriterIsAlone DEF WritePass
<1> QED BY <1>0, <1>1, TransferKeeps DEF WritePass, LockInv, TypeOK

-------------------------------------------------------------------------------
\* A step of the scheduler: a thread that is in no queue sleeps or wakes.
LEMMA SleepKeeps ==
  ASSUME LockInv, NEW t \in Threads, Sleep(t) \/ Wake(t)
  PROVE  LockInv'
<1>1. /\ state[t] # "blocked" /\ state' \in [Threads -> States] /\ state'[t] # "blocked"
      /\ \A u \in Threads \ {t} : state'[u] = state[u]
      /\ UNCHANGED <<owner, mask, count, depth, queue, shared, held>>
  BY DEF Sleep, Wake, Running, LockInv, TypeOK, States
<1>2. TypeOK' /\ QueuesKept'
  BY <1>1 DEF LockInv, TypeOK, QueuesKept, States
<1>3. ASSUME NEW k \in Locks
      PROVE  LockKept(k)'
  BY <1>1, Untouched DEF LockInv, TypeOK
<1> QED BY <1>2, <1>3 DEF LockInv

LEMMA StutterKeeps ==
  ASSUME LockInv, UNCHANGED lockvars
  PROVE  LockInv'
BY DEF lockvars, LockInv, TypeOK, QueuesKept, LockKept, MutexKept, WriterKept,
       ReadersKept, WaitersKept

\* A step of any thread that uses the locks, whatever else is in the system.
LEMMA LockStepKeeps ==
  ASSUME LockInv, NEW t \in Threads, LockNext(t)
  PROVE  LockInv'
<1>1. ASSUME NEW l \in Mutexes, MutexLock(t, l)
      PROVE  LockInv'
  BY <1>1, MutexCountKeeps, MutexOpenKeeps, MutexWaitKeeps DEF MutexLock
<1>2. ASSUME NEW l \in Mutexes, MutexUnlock(t, l)
      PROVE  LockInv'
  BY <1>2, MutexCountKeeps, MutexFreeKeeps, MutexPassKeeps DEF MutexUnlock
<1>3. ASSUME NEW l \in RwLocks, ReadAcquire(t, l)
      PROVE  LockInv'
  BY <1>3, StutterKeeps, DepthKeeps, ReadOpenKeeps, ReadWaitKeeps
    DEF ReadAcquire, ReadIgnored
<1>4. ASSUME NEW l \in RwLocks, ReadRelease(t, l)
      PROVE  LockInv'
  BY <1>4, StutterKeeps, DepthKeeps, ReadPassKeeps, RelinquishKeeps DEF ReadRelease
<1>5. ASSUME NEW l \in RwLocks, WriteAcquire(t, l)
      PROVE  LockInv'
  <2>1. WriteAgain(t, l) => held[t][l] = "write"
    BY DEF WriteAgain
  <2> QED BY <1>5, <2>1, WriteCountKeeps, WriteOpenKeeps, WriteWaitKeeps DEF WriteAcquire
<1>6. ASSUME NEW l \in RwLocks, WriteRelease(t, l)
      PROVE  LockInv'
  BY <1>6, WriteCountKeeps, WriteFreeKeeps, WritePassKeeps, WakeReadersKeeps
    DEF WriteRelease
<1> QED BY <1>1, <1>2, <1>3, <1>4, <1>5, <1>6, SleepKeeps DEF LockNext

LEMMA InvInit == Init => LockInv
<1> SUFFICES ASSUME Init PROVE LockInv
  OBVIOUS
<1>1. TypeOK
  BY DEF Init, TypeOK, Locks
<1>2. ASSUME NEW l \in Locks
      PROVE  LockKept(l)
  <2>1. /\ owner[l] = None /\ mask[l] = {} /\ count[l] = 0 /\ queue[l] = <<>>
        /\ \A t \in Threads : held[t][l] = "none"
    BY DEF Init
  <2>2. MutexKept(l) /\ WriterKept(l)
    BY <2>1, LockConstants DEF MutexKept, WriterKept
  <2>3. ReadersKept(l)
    BY <2>1, FS_EmptySet DEF ReadersKept
  <2>4. WaitersKept(l)
    BY <2>1 DEF WaitersKept
  <2> QED BY <2>2, <2>3, <2>4 DEF LockKept
<1>3. QueuesKept
  BY DEF Init, QueuesKept
<1> QED BY <1>1, <1>2, <1>3 DEF LockInv

\* The locks keep the invariant.
THEOREM LocksKept == Spec => []LockInv
<1>1. LockInv /\ [Next]_lockvars => LockInv'
  BY LockStepKeeps, StutterKeeps DEF Next
<1> QED BY InvInit, <1>1, PTL DEF Spec

-------------------------------------------------------------------------------
LEMMA InvExcludes == LockInv => Exclusion
<1> SUFFICES ASSUME LockInv, NEW l \in Locks, NEW t \in Threads, NEW u \in Threads,
                    held[t][l] = "write", t # u
             PROVE  held[u][l] = "none"
  BY DEF Exclusion
<1>1. CASE l \in Mutexes
  BY <1>1 DEF LockInv, LockKept, MutexKept
<1>2. CASE l \in RwLocks
  BY <1>2, WriterIsAlone
<1> QED BY <1>1, <1>2 DEF Locks

LEMMA InvAsserts == LockInv => AssertsHold
<1> SUFFICES ASSUME LockInv PROVE AssertsHold
  OBVIOUS
<1>1. ASSUME NEW t \in Threads, NEW l \in Locks, held[t][l] = "write"
      PROVE  owner[l] = t
  <2>1. CASE l \in Mutexes
    BY <1>1, <2>1 DEF LockInv, LockKept, MutexKept
  <2>2. CASE l \in RwLocks
    BY <1>1, <2>2, WriterIsAlone
  <2> QED BY <2>1, <2>2 DEF Locks
<1>2. ASSUME NEW t \in Threads, NEW l \in Locks, held[t][l] = "read"
      PROVE  t \in mask[l] /\ count[l] > 0
  <2>1. l \in RwLocks /\ count[l] \in Int
    BY <1>2 DEF LockInv, LockKept, MutexKept, TypeOK, Locks
  <2>2. ~(count[l] < 0)
    BY <1>2, <2>1 DEF LockInv, LockKept, WriterKept
  <2>3. /\ IsFiniteSet(mask[l]) /\ Cardinality(mask[l]) = count[l] /\ t \in mask[l]
    BY <1>2, <2>1, <2>2 DEF LockInv, LockKept, ReadersKept
  <2>4. count[l] # 0
    BY <2>3, FS_EmptySet
  <2> QED BY <2>1, <2>2, <2>3, <2>4
<1>3. ASSUME NEW l \in RwLocks, count[l] >= 0
      PROVE  /\ Cardinality(mask[l]) = count[l]
             /\ count[l] = 1 => mask[l] = {owner[l]}
  BY <1>3, RwLocksAreLocks DEF LockInv, LockKept, ReadersKept
<1> QED BY <1>1, <1>2, <1>3 DEF AssertsHold

LEMMA InvRemembers == LockInv => NobodyForgotten
<1> SUFFICES ASSUME LockInv PROVE NobodyForgotten
  OBVIOUS
<1>1. ASSUME NEW l \in Locks, queue[l] # <<>>
      PROVE  \E t \in Threads : held[t][l] # "none"
  <2>1. CASE l \in Mutexes
    BY <1>1, <2>1 DEF LockInv, LockKept, MutexKept, WaitersKept, TypeOK
  <2>2. CASE l \in RwLocks
    <3>1. count[l] \in Int /\ count[l] # 0
      BY <1>1, <2>2, RwLocksAreLocks DEF LockInv, LockKept, WaitersKept, TypeOK
    <3>2. CASE count[l] < 0
      BY <2>2, <3>2 DEF LockInv, LockKept, WriterKept, Locks
    <3>3. CASE count[l] >= 0
      <4>1. /\ IsFiniteSet(mask[l]) /\ Cardinality(mask[l]) # 0
            /\ mask[l] \in SUBSET Threads
            /\ \A t \in Threads : held[t][l] = IF t \in mask[l] THEN "read" ELSE "none"
        BY <1>1, <2>2, <3>1, <3>3 DEF LockInv, LockKept, ReadersKept, TypeOK
      <4>2. PICK t \in mask[l] : TRUE
        BY <4>1, FS_EmptySet
      <4> QED BY <4>1, <4>2
    <3> QED BY <3>1, <3>2, <3>3
  <2> QED BY <2>1, <2>2 DEF Locks
<1>2. ASSUME NEW l \in Locks, queue[l] # <<>>
      PROVE  \E t \in Threads : held[t][l] # "none"
                                /\ \A i \in DOMAIN queue[l] : queue[l][i] # t
  <2>1. PICK t \in Threads : held[t][l] # "none"
    BY <1>1, <1>2
  <2>2. \A i \in DOMAIN queue[l] : queue[l][i] # t
    BY <2>1 DEF LockInv, LockKept, WaitersKept
  <2> QED BY <2>1, <2>2
<1>3. ASSUME NEW l \in RwLocks, count[l] > 0, queue[l] # <<>>
      PROVE  ~shared[Head(queue[l])]
  BY <1>3, RwLocksAreLocks DEF LockInv, LockKept, WaitersKept
<1> QED BY <1>2, <1>3 DEF LockInv, QueuesKept, NobodyForgotten

\* The type invariant of the locks.
THEOREM LocksTyped == Spec => []TypeOK
<1>1. LockInv => TypeOK
  BY DEF LockInv
<1> QED BY LocksKept, <1>1, PTL

\* A thread that may write is alone, whoever hands the lock to whom.
THEOREM WritersAlone == Spec => []Exclusion
BY LocksKept, InvExcludes, PTL

\* The assertions of the two files never fail.
THEOREM AssertionsHold == Spec => []AssertsHold
BY LocksKept, InvAsserts, PTL

\* Nobody is left in a queue.
THEOREM NobodyLeftInLine == Spec => []NobodyForgotten
BY LocksKept, InvRemembers, PTL

-----------------------------------------------------------------------------
(***************************************************************************)
(* The locks implement FairLock: each step of a lock is a step of the      *)
(* promise or none.                                                        *)
(***************************************************************************)

\* The line of a lock, entry by entry.
Entry(u, sh, l) == <<u, IF l \in RwLocks /\ sh[u] THEN "read" ELSE "write">>
Entries(q, sh, l) == [i \in DOMAIN q |-> Entry(q[i], sh, l)]

LEMMA LineIs ==
  /\ Line = [l \in Locks |-> Entries(queue[l], shared, l)]
  /\ Line' = [l \in Locks |-> Entries(queue'[l], shared', l)]
BY DEF Line, Entries, Entry, ModeOf

LEMMA EntryIsClient ==
  ASSUME NEW u \in Threads, NEW sh, NEW l
  PROVE  Entry(u, sh, l) \in Promise!Client
BY DEF Entry, Promise!Client, Promise!Modes

LEMMA EntryStays ==
  ASSUME NEW u, NEW l, shared'[u] = shared[u]
  PROVE  Entry(u, shared', l) = Entry(u, shared, l)
BY DEF Entry

LEMMA EntriesAre ==
  ASSUME NEW q \in Seq(Threads), NEW sh, NEW l
  PROVE  /\ Entries(q, sh, l) \in Seq(Promise!Client)
         /\ Len(Entries(q, sh, l)) = Len(q)
         /\ \A i \in 1..Len(q) : Entries(q, sh, l)[i] = Entry(q[i], sh, l)
<1>1. DOMAIN q = 1..Len(q) /\ Len(q) \in Nat /\ \A i \in 1..Len(q) : q[i] \in Threads
  OBVIOUS
<1>2. Entries(q, sh, l) = [i \in 1..Len(q) |-> Entry(q[i], sh, l)]
  BY <1>1 DEF Entries
<1>3. \A i \in 1..Len(q) : Entry(q[i], sh, l) \in Promise!Client
  BY <1>1, EntryIsClient
<1> QED BY <1>1, <1>2, <1>3

LEMMA SameLine ==
  ASSUME NEW p \in Seq(Promise!Client), NEW q \in Seq(Promise!Client),
         Len(p) = Len(q), \A i \in 1..Len(p) : p[i] = q[i]
  PROVE  p = q
BY SeqEqual

LEMMA LineStays ==
  ASSUME UNCHANGED <<queue, shared>>
  PROVE  Line' = Line
BY LineIs

\* A thread that joins a queue joins the line, in its mode.
LEMMA LineJoined ==
  ASSUME LockInv, NEW t \in Threads, NEW l \in Locks, Running(t), Block(t, l),
         \A u \in Threads \ {t} : shared'[u] = shared[u]
  PROVE  Line' = [Line EXCEPT ![l] = Append(@, Entry(t, shared', l))]
<1>1. /\ \A k \in Locks \ {l} : queue'[k] = queue[k]
      /\ queue'[l] = Append(queue[l], t)
      /\ queue \in [Locks -> Seq(Threads)] /\ queue' \in [Locks -> Seq(Threads)]
  BY QueuesJoined DEF LockInv, TypeOK
<1>2. ASSUME NEW k \in Locks, NEW i \in 1..Len(queue[k])
      PROVE  Entry(queue[k][i], shared', k) = Entry(queue[k][i], shared, k)
  <2>1. queue[k] \in Seq(Threads) /\ DOMAIN queue[k] = 1..Len(queue[k])
    BY <1>1
  <2>2. queue[k][i] \in Threads
    BY <2>1
  <2>3. queue[k][i] # t
    BY <2>1, NobodyRunsInLine DEF LockInv, Running
  <2> QED BY <2>2, <2>3, EntryStays
<1>3. ASSUME NEW k \in Locks, k # l
      PROVE  Entries(queue'[k], shared', k) = Entries(queue[k], shared, k)
  <2>1. queue'[k] = queue[k] /\ queue[k] \in Seq(Threads)
    BY <1>1, <1>3
  <2>2. /\ Entries(queue[k], shared, k) \in Seq(Promise!Client)
        /\ Entries(queue[k], shared', k) \in Seq(Promise!Client)
        /\ Len(Entries(queue[k], shared, k)) = Len(queue[k])
        /\ Len(Entries(queue[k], shared', k)) = Len(queue[k])
        /\ \A i \in 1..Len(queue[k]) :
             Entries(queue[k], shared, k)[i] = Entries(queue[k], shared', k)[i]
    BY <1>2, <2>1, EntriesAre
  <2>3. Entries(queue[k], shared', k) = Entries(queue[k], shared, k)
    BY <2>2, SameLine
  <2> QED BY <2>1, <2>3
<1>4. Entries(queue'[l], shared', l)
        = Append(Entries(queue[l], shared, l), Entry(t, shared', l))
  <2> DEFINE old == Entries(queue[l], shared, l)
             new == Entries(queue'[l], shared', l)
             n == Len(queue[l])
             e == Entry(t, shared', l)
  <2>1. /\ Len(queue'[l]) = n + 1 /\ n \in Nat
        /\ \A i \in 1..n : queue'[l][i] = queue[l][i]
        /\ queue'[l][n + 1] = t
    BY <1>1
  <2>2. /\ old \in Seq(Promise!Client) /\ Len(old) = n
        /\ \A i \in 1..n : old[i] = Entry(queue[l][i], shared, l)
    BY <1>1, EntriesAre
  <2>3. /\ new \in Seq(Promise!Client) /\ Len(new) = n + 1
        /\ \A i \in 1..(n + 1) : new[i] = Entry(queue'[l][i], shared', l)
    <3>1. queue'[l] \in Seq(Threads)
      BY <1>1
    <3> QED BY <2>1, <3>1, EntriesAre
  <2>4. e \in Promise!Client
    BY EntryIsClient
  <2>5. \A i \in 1..n : new[i] = old[i]
    BY <1>2, <2>1, <2>2, <2>3
  <2>6. new[n + 1] = e
    BY <2>1, <2>3
  <2> HIDE DEF old, new, e, n
  <2>7. /\ Append(old, e) \in Seq(Promise!Client)
        /\ Len(Append(old, e)) = n + 1
        /\ \A i \in 1..n : Append(old, e)[i] = old[i]
        /\ Append(old, e)[n + 1] = e
    BY <2>2, <2>4, AppendProperties
  <2>8. \A i \in 1..(n + 1) : new[i] = Append(old, e)[i]
    BY <2>1, <2>5, <2>6, <2>7
  <2>9. new = Append(old, e)
    BY <2>3, <2>7, <2>8, SameLine
  <2> QED BY <2>9 DEF old, new, e
<1> QED BY <1>3, <1>4, LineIs

\* Those who leave the front of a queue leave the line.
LEMMA LineLeft ==
  ASSUME LockInv, NEW l \in Locks, NEW n \in 1..Len(queue[l]), Leaves(l, n),
         shared' = shared
  PROVE  Line' = [Line EXCEPT ![l] = SubSeq(@, n + 1, Len(@))]
<1>1. /\ \A k \in Locks \ {l} : queue'[k] = queue[k]
      /\ queue \in [Locks -> Seq(Threads)] /\ queue' \in [Locks -> Seq(Threads)]
  BY DEF LockInv, TypeOK, Leaves
<1>2. Entries(queue'[l], shared, l)
        = SubSeq(Entries(queue[l], shared, l), n + 1, Len(Entries(queue[l], shared, l)))
  <2> DEFINE old == Entries(queue[l], shared, l)
             new == Entries(queue'[l], shared, l)
             m == Len(queue[l])
  <2>1. /\ m \in Nat /\ n \in 1..m /\ Len(queue'[l]) = m - n
        /\ \A i \in 1..(m - n) : queue'[l][i] = queue[l][i + n]
    <3>1. queue'[l] \in Seq(Threads) /\ queue[l] \in Seq(Threads)
      BY <1>1
    <3>2. m \in Nat /\ n \in 1..m /\ m - n \in Nat
      BY <3>1
    <3>3. Len(queue'[l]) = m - n
      BY <3>1, <3>2, LenProperties DEF Leaves
    <3> QED BY <3>2, <3>3 DEF Leaves
  <2>2. /\ old \in Seq(Promise!Client) /\ Len(old) = m
        /\ \A i \in 1..m : old[i] = Entry(queue[l][i], shared, l)
    BY <1>1, EntriesAre
  <2>3. /\ new \in Seq(Promise!Client) /\ Len(new) = m - n
        /\ \A i \in 1..(m - n) : new[i] = Entry(queue'[l][i], shared, l)
    <3>1. queue'[l] \in Seq(Threads)
      BY <1>1
    <3>2. /\ new \in Seq(Promise!Client) /\ Len(new) = Len(queue'[l])
          /\ \A i \in 1..Len(queue'[l]) : new[i] = Entry(queue'[l][i], shared, l)
      BY <3>1, EntriesAre
    <3> HIDE DEF new, m
    <3> QED BY <2>1, <3>2
  <2> HIDE DEF old, new, m
  <2>4. ASSUME NEW i \in 1..(m - n)
        PROVE  new[i] = old[i + n]
    <3>1. i + n \in 1..m
      BY <2>1
    <3> QED BY <3>1, <2>1, <2>2, <2>3
  <2>5. /\ n + 1 \in 1..(Len(old) + 1) /\ m \in n..Len(old)
    BY <2>1, <2>2
  <2>6. /\ SubSeq(old, n + 1, m) \in Seq(Promise!Client)
        /\ Len(SubSeq(old, n + 1, m)) = m - (n + 1) + 1
        /\ \A i \in 1..(m - (n + 1) + 1) : SubSeq(old, n + 1, m)[i] = old[(n + 1) + i - 1]
    BY <2>1, <2>2, <2>5, SubSeqProperties
  <2>7. /\ Len(SubSeq(old, n + 1, m)) = m - n
        /\ \A i \in 1..(m - n) : SubSeq(old, n + 1, m)[i] = old[i + n]
    <3>1. m - (n + 1) + 1 = m - n
      BY <2>1
    <3>2. \A i \in 1..(m - n) : (n + 1) + i - 1 = i + n
      BY <2>1
    <3> QED BY <2>6, <3>1, <3>2
  <2>8. new = SubSeq(old, n + 1, m)
    BY <2>3, <2>4, <2>6, <2>7, SameLine
  <2> QED BY <2>2, <2>8 DEF old, new
<1> QED BY <1>1, <1>2, LineIs

-------------------------------------------------------------------------------
\* Those inside a lock, after one has come in and after one has left and others
\* have been let in.
LEMMA InsideStays ==
  ASSUME held' = held
  PROVE  Inside' = Inside
BY DEF Inside

LEMMA InsideHas ==
  ASSUME TypeOK, NEW l \in Locks
  PROVE  \A who : who \in Inside[l] <=>
           \E u \in Threads : held[u][l] # "none" /\ who = <<u, held[u][l]>>
BY DEF Inside

LEMMA InsideGets ==
  ASSUME TypeOK, NEW t \in Threads, NEW l \in Locks, NEW mode \in {"read", "write"},
         held[t][l] = "none", held' = [held EXCEPT ![t][l] = mode]
  PROVE  Inside' = [Inside EXCEPT ![l] = @ \cup {<<t, mode>>}]
<1>1. \A u \in Threads, k \in Locks :
        held'[u][k] = IF u = t /\ k = l THEN mode ELSE held[u][k]
  BY DEF TypeOK
<1>2. ASSUME NEW k \in Locks, k # l
      PROVE  Inside'[k] = Inside[k]
  BY <1>1, <1>2 DEF Inside
<1>3. Inside'[l] = Inside[l] \cup {<<t, mode>>}
  BY <1>1 DEF Inside
<1>4. Inside' = [k \in Locks |-> Inside'[k]] /\ Inside = [k \in Locks |-> Inside[k]]
  BY DEF Inside
<1> QED BY <1>2, <1>3, <1>4

LEMMA InsideGives ==
  ASSUME TypeOK, NEW t \in Threads, NEW l \in Locks, held[t][l] # "none",
         NEW mode \in Modes, NEW getting \in SUBSET Threads,
         getting # {} => mode # "none",
         \A u \in getting : held[u][l] = "none",
         Give(t, l, getting, mode)
  PROVE  Inside' = [Inside EXCEPT ![l] = (@ \ {<<t, held[t][l]>>})
                                         \cup {<<u, mode>> : u \in getting}]
<1>1. \A u \in Threads, k \in Locks :
        held'[u][k] = IF k # l THEN held[u][k]
                      ELSE IF u = t THEN "none"
                      ELSE IF u \in getting THEN mode
                      ELSE held[u][k]
  BY DEF Give, TypeOK
<1>2. ASSUME NEW k \in Locks, k # l
      PROVE  Inside'[k] = Inside[k]
  BY <1>1, <1>2 DEF Inside
<1>3. Inside'[l] = (Inside[l] \ {<<t, held[t][l]>>}) \cup {<<u, mode>> : u \in getting}
  <2>1. Inside'[l] = {<<u, held'[u][l]>> : u \in {v \in Threads : held'[v][l] # "none"}}
    BY DEF Inside
  <2>2. Inside[l] = {<<u, held[u][l]>> : u \in {v \in Threads : held[v][l] # "none"}}
    BY DEF Inside
  <2>3. \A u \in Threads :
          held'[u][l] # "none" <=> u \in getting \/ (u # t /\ held[u][l] # "none")
    BY <1>1
  <2>4. \A u \in getting : held'[u][l] = mode /\ u # t
    BY <1>1
  <2>5. ASSUME NEW who \in Inside'[l]
        PROVE  who \in (Inside[l] \ {<<t, held[t][l]>>}) \cup {<<u, mode>> : u \in getting}
    <3>1. PICK u \in Threads : held'[u][l] # "none" /\ who = <<u, held'[u][l]>>
      BY <2>1
    <3>2. CASE u \in getting
      BY <3>1, <3>2, <2>4
    <3>3. CASE u \notin getting
      <4>1. u # t /\ held'[u][l] = held[u][l]
        BY <3>1, <3>3, <1>1
      <4> QED BY <3>1, <4>1, <2>2
    <3> QED BY <3>2, <3>3
  <2>6. ASSUME NEW who \in Inside[l], who # <<t, held[t][l]>>
        PROVE  who \in Inside'[l]
    <3>1. PICK u \in Threads : held[u][l] # "none" /\ who = <<u, held[u][l]>>
      BY <2>2
    <3>2. u # t /\ u \notin getting /\ held'[u][l] = held[u][l]
      BY <2>6, <3>1, <1>1
    <3> QED BY <3>1, <3>2, <2>1
  <2>7. ASSUME NEW u \in getting
        PROVE  <<u, mode>> \in Inside'[l]
    BY <2>1, <2>3, <2>4
  <2> QED BY <2>5, <2>6, <2>7
<1>4. Inside' = [k \in Locks |-> Inside'[k]] /\ Inside = [k \in Locks |-> Inside[k]]
  BY DEF Inside
<1> QED BY <1>2, <1>3, <1>4

-------------------------------------------------------------------------------
\* What the invariant says about those inside.
LEMMA WriterInside ==
  ASSUME LockInv, NEW t \in Threads, NEW l \in Locks, held[t][l] = "write"
  PROVE  Inside[l] = {<<t, "write">>}
<1>1. \A u \in Threads : u # t => held[u][l] = "none"
  BY InvExcludes DEF Exclusion
<1> QED BY <1>1 DEF Inside

LEMMA ReadersInside ==
  ASSUME LockInv, NEW l \in RwLocks, count[l] >= 0
  PROVE  /\ Inside[l] = {<<u, "read">> : u \in mask[l]}
         /\ count[l] = 0 => Inside[l] = {} /\ queue[l] = <<>>
<1>1. /\ l \in Locks /\ mask[l] \subseteq Threads /\ ReadersKept(l) /\ WaitersKept(l)
      /\ l \notin Mutexes
  BY LockConstants DEF LockInv, TypeOK, LockKept, Locks
<1>2. Inside[l] = {<<u, "read">> : u \in mask[l]}
  BY <1>1 DEF Inside, ReadersKept
<1>3. count[l] = 0 => mask[l] = {}
  BY <1>1, FS_EmptySet DEF ReadersKept
<1> QED BY <1>1, <1>2, <1>3 DEF WaitersKept

LEMMA MutexInside ==
  ASSUME LockInv, NEW l \in Mutexes
  PROVE  IF owner[l] = None THEN Inside[l] = {} /\ queue[l] = <<>>
         ELSE owner[l] \in Threads /\ Inside[l] = {<<owner[l], "write">>}
<1>1. l \in Locks /\ MutexKept(l) /\ WaitersKept(l) /\ owner[l] \in Threads \cup {None}
  BY DEF LockInv, TypeOK, LockKept, Locks
<1>2. CASE owner[l] = None
  BY <1>1, <1>2, LockConstants DEF Inside, MutexKept, WaitersKept
<1>3. CASE owner[l] # None
  BY <1>1, <1>3 DEF Inside, MutexKept
<1> QED BY <1>2, <1>3

-------------------------------------------------------------------------------
\* The front of a line: how many move in is determined.
Front(left, q, n) ==
  /\ Promise!MoveIn(left, q, n)
  /\ n = Len(q) \/ ~Promise!MoveIn(left, q, n + 1)

LEMMA MoveInHas ==
  ASSUME NEW in, NEW q, NEW n, Promise!MoveIn(in, q, n), NEW i \in 1..n
  PROVE  Promise!Fits(in \cup {q[j] : j \in 1..(i - 1)}, q[i])
BY Zenon DEF Promise!MoveIn

LEMMA FrontIs ==
  ASSUME NEW left, NEW q, Len(q) \in Nat, NEW n \in 0..Len(q), Front(left, q, n)
  PROVE  n = CHOOSE k \in 0..Len(q) :
               /\ Promise!MoveIn(left, q, k)
               /\ k = Len(q) \/ ~Promise!MoveIn(left, q, k + 1)
<1>1. ASSUME NEW k \in 0..Len(q), Front(left, q, k)
      PROVE  k = n
  <2>1. ASSUME NEW i \in 0..Len(q), NEW j \in 0..Len(q), i < j,
               Promise!MoveIn(left, q, j)
        PROVE  Promise!MoveIn(left, q, i + 1)
    <3> DEFINE Fit(a) == Promise!Fits(left \cup {q[b] : b \in 1..(a - 1)}, q[a])
    <3>1. \A a \in 1..j : Fit(a)
      BY <2>1 DEF Promise!MoveIn
    <3>2. \A a \in 1..(i + 1) : a \in 1..j
      BY <2>1
    <3> HIDE DEF Fit
    <3>3. \A a \in 1..(i + 1) : Fit(a)
      BY <3>1, <3>2
    <3> QED BY <3>3 DEF Fit, Promise!MoveIn
  <2>2. ~(k < n) /\ ~(n < k)
    BY <1>1, <2>1 DEF Front
  <2> QED BY <2>2
<1> QED BY <1>1 DEF Front

LEMMA LeaveStep ==
  ASSUME LockInv, NEW l \in Locks, NEW who \in Inside[l], NEW n \in 0..Len(queue[l]),
         Front(Inside[l] \ {who}, Line[l], n),
         Inside' = [Inside EXCEPT ![l] = (@ \ {who}) \cup {Line[l][i] : i \in 1..n}],
         Line' = [Line EXCEPT ![l] = SubSeq(@, n + 1, Len(@))]
  PROVE  Promise!Leave(l, who)
<1>1. Len(Line[l]) = Len(queue[l]) /\ Len(queue[l]) \in Nat
  BY LineIs, EntriesAre DEF LockInv, TypeOK
<1>2. n = CHOOSE k \in 0..Len(Line[l]) :
               /\ Promise!MoveIn(Inside[l] \ {who}, Line[l], k)
               /\ k = Len(Line[l]) \/ ~Promise!MoveIn(Inside[l] \ {who}, Line[l], k + 1)
  BY <1>1, FrontIs
<1> QED BY <1>2 DEF Promise!Leave

\* Whoever is inside is a client of the promise.
LEMMA InsideIsClient ==
  ASSUME LockInv, NEW t \in Threads, NEW l \in Locks, held[t][l] # "none"
  PROVE  <<t, held[t][l]>> \in Inside[l] /\ <<t, held[t][l]>> \in Promise!Client
BY DEF LockInv, TypeOK, Inside, Promise!Client, Promise!Modes

-------------------------------------------------------------------------------
\* Getting in at once, and standing in line.
LEMMA LineHas ==
  ASSUME LockInv, NEW l \in Locks
  PROVE  /\ Line[l] \in Seq(Promise!Client) /\ queue[l] \in Seq(Threads)
         /\ Len(Line[l]) = Len(queue[l]) /\ Len(queue[l]) \in Nat
         /\ \A i \in 1..Len(queue[l]) :
              queue[l][i] \in Threads /\ Line[l][i] = Entry(queue[l][i], shared, l)
         /\ Line[l] = <<>> <=> queue[l] = <<>>
<1>1. queue[l] \in Seq(Threads) /\ Line[l] = Entries(queue[l], shared, l)
  BY LineIs DEF LockInv, TypeOK
<1>2. /\ Line[l] \in Seq(Promise!Client)
      /\ Len(Line[l]) = Len(queue[l])
      /\ \A i \in 1..Len(queue[l]) : Line[l][i] = Entry(queue[l][i], shared, l)
  BY <1>1, EntriesAre
<1>3. Len(queue[l]) \in Nat /\ \A i \in 1..Len(queue[l]) : queue[l][i] \in Threads
  BY <1>1
<1>4. Line[l] = <<>> <=> queue[l] = <<>>
  BY <1>1, <1>2, EmptySeq
<1> QED BY <1>1, <1>2, <1>3, <1>4

LEMMA GotIn ==
  ASSUME LockInv, NEW t \in Threads, NEW l \in Locks, NEW mode \in {"read", "write"},
         held[t][l] = "none", queue[l] = <<>>,
         Promise!Fits(Inside[l], <<t, mode>>),
         held' = [held EXCEPT ![t][l] = mode], UNCHANGED <<queue, shared>>
  PROVE  Promise!Next
<1>1. <<t, mode>> \in Promise!Client
  BY DEF Promise!Client, Promise!Modes
<1>2. Promise!GetIn(l, <<t, mode>>)
  BY InsideGets, LineStays, LineHas DEF LockInv, Promise!GetIn
<1> QED BY <1>1, <1>2 DEF Promise!Next

LEMMA MutexGotIn ==
  ASSUME LockInv, NEW t \in Threads, NEW l \in Mutexes, MutexOpen(t, l)
  PROVE  Promise!Next
<1>1. l \in Locks /\ held[t][l] = "none"
  BY LockConstants DEF LockInv, LockKept, MutexKept, MutexOpen, Locks
<1>2. Inside[l] = {} /\ queue[l] = <<>>
  BY MutexInside DEF MutexOpen
<1> QED BY <1>1, <1>2, GotIn DEF MutexOpen, Promise!Fits

LEMMA ReaderGotIn ==
  ASSUME LockInv, NEW t \in Threads, NEW l \in RwLocks, ReadOpen(t, l)
  PROVE  Promise!Next
<1>1. l \in Locks /\ held[t][l] = "none"
  BY RwLocksAreLocks DEF LockInv, LockKept, ReadersKept, ReadOpen
<1>2. Promise!Fits(Inside[l], <<t, "read">>)
  BY ReadersInside DEF ReadOpen, Promise!Fits, Promise!Alone
<1> QED BY <1>1, <1>2, GotIn DEF ReadOpen

LEMMA WriterGotIn ==
  ASSUME LockInv, NEW t \in Threads, NEW l \in RwLocks, WriteOpen(t, l)
  PROVE  Promise!Next
<1>1. l \in Locks /\ count[l] = 0
  BY RwLocksAreLocks DEF WriteOpen
<1>2. Inside[l] = {} /\ queue[l] = <<>>
  BY <1>1, ReadersInside
<1>3. held[t][l] = "none"
  BY <1>1, <1>2, InsideIsClient
<1> QED BY <1>1, <1>2, <1>3, GotIn DEF WriteOpen, Promise!Fits

LEMMA StoodInLine ==
  ASSUME LockInv, NEW t \in Threads, NEW l \in Locks, Running(t), Block(t, l),
         \A u \in Threads \ {t} : shared'[u] = shared[u],
         ~(queue[l] = <<>> /\ Promise!Fits(Inside[l], Entry(t, shared', l)))
  PROVE  Promise!Next
<1>1. Entry(t, shared', l) \in Promise!Client
  BY EntryIsClient
<1>2. Promise!StandInLine(l, Entry(t, shared', l))
  BY LineJoined, LineHas, InsideStays DEF Promise!StandInLine, Block
<1> QED BY <1>1, <1>2 DEF Promise!Next

LEMMA MutexStoodInLine ==
  ASSUME LockInv, NEW t \in Threads, NEW l \in Mutexes, MutexWait(t, l)
  PROVE  Promise!Next
<1>1. l \in Locks /\ l \notin RwLocks
  BY LockConstants DEF Locks
<1>2. ~Promise!Fits(Inside[l], Entry(t, shared', l))
  BY <1>1, MutexInside DEF MutexWait, Entry, Promise!Fits, Promise!Alone
<1> QED BY <1>1, <1>2, StoodInLine DEF MutexWait, MayAsk

LEMMA RwInside ==
  ASSUME LockInv, NEW l \in RwLocks, count[l] < 0
  PROVE  Inside[l] = {<<owner[l], "write">>}
BY RwLocksAreLocks, WriterInside DEF LockInv, LockKept, WriterKept

LEMMA ReaderStoodInLine ==
  ASSUME LockInv, NEW t \in Threads, NEW l \in RwLocks, ReadWait(t, l)
  PROVE  Promise!Next
<1>1. l \in Locks /\ count[l] \in Int
  BY RwLocksAreLocks DEF LockInv, TypeOK
<1>2. queue[l] = <<>> => ~Promise!Fits(Inside[l], Entry(t, shared', l))
  <2> SUFFICES ASSUME queue[l] = <<>>
               PROVE  ~Promise!Fits(Inside[l], Entry(t, shared', l))
    OBVIOUS
  <2>1. count[l] < 0
    BY <1>1 DEF ReadWait
  <2>2. Inside[l] = {<<owner[l], "write">>}
    BY <2>1, RwInside
  <2>3. <<owner[l], "write">> \in Inside[l] /\ Promise!Alone(<<owner[l], "write">>)
    BY <2>2 DEF Promise!Alone
  <2> QED BY <2>3 DEF Promise!Fits
<1>3. \A u \in Threads \ {t} : shared'[u] = shared[u]
  BY DEF ReadWait, LockInv, TypeOK
<1> QED BY <1>1, <1>2, <1>3, StoodInLine DEF ReadWait, MayAsk

LEMMA WriterStoodInLine ==
  ASSUME LockInv, NEW t \in Threads, NEW l \in RwLocks, WriteWait(t, l)
  PROVE  Promise!Next
<1>1. l \in Locks /\ count[l] \in Int
  BY RwLocksAreLocks DEF LockInv, TypeOK
<1>2. /\ \A u \in Threads \ {t} : shared'[u] = shared[u]
      /\ Entry(t, shared', l) = <<t, "write">>
  BY DEF WriteWait, LockInv, TypeOK, Entry
<1>3. Inside[l] # {}
  <2>1. CASE count[l] < 0
    BY <2>1, RwInside
  <2>2. CASE count[l] >= 0
    <3>1. mask[l] # {}
      <4>1. ReadersKept(l) /\ count[l] # 0
        BY <1>1 DEF WriteWait, LockInv, LockKept
      <4>2. IsFiniteSet(mask[l]) /\ Cardinality(mask[l]) # 0
        BY <2>2, <4>1 DEF ReadersKept
      <4> QED BY <4>2, FS_EmptySet
    <3>2. PICK u \in mask[l] : TRUE
      BY <3>1
    <3>3. Inside[l] = {<<v, "read">> : v \in mask[l]}
      BY <2>2, ReadersInside
    <3>4. <<u, "read">> \in Inside[l]
      BY <3>2, <3>3
    <3> QED BY <3>4
  <2> QED BY <1>1, <2>1, <2>2
<1>4. ~Promise!Fits(Inside[l], Entry(t, shared', l))
  BY <1>2, <1>3 DEF Promise!Fits, Promise!Alone
<1> QED BY <1>1, <1>2, <1>4, StoodInLine DEF WriteWait, MayAsk

-------------------------------------------------------------------------------
\* Leaving, with nobody, the first or the readers at the front moving in.
LEMMA NobodyMovedIn ==
  ASSUME LockInv, NEW t \in Threads, NEW l \in Locks, held[t][l] # "none",
         Give(t, l, {}, "none"), UNCHANGED <<queue, shared>>,
         queue[l] # <<>> =>
           ~Promise!Fits(Inside[l] \ {<<t, held[t][l]>>}, Line[l][1])
  PROVE  Promise!Next
<1> DEFINE who == <<t, held[t][l]>>
           left == Inside[l] \ {who}
<1>1. who \in Inside[l] /\ who \in Promise!Client
  BY InsideIsClient
<1>2. Inside' = [Inside EXCEPT ![l] = (@ \ {who}) \cup {Line[l][i] : i \in 1..0}]
  <2>1. Inside' = [Inside EXCEPT ![l] = (@ \ {who}) \cup {<<u, "none">> : u \in {}}]
    BY InsideGives DEF LockInv, Modes
  <2>2. {<<u, "none">> : u \in {}} = {} /\ {Line[l][i] : i \in 1..0} = {}
    OBVIOUS
  <2> QED BY <2>1, <2>2
<1>3. Line' = [Line EXCEPT ![l] = SubSeq(@, 0 + 1, Len(@))]
  <2>1. SubSeq(Line[l], 1, Len(Line[l])) = Line[l]
    BY LineHas
  <2>2. Line' = Line /\ Line = [k \in Locks |-> Line[k]]
    BY LineStays DEF Line
  <2> QED BY <2>1, <2>2
<1> HIDE DEF who, left
<1>4. Front(left, Line[l], 0)
  <2>1. Promise!MoveIn(left, Line[l], 0)
    BY DEF Promise!MoveIn
  <2>2. CASE queue[l] = <<>>
    BY <2>1, <2>2, LineHas DEF Front
  <2>3. CASE queue[l] # <<>>
    <3>1. left \cup {Line[l][j] : j \in 1..(1 - 1)} = left
      OBVIOUS
    <3>2. ~Promise!Fits(left, Line[l][1])
      BY <2>3 DEF left, who
    <3>3. ~Promise!MoveIn(left, Line[l], 0 + 1)
      <4> SUFFICES ASSUME Promise!MoveIn(left, Line[l], 0 + 1)
                   PROVE  FALSE
        OBVIOUS
      <4>1. 1 \in 1..(0 + 1)
        OBVIOUS
      <4>2. Promise!Fits(left \cup {Line[l][j] : j \in 1..(1 - 1)}, Line[l][1])
        BY <4>1, MoveInHas
      <4> QED BY <3>1, <3>2, <4>2
    <3> QED BY <2>1, <3>3 DEF Front
  <2> QED BY <2>2, <2>3
<1>5. Promise!Leave(l, who)
  <2>1. 0 \in 0..Len(queue[l])
    BY LineHas
  <2> QED BY <1>1, <1>2, <1>3, <1>4, <2>1, LeaveStep DEF left
<1> QED BY <1>1, <1>5 DEF Promise!Next

LEMMA MutexLeft ==
  ASSUME LockInv, NEW t \in Threads, NEW l \in Mutexes, held[t][l] = "write",
         MutexFree(t, l)
  PROVE  Promise!Next
BY NobodyMovedIn DEF MutexFree, Locks

LEMMA WriterLeft ==
  ASSUME LockInv, NEW t \in Threads, NEW l \in RwLocks, held[t][l] = "write",
         WriteFree(t, l)
  PROVE  Promise!Next
BY NobodyMovedIn, RwLocksAreLocks DEF WriteFree

\* Behind readers the first in line is a writer, who does not fit while one of
\* them stays.
LEMMA ReaderLeft ==
  ASSUME LockInv, NEW t \in Threads, NEW l \in RwLocks, held[t][l] = "read",
         Relinquish(t, l)
  PROVE  Promise!Next
<1>1. l \in Locks /\ LockKept(l)
  BY RwLocksAreLocks DEF LockInv
<1>2. CASE queue[l] = <<>>
  BY <1>1, <1>2, NobodyMovedIn DEF Relinquish
<1>3. CASE queue[l] # <<>>
  <2>1. count[l] > 0 /\ count[l] >= 0 /\ count[l] # 1 /\ t \in mask[l]
    <3>1. count[l] \in Int /\ mask[l] \subseteq Threads
      BY <1>1 DEF LockInv, TypeOK
    <3>2. ~(count[l] < 0)
      BY <1>1 DEF LockKept, WriterKept
    <3>3. t \in mask[l] /\ count[l] # 0
      <4>1. t \in mask[l] /\ Cardinality(mask[l]) = count[l] /\ IsFiniteSet(mask[l])
        BY <1>1, <3>1, <3>2 DEF LockKept, ReadersKept
      <4> QED BY <4>1, FS_EmptySet
    <3> QED BY <1>3, <3>1, <3>2, <3>3 DEF Relinquish
  <2>2. PICK u \in mask[l] : u # t
    <3>1. Cardinality(mask[l]) = count[l]
      BY <1>1, <2>1 DEF LockKept, ReadersKept
    <3>2. mask[l] # {t}
      BY <2>1, <3>1, FS_Singleton
    <3> QED BY <2>1, <3>2
  <2>3. <<u, "read">> \in Inside[l] \ {<<t, held[t][l]>>}
    BY <2>1, <2>2, ReadersInside DEF LockInv, TypeOK
  <2>4. Line[l][1] = <<queue[l][1], "write">>
    <3>1. ~shared[Head(queue[l])]
      BY <1>1, <1>3, <2>1 DEF LockKept, WaitersKept
    <3>2. Head(queue[l]) = queue[l][1] /\ 1 \in 1..Len(queue[l])
      BY <1>1, <1>3, LineHas
    <3> QED BY <1>1, <3>1, <3>2, LineHas DEF Entry
  <2>5. ~Promise!Fits(Inside[l] \ {<<t, held[t][l]>>}, Line[l][1])
    BY <2>3, <2>4 DEF Promise!Fits, Promise!Alone
  <2> QED BY <1>1, <2>5, NobodyMovedIn DEF Relinquish
<1> QED BY <1>2, <1>3

LEMMA SomeMovedIn ==
  ASSUME LockInv, NEW t \in Threads, NEW l \in Locks, NEW n \in 1..Len(queue[l]),
         NEW mode \in {"read", "write"}, held[t][l] # "none",
         Give(t, l, {queue[l][i] : i \in 1..n}, mode), Leaves(l, n), shared' = shared,
         Inside[l] = {<<t, held[t][l]>>},
         \A i \in 1..n : Line[l][i] = <<queue[l][i], mode>>,
         mode = "write" => n = 1,
         mode = "read" /\ n # Len(queue[l]) => Line[l][n + 1][2] = "write"
  PROVE  Promise!Next
<1> DEFINE who == <<t, held[t][l]>>
           woken == {queue[l][i] : i \in 1..n}
           q == Line[l]
<1>1. /\ who \in Inside[l] /\ who \in Promise!Client
      /\ Inside[l] \ {who} = {}
  BY InsideIsClient
<1>2. /\ Len(queue[l]) \in Nat /\ n \in 1..Len(queue[l])
      /\ \A i \in 1..n : queue[l][i] \in Threads /\ i \in DOMAIN queue[l]
      /\ Len(q) = Len(queue[l])
  BY LineHas
<1>3. Inside' = [Inside EXCEPT ![l] = (@ \ {who}) \cup {q[i] : i \in 1..n}]
  <2>1. woken \in SUBSET Threads /\ \A u \in woken : held[u][l] = "none"
    BY <1>2 DEF LockInv, LockKept, WaitersKept
  <2>2. Inside' = [Inside EXCEPT ![l] = (@ \ {who}) \cup {<<u, mode>> : u \in woken}]
    BY <2>1, InsideGives DEF LockInv, Modes
  <2>3. {<<u, mode>> : u \in woken} = {q[i] : i \in 1..n}
    OBVIOUS
  <2> QED BY <2>2, <2>3
<1>4. Line' = [Line EXCEPT ![l] = SubSeq(@, n + 1, Len(@))]
  BY LineLeft
<1>5. Front({}, q, n)
  <2>1. ASSUME NEW i \in 1..n
        PROVE  Promise!Fits({} \cup {q[j] : j \in 1..(i - 1)}, q[i])
    <3>1. CASE mode = "write"
      <4>1. {q[j] : j \in 1..(i - 1)} = {}
        BY <3>1
      <4> QED BY <4>1 DEF Promise!Fits
    <3>2. CASE mode = "read"
      <4>1. \A j \in 1..(i - 1) : j \in 1..n
        BY <1>2
      <4>2. \A other \in {q[j] : j \in 1..(i - 1)} : ~Promise!Alone(other)
        BY <3>2, <4>1 DEF Promise!Alone
      <4> QED BY <3>2, <4>2 DEF Promise!Fits, Promise!Alone
    <3> QED BY <3>1, <3>2
  <2>2. ASSUME n # Len(q), Promise!MoveIn({}, q, n + 1)
        PROVE  FALSE
    <3>1. Promise!Fits({} \cup {q[j] : j \in 1..((n + 1) - 1)}, q[n + 1])
      <4>1. n + 1 \in 1..(n + 1)
        BY <1>2
      <4> QED BY <2>2, <4>1, MoveInHas
    <3>2. 1 \in 1..((n + 1) - 1) /\ q[1] \in {q[j] : j \in 1..((n + 1) - 1)}
      BY <1>2
    <3>3. Promise!Alone(q[1]) \/ Promise!Alone(q[n + 1])
      BY <1>2, <2>2 DEF Promise!Alone
    <3> QED BY <3>1, <3>2, <3>3 DEF Promise!Fits
  <2> QED BY <2>1, <2>2 DEF Front, Promise!MoveIn
<1>6. Promise!Leave(l, who)
  <2>1. n \in 0..Len(queue[l])
    BY <1>2
  <2> HIDE DEF who, q
  <2> QED BY <1>1, <1>3, <1>4, <1>5, <2>1, LeaveStep DEF q
<1> QED BY <1>1, <1>6 DEF Promise!Next

\* A lock handed to the first in line, who is a writer.
LEMMA FirstMovedIn ==
  ASSUME LockInv, NEW t \in Threads, NEW l \in Locks, held[t][l] # "none",
         queue[l] # <<>>, Transfer(t, l), shared' = shared,
         Inside[l] = {<<t, held[t][l]>>},
         l \in Mutexes \/ ~shared[Head(queue[l])]
  PROVE  Promise!Next
<1>1. /\ 1 \in 1..Len(queue[l]) /\ Head(queue[l]) = queue[l][1] /\ Leaves(l, 1)
  BY FirstLeaves DEF LockInv
<1>2. {queue[l][i] : i \in 1..1} = {Head(queue[l])}
  BY <1>1
<1>3. Give(t, l, {queue[l][i] : i \in 1..1}, "write")
  BY <1>2 DEF Transfer
<1>4. \A i \in 1..1 : Line[l][i] = <<queue[l][i], "write">>
  BY <1>1, LineHas, LockConstants DEF Entry
<1> QED BY <1>1, <1>3, <1>4, SomeMovedIn

LEMMA MutexPassed ==
  ASSUME LockInv, NEW t \in Threads, NEW l \in Mutexes, held[t][l] = "write",
         MutexPass(t, l)
  PROVE  Promise!Next
BY FirstMovedIn, WriterInside DEF MutexPass, Locks

LEMMA WriterPassed ==
  ASSUME LockInv, NEW t \in Threads, NEW l \in RwLocks, held[t][l] = "write",
         WritePass(t, l)
  PROVE  Promise!Next
BY FirstMovedIn, WriterInside, RwLocksAreLocks DEF WritePass

LEMMA ReaderPassed ==
  ASSUME LockInv, NEW t \in Threads, NEW l \in RwLocks, held[t][l] = "read",
         ReadPass(t, l)
  PROVE  Promise!Next
<1>1. l \in Locks /\ LockKept(l)
  BY RwLocksAreLocks DEF LockInv
<1>2. mask[l] = {t}
  <2>1. mask[l] = {owner[l]} /\ t \in mask[l]
    BY <1>1 DEF ReadPass, LockKept, ReadersKept
  <2> QED BY <2>1
<1>3. Inside[l] = {<<t, held[t][l]>>}
  BY <1>2, ReadersInside DEF ReadPass
<1>4. ~shared[Head(queue[l])]
  BY <1>1 DEF ReadPass, LockKept, WaitersKept
<1> QED BY <1>1, <1>3, <1>4, FirstMovedIn DEF ReadPass

LEMMA ReadersMovedIn ==
  ASSUME LockInv, NEW t \in Threads, NEW l \in RwLocks, held[t][l] = "write",
         NEW n \in 1..Len(queue[l]), WakeReaders(t, l, n)
  PROVE  Promise!Next
<1>1. /\ l \in Locks /\ Leaves(l, n) /\ shared' = shared
      /\ Give(t, l, {queue[l][i] : i \in 1..n}, "read")
      /\ ReadersAhead(l, n)
  BY RwLocksAreLocks, ReadersLeave DEF LockInv, WakeReaders
<1>2. Len(queue[l]) \in Nat
  BY <1>1, LineHas
<1>3. \A i \in 1..n : Line[l][i] = <<queue[l][i], "read">>
  BY <1>1, <1>2, LineHas DEF ReadersAhead, Entry
<1>4. n # Len(queue[l]) => Line[l][n + 1][2] = "write"
  <2> SUFFICES ASSUME n # Len(queue[l])
               PROVE  Line[l][n + 1][2] = "write"
    OBVIOUS
  <2>1. n < Len(queue[l]) /\ n + 1 \in 1..Len(queue[l])
    BY <1>2
  <2>2. Line[l][n + 1] = Entry(queue[l][n + 1], shared, l)
    BY <1>1, <2>1, LineHas
  <2> QED BY <1>1, <2>1, <2>2 DEF ReadersAhead, Entry
<1> QED BY <1>1, <1>3, <1>4, WriterInside, SomeMovedIn

-------------------------------------------------------------------------------
\* What counts or sleeps only is no step of the promise.
LEMMA QuietStep ==
  ASSUME UNCHANGED <<held, queue, shared>>
  PROVE  UNCHANGED Promise!vars
BY InsideStays, LineStays DEF Promise!vars

LEMMA MutexStep ==
  ASSUME LockInv, NEW t \in Threads, NEW l \in Mutexes,
         MutexLock(t, l) \/ MutexUnlock(t, l)
  PROVE  [Promise!Next]_Promise!vars
<1>1. CASE MutexAgain(t, l) \/ MutexLess(t, l)
  BY <1>1, QuietStep DEF MutexAgain, MutexLess
<1>2. CASE MutexOpen(t, l) \/ MutexWait(t, l)
  BY <1>2, MutexGotIn, MutexStoodInLine
<1>3. CASE held[t][l] = "write" /\ (MutexFree(t, l) \/ MutexPass(t, l))
  BY <1>3, MutexLeft, MutexPassed
<1> QED BY <1>1, <1>2, <1>3 DEF MutexLock, MutexUnlock

LEMMA ReaderStep ==
  ASSUME LockInv, NEW t \in Threads, NEW l \in RwLocks,
         ReadAcquire(t, l) \/ ReadRelease(t, l)
  PROVE  [Promise!Next]_Promise!vars
<1>1. CASE ReadAgain(t, l) \/ ReadLess(t, l) \/ UNCHANGED lockvars
  BY <1>1, QuietStep DEF ReadAgain, ReadLess, lockvars
<1>2. CASE ReadOpen(t, l) \/ ReadWait(t, l)
  BY <1>2, ReaderGotIn, ReaderStoodInLine
<1>3. CASE held[t][l] = "read" /\ (ReadPass(t, l) \/ Relinquish(t, l))
  BY <1>3, ReaderPassed, ReaderLeft
<1> QED BY <1>1, <1>2, <1>3 DEF ReadAcquire, ReadRelease, ReadIgnored

LEMMA WriterStep ==
  ASSUME LockInv, NEW t \in Threads, NEW l \in RwLocks,
         WriteAcquire(t, l) \/ WriteRelease(t, l)
  PROVE  [Promise!Next]_Promise!vars
<1>1. CASE WriteAgain(t, l) \/ WriteLess(t, l)
  BY <1>1, QuietStep DEF WriteAgain, WriteLess
<1>2. CASE WriteOpen(t, l) \/ WriteWait(t, l)
  BY <1>2, WriterGotIn, WriterStoodInLine
<1>3. CASE held[t][l] = "write" /\ (WriteFree(t, l) \/ WritePass(t, l))
  BY <1>3, WriterLeft, WriterPassed
<1>4. ASSUME NEW n \in 1..Len(queue[l]), held[t][l] = "write", WakeReaders(t, l, n)
      PROVE  Promise!Next
  BY <1>4, ReadersMovedIn
<1> QED BY <1>1, <1>2, <1>3, <1>4 DEF WriteAcquire, WriteRelease

LEMMA FairStep ==
  ASSUME LockInv, [Next]_lockvars
  PROVE  [Promise!Next]_Promise!vars
<1>1. ASSUME NEW t \in Threads, Sleep(t) \/ Wake(t)
      PROVE  UNCHANGED Promise!vars
  BY <1>1, QuietStep DEF Sleep, Wake
<1>2. CASE UNCHANGED lockvars
  BY <1>2, QuietStep DEF lockvars
<1> QED BY <1>1, <1>2, MutexStep, ReaderStep, WriterStep DEF Next, LockNext

LEMMA FairInit == Init => Promise!Init
<1> SUFFICES ASSUME Init
             PROVE  Promise!Init
  OBVIOUS
<1>1. Inside = [l \in Locks |-> {}]
  <2>1. \A l \in Locks : Inside[l] = {}
    BY DEF Init, Inside
  <2> QED BY <2>1 DEF Inside
<1>2. Line = [l \in Locks |-> <<>>]
  <2>1. \A l \in Locks : Line[l] = <<>>
    BY DEF Init, Line
  <2> QED BY <2>1 DEF Line
<1> QED BY <1>1, <1>2 DEF Promise!Init

\* Mutexes and readers/writer locks implement FairLock: nobody gets in past
\* somebody who waits, and whenever somebody leaves, as many of the line move in
\* as fit.
THEOREM LocksAreFair == Spec => FairLocks
<1>1. LockInv /\ [Next]_lockvars => [Promise!Next]_Promise!vars
  BY FairStep
<1> QED BY FairInit, LocksKept, <1>1, PTL DEF Spec, FairLocks, Promise!Spec
=============================================================================
