---------------------------- MODULE PriorityInherit ----------------------------
(***************************************************************************)
(* Priority inheritance among the threads that wait for the kernel's locks *)
(* (firmware/kernel/thread.c): a thread runs at the highest of its own     *)
(* priority and those of the threads it keeps waiting.  Highest is the     *)
(* smallest number; Idle stands for PRIORITY_IDLE, "no thread".            *)
(*                                                                         *)
(* Every object a thread can wait on records the highest priority among    *)
(* its waiters, every thread a histogram of its own priority and those of  *)
(* the objects it owns, and a change is passed on from owner to owner.     *)
(* The locks are KernelLock's; the third kind of object is a message queue *)
(* whose senders wait for the server's reply, in any order.                *)
(***************************************************************************)
EXTENDS KernelLock, SequencesExt

CONSTANTS
  Ports,    \* the queues with queue_enable_queue_send
  Server,   \* [port -> the thread that replies]
  Base,     \* [thread -> the priority it is created with]
  Prios,    \* the priorities thread_set_priority gives, from 1
  MaxChanged  \* how many threads have another priority than at first at a time

Idle == Max(Prios) + 1

Objects == Locks \cup Ports

VARIABLES
  senders,  \* [port -> the threads that wait for a reply, in order]
  base,     \* [thread -> base_priority]
  prio,     \* [thread -> priority]
  hist,     \* [thread -> pdist.hist]
  blprio,   \* [object -> blocker.priority]
  ready     \* rtr_dist.hist: how many runnable threads of each priority

privars == <<prio, hist, blprio, ready>>

vars == <<lockvars, senders, base, privars>>

PriorityInit ==
  /\ senders = [p \in Ports |-> <<>>]
  /\ base = Base
  /\ prio = Base
  /\ hist = [t \in Threads |-> [p \in Prios |-> IF p = Base[t] THEN 1 ELSE 0]]
  /\ blprio = [b \in Objects |-> Idle]
  /\ ready = [p \in Prios |-> Cardinality({t \in Threads : Base[t] = p})]

-------------------------------------------------------------------------------
\* The calls of thread.c work on the records as they go: S is a state of them.
Records == [prio |-> prio, hist |-> hist, bl |-> blprio, ready |-> ready]

Become(S) == /\ prio' = S.prio /\ hist' = S.hist
             /\ blprio' = S.bl /\ ready' = S.ready

WaitLine(b) == IF b \in Ports THEN senders[b] ELSE queue[b]

OwnersOf(b) == IF b \in Ports THEN {Server[b]}
               ELSE IF owner[b] # None THEN {owner[b]} ELSE mask[b]

\* thread->blocker
BlockerOf(t) == IF \E b \in Objects : t \in ToSet(WaitLine(b))
                THEN CHOOSE b \in Objects : t \in ToSet(WaitLine(b))
                ELSE None

Highest(S, threads) == Min({S.prio[t] : t \in threads} \cup {Idle})

\* priobit_ffs(&thread->pdist.mask)
TopOf(S, t) == Min({p \in Prios : S.hist[t][p] > 0})

Boost(S, t, p) == IF p < Idle THEN [S EXCEPT !.hist[t][p] = @ + 1] ELSE S
Unboost(S, t, p) == IF p < Idle THEN [S EXCEPT !.hist[t][p] = @ - 1] ELSE S

Unready(S, t) == [S EXCEPT !.ready[S.prio[t]] = @ - 1]
MakeReady(S, t) == [S EXCEPT !.ready[S.prio[t]] = @ + 1]

\* Mutant: the scheduler's counts stay.
Bug_ReprioritiseUncounted(S, t, p) == [S EXCEPT !.prio[t] = p]

\* set_rtr_thread_priority
Reprioritise(S, t, p) ==
  [S EXCEPT !.ready[S.prio[t]] = @ - 1, !.ready[p] = @ + 1, !.prio[t] = p]

\* priority_inherit_internal: t is not runnable yet
Inherit(S, t, p) ==
  LET S1 == Boost(S, t, p)
  IN  IF p < Idle /\ S1.hist[t][p] = 1 /\ p < S.prio[t]
      THEN [S1 EXCEPT !.prio[t] = p] ELSE S1

\* Mutant: the boost is kept.
Bug_DisinheritKeeps(S, t, p) == Unboost(S, t, p)

\* priority_disinherit_internal: t is running
Disinherit(S, t, p) ==
  LET S1 == Unboost(S, t, p)
  IN  IF /\ p < Idle /\ S1.hist[t][p] = 0
         /\ p <= S.prio[t] /\ TopOf(S1, t) # S.prio[t]
      THEN Reprioritise(S1, t, TopOf(S1, t)) ELSE S1

\* What the walk hands on to the object b at which the owner waits, when that
\* owner's priority went from old to new: the last one handed on, where
\* neither of them is what b records.
HandOn(S, b, old, new, last) ==
  IF new <= S.bl[b] THEN new
  ELSE IF old <= S.bl[b] THEN Highest(S, ToSet(WaitLine(b)))
  ELSE last

RECURSIVE Walk(_, _, _, _, _)

\* inherit_priority(first, b, ., p): b's waiters now have priority p at most.
Walk(S, first, b, u, p) ==
  LET S1  == Unboost(Boost([S EXCEPT !.bl[b] = p], u, p), u, S.bl[b])
      old == S.prio[u]
      new == TopOf(S1, u)
      S2  == [S1 EXCEPT !.prio[u] = new]
      by  == BlockerOf(u)
      q   == HandOn(S2, by, old, new, p)
  IN  IF new = old THEN S1
      ELSE IF Running(u) THEN Reprioritise(S1, u, new)
      ELSE IF by \in {None, first} THEN S2
      ELSE IF q = S2.bl[by] THEN S2
      ELSE FoldSet(LAMBDA v, T : Walk([T EXCEPT !.bl[by] = S2.bl[by]], first, by, v, q),
                   S2, OwnersOf(by))

InheritPriority(S, b, p) ==
  FoldSet(LAMBDA v, T : Walk([T EXCEPT !.bl[b] = S.bl[b]], b, b, v, p),
          S, OwnersOf(b))

-------------------------------------------------------------------------------
\* block_thread_
Blocked(t, b) ==
  LET S == Unready(Records, t)
  IN  Become(IF prio[t] < blprio[b] THEN InheritPriority(S, b, prio[t]) ELSE S)

\* What the object records when the threads rest are left, w being gone.
After(S, b, w, rest) ==
  IF rest = {} THEN Idle
  ELSE IF S.prio[w] <= S.bl[b] THEN Highest(S, rest)
  ELSE S.bl[b]

\* Mutant: the new owner does not inherit from those that still wait.
Bug_TransferredAlone(t, l) ==
  LET w  == Head(queue[l])
      S1 == Disinherit(Records, t, blprio[l])
      p  == After(S1, l, w, ToSet(Tail(queue[l])))
  IN  Become([MakeReady(S1, w) EXCEPT !.bl[l] = p])

\* wakeup_thread_transfer
Transferred(t, l) ==
  LET w  == Head(queue[l])
      S1 == Disinherit(Records, t, blprio[l])
      p  == After(S1, l, w, ToSet(Tail(queue[l])))
  IN  Become([MakeReady(Inherit(S1, w, p), w) EXCEPT !.bl[l] = p])

\* wakeup_thread_queue_multi_transfer, of the first n of the queue
MultiTransferred(t, l, n) ==
  LET woken == {queue[l][i] : i \in 1..n}
      rest  == ToSet(queue[l]) \ woken
      S1    == Disinherit(Records, t, blprio[l])
      p     == IF n = 1 THEN After(S1, l, Head(queue[l]), rest)
               ELSE Highest(S1, rest)
      S2    == FoldSet(LAMBDA w, T : MakeReady(Inherit(T, w, p), w), S1, woken)
  IN  Become([S2 EXCEPT !.bl[l] = p])

\* wakeup_thread_release
Released(t, b) ==
  LET S == MakeReady(Records, t)
      p == Highest(S, ToSet(WaitLine(b)) \ {t})
  IN  Become(IF prio[t] > blprio[b] \/ p = blprio[b] THEN S
             ELSE InheritPriority(S, b, p))

\* mrsw_reader_relinquish, with a writer waiting
Relinquished(t, l) ==
  Become(IF queue[l] = <<>> THEN Records
         ELSE Disinherit(Records, t, blprio[l]))

-------------------------------------------------------------------------------
Quiet == UNCHANGED <<senders, base, privars>>
Rest == UNCHANGED <<senders, base>>

Lock(t, l) ==
  \/ (MutexAgain(t, l) \/ MutexOpen(t, l)) /\ Quiet
  \/ MutexWait(t, l) /\ Blocked(t, l) /\ Rest

Unlock(t, l) ==
  /\ Running(t) /\ held[t][l] = "write"
  /\ \/ (MutexLess(t, l) \/ MutexFree(t, l)) /\ Quiet
     \/ MutexPass(t, l) /\ Transferred(t, l) /\ Rest

Read(t, l) ==
  \/ (ReadIgnored(t, l) \/ ReadAgain(t, l) \/ ReadOpen(t, l)) /\ Quiet
  \/ ReadWait(t, l) /\ Blocked(t, l) /\ Rest

Unread(t, l) ==
  /\ Running(t) /\ held[t][l] = "read"
  /\ \/ ReadLess(t, l) /\ Quiet
     \/ ReadPass(t, l) /\ Transferred(t, l) /\ Rest
     \/ Relinquish(t, l) /\ Relinquished(t, l) /\ Rest

Write(t, l) ==
  \/ (WriteAgain(t, l) \/ WriteOpen(t, l)) /\ Quiet
  \/ WriteWait(t, l) /\ Blocked(t, l) /\ Rest

Unwrite(t, l) ==
  /\ Running(t) /\ held[t][l] = "write"
  /\ \/ (WriteLess(t, l) \/ WriteFree(t, l)) /\ Quiet
     \/ WritePass(t, l) /\ Transferred(t, l) /\ Rest
     \/ \E n \in 1..Len(queue[l]) :
          WakeReaders(t, l, n) /\ MultiTransferred(t, l, n) /\ Rest

\* prepare_block in sleep_thread, core_rtr_add in check_tmo_expired
Doze(t) == Sleep(t) /\ Become(Unready(Records, t)) /\ Rest
Rise(t) == Wake(t) /\ Become(MakeReady(Records, t)) /\ Rest

\* queue_send: a thread waits for a reply with no lock in its hands.
Send(t, p) ==
  /\ Running(t) /\ t # Server[p]
  /\ \A l \in Locks : held[t][l] = "none"
  /\ senders' = [senders EXCEPT ![p] = Append(@, t)]
  /\ state' = [state EXCEPT ![t] = "parked"]
  /\ Blocked(t, p)
  /\ UNCHANGED <<owner, mask, count, depth, queue, shared, held, base>>

\* queue_reply: the server answers one of its senders.
Reply(t, p) ==
  /\ Running(Server[p])
  /\ t \in ToSet(senders[p])
  /\ senders' = [senders EXCEPT ![p] = SelectSeq(@, LAMBDA u : u # t)]
  /\ state' = [state EXCEPT ![t] = "running"]
  /\ Released(t, p)
  /\ UNCHANGED <<owner, mask, count, depth, queue, shared, held, base>>

\* thread_set_priority of any thread, by whoever runs.
SetPriority(t, p) ==
  LET S   == [Records EXCEPT !.hist[t][base[t]] = @ - 1, !.hist[t][p] = @ + 1]
      new == TopOf(S, t)
      old == prio[t]
      S1  == [S EXCEPT !.prio[t] = new]
      b   == BlockerOf(t)
      q   == IF new < blprio[b] THEN new
             ELSE IF old <= blprio[b] THEN Highest(S1, ToSet(WaitLine(b)))
             ELSE blprio[b]
  IN  /\ \E u \in Threads : Running(u)
      /\ p # base[t]
      /\ Cardinality({u \in Threads \ {t} : base[u] # Base[u]}) < MaxChanged
      /\ base' = [base EXCEPT ![t] = p]
      /\ Become(IF new = old THEN S
                ELSE IF Running(t) THEN Reprioritise(S, t, new)
                ELSE IF b = None THEN S1
                ELSE IF q = blprio[b] THEN S1
                ELSE InheritPriority(S1, b, q))
      /\ UNCHANGED <<lockvars, senders>>

-------------------------------------------------------------------------------
InheritInit == Init /\ PriorityInit

InheritNext == \E t \in Threads :
  \/ \E l \in Mutexes : Lock(t, l) \/ Unlock(t, l)
  \/ \E l \in RwLocks : Read(t, l) \/ Unread(t, l) \/ Write(t, l) \/ Unwrite(t, l)
  \/ \E p \in Ports : Send(t, p) \/ Reply(t, p)
  \/ \E p \in Prios : SetPriority(t, p)
  \/ Doze(t) \/ Rise(t)

InheritSpec == InheritInit /\ [][InheritNext]_vars

-------------------------------------------------------------------------------
\* Nobody who waits has a higher priority than those it waits for, however
\* long the chain: mrsw_lock.h promises "Full priority inheritance is
\* implemented", and the comment over inherit_priority that the walk stops
\* where "something is already equal or higher".
NoInversion ==
  \A b \in Objects : \A w \in ToSet(WaitLine(b)), o \in OwnersOf(b) :
    prio[o] <= prio[w]

\* A boost is neither missing nor left behind: what every object records is the
\* highest priority that waits on it, what every thread runs at is the highest
\* of its own and of the objects it owns, and its histogram is exact.
BoostExact ==
  /\ \A b \in Objects : blprio[b] = Highest(Records, ToSet(WaitLine(b)))
  /\ \A t \in Threads :
       LET mine == {b \in Objects : t \in OwnersOf(b)}
       IN  /\ prio[t] = Min({base[t]} \cup {blprio[b] : b \in mine})
           /\ \A p \in Prios :
                hist[t][p] = Cardinality({b \in mine : blprio[b] = p})
                             + (IF base[t] = p THEN 1 ELSE 0)

\* The scheduler's count of runnable threads is that of the priorities they
\* have now, boosts that reached them while they were blocked included:
\* switch_thread looks for a thread of the highest counted priority.
ReadyExact ==
  \A p \in Prios :
    ready[p] = Cardinality({t \in Threads : Running(t) /\ prio[t] = p})
===============================================================================
