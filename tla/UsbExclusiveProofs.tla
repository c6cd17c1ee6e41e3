-------------------------- MODULE UsbExclusiveProofs --------------------------
(***************************************************************************)
(* Theorems about UsbExclusive: the host is alone on the disk, however     *)
(* often the cable is plugged in and the host configures the device.       *)
(***************************************************************************)
EXTENDS UsbExclusive, FiniteSetTheorems, SequenceTheorems, TLAPS

-------------------------------------------------------------------------------
\* The types the proof needs: numbers have no bound here.
Notices == [id : {"inserted", "extracted", "config", "ack"}, arg : Nat]
Messages == [id : {"connected", "disconnected", "extracted", "stop"}, arg : Nat]

Typed ==
  /\ usbQueue \in Seq(Notices)
  /\ usb \in {"loop", "asking", "unmounting", "mounting", "leaving"}
  /\ requested \in BOOLEAN /\ enabled \in BOOLEAN /\ mounted \in BOOLEAN
  /\ seqnum \in Nat /\ expect \in Nat
  /\ box \in [Listeners -> Seq(Messages)]
  /\ heard \in [Listeners -> Nat]

\* Who has the current broadcast, and who has neither it nor a release before it.
Call == Event("connected", seqnum)
Has(q, e) == \E i \in DOMAIN q : q[i] = e
Frees(q) == \E i \in DOMAIN q : q[i].id = "disconnected"
Queued(t) == Has(box[t], Call)
Released(t) == Frees(box[t])
Away(t) == (t = "audio" => audio = "out") /\ (t = "ui" => ui = "out")
Done(t) == Away(t) /\ ~Queued(t) /\ heard[t] # seqnum /\ ~Released(t)

Places(q, e) == {i \in DOMAIN q : q[i] = e}
Answers == Places(usbQueue, Event("ack", seqnum))
Missing == {t \in Listeners : ~Done(t)}

\* No number in a message is one that is still to come.
NumbersPast ==
  /\ \A i \in DOMAIN usbQueue : usbQueue[i].id = "ack" => usbQueue[i].arg <= seqnum
  /\ \A t \in Listeners : /\ heard[t] <= seqnum
                          /\ \A i \in DOMAIN box[t] : box[t][i].arg <= seqnum

\* While there is a request, the current broadcast is the last of its kind.
LastIn(q, e) == \A i, j \in DOMAIN q : q[i] = e /\ i < j =>
                  q[j] # e /\ q[j].id # "disconnected"
CallLast(t) == /\ LastIn(box[t], Call)
               /\ heard[t] = seqnum => ~Queued(t) /\ ~Released(t)

\* What is expected covers the answers on their way and everybody who is not done.
CallCounted ==
  requested => /\ seqnum > 0
               /\ \A t \in Listeners : CallLast(t)
               /\ expect >= Cardinality(Answers) + Cardinality(Missing)

\* The disk is away exactly between the last answer and the mount.
DiskKept ==
  /\ usb \in {"loop", "asking"} => (mounted <=> ~enabled)
  /\ usb = "unmounting" => ~mounted
  /\ usb \in {"mounting", "leaving"} => ~mounted /\ ~requested

\* The interface stops the worker before it answers.
WorkerKept ==
  /\ ui \in {"saving", "out"} => suspended
  /\ ui = "out" => worker = "waiting"

\* Nobody comes back while the disk is away, and nothing calls anybody back.
AllAway == ~mounted => \A t \in Listeners : Away(t) /\ ~Released(t)

HandInv == Typed /\ NumbersPast /\ CallCounted /\ DiskKept /\ WorkerKept /\ AllAway

-------------------------------------------------------------------------------
\* What is written to a queue stands at its end, and what is taken was its head.
LEMMA Joined ==
  ASSUME NEW S, NEW q \in Seq(S), NEW e \in S
  PROVE  /\ Append(q, e) \in Seq(S)
         /\ DOMAIN Append(q, e) = DOMAIN q \cup {Len(q) + 1}
         /\ Len(q) + 1 \notin DOMAIN q
         /\ Append(q, e)[Len(q) + 1] = e
         /\ \A i \in DOMAIN q : Append(q, e)[i] = q[i] /\ i < Len(q) + 1
<1>1. DOMAIN q = 1..Len(q) /\ Len(q) \in Nat
  OBVIOUS
<1>2. DOMAIN Append(q, e) = 1..(Len(q) + 1)
  BY AppendProperties
<1> QED BY <1>1, <1>2, AppendProperties

LEMMA Taken ==
  ASSUME NEW S, NEW q \in Seq(S), q # <<>>
  PROVE  /\ Tail(q) \in Seq(S)
         /\ Head(q) = q[1] /\ Head(q) \in S /\ 1 \in DOMAIN q
         /\ \A i \in DOMAIN Tail(q) : i + 1 \in DOMAIN q /\ Tail(q)[i] = q[i + 1] /\ 1 < i + 1
         /\ \A i \in DOMAIN q : i = 1 \/ (i - 1 \in DOMAIN Tail(q) /\ Tail(q)[i - 1] = q[i])
<1>1. DOMAIN q = 1..Len(q) /\ Len(q) \in Nat /\ Len(q) >= 1
  BY EmptySeq
<1>2. /\ Tail(q) \in Seq(S) /\ DOMAIN Tail(q) = 1..(Len(q) - 1) /\ Head(q) \in S
      /\ \A i \in 1..(Len(q) - 1) : Tail(q)[i] = q[i + 1]
  BY HeadTailProperties
<1>3. Head(q) = q[1]
  OBVIOUS
<1>4. ASSUME NEW i \in DOMAIN q, i # 1
      PROVE  i - 1 \in 1..(Len(q) - 1) /\ (i - 1) + 1 = i
  BY <1>1, <1>4
<1> QED BY <1>1, <1>2, <1>3, <1>4

LEMMA Element ==
  ASSUME NEW S, NEW q \in Seq(S), NEW i \in DOMAIN q
  PROVE  q[i] \in S
OBVIOUS

LEMMA PlacesFinite ==
  ASSUME NEW S, NEW q \in Seq(S), NEW e
  PROVE  IsFiniteSet(Places(q, e)) /\ Cardinality(Places(q, e)) \in Nat
<1>1. Places(q, e) \in SUBSET (1..Len(q)) /\ IsFiniteSet(1..Len(q))
  BY FS_Interval DEF Places
<1> QED BY <1>1, FS_Subset, FS_CardinalityType

LEMMA PlacesJoined ==
  ASSUME NEW S, NEW q \in Seq(S), NEW x \in S, NEW e
  PROVE  Cardinality(Places(Append(q, x), e))
           = Cardinality(Places(q, e)) + (IF x = e THEN 1 ELSE 0)
<1>1. CASE x = e
  <2>1. /\ Places(Append(q, x), e) = Places(q, e) \cup {Len(q) + 1}
        /\ Len(q) + 1 \notin Places(q, e)
    BY <1>1, Joined DEF Places
  <2> QED BY <1>1, <2>1, PlacesFinite, FS_AddElement
<1>2. CASE x # e
  <2>1. Places(Append(q, x), e) = Places(q, e)
    BY <1>2, Joined DEF Places
  <2> QED BY <1>2, <2>1, PlacesFinite
<1> QED BY <1>1, <1>2

LEMMA PlacesTaken ==
  ASSUME NEW S, NEW q \in Seq(S), q # <<>>, NEW e
  PROVE  Cardinality(Places(q, e))
           = Cardinality(Places(Tail(q), e)) + (IF Head(q) = e THEN 1 ELSE 0)
<1> DEFINE rest == Places(Tail(q), e)
           old == Places(q, e) \ {1}
           f == [i \in rest |-> i + 1]
<1>1. IsFiniteSet(rest) /\ Cardinality(rest) \in Nat
  BY Taken, PlacesFinite
<1>2. IsFiniteSet(Places(q, e)) /\ Cardinality(Places(q, e)) \in Nat
  BY PlacesFinite
<1>3. 1 \in Places(q, e) <=> Head(q) = e
  BY Taken DEF Places
<1>4. \A i \in rest : i \in Nat /\ i + 1 \in old
  BY Taken DEF Places
<1>5. \A j \in old : j - 1 \in rest /\ (j - 1) + 1 = j
  BY Taken DEF Places
<1>6. f \in Bijection(rest, old)
  <2>1. f \in [rest -> old]
    BY <1>4
  <2>2. \A a, b \in rest : f[a] = f[b] => a = b
    BY <1>4
  <2>3. \A j \in old : \E i \in rest : f[i] = j
    BY <1>5
  <2> QED BY <2>1, <2>2, <2>3 DEF Bijection, Injection, Surjection, IsInjective
<1>7. Cardinality(old) = Cardinality(rest)
  BY <1>1, <1>6, FS_Bijection DEF ExistsBijection
<1>8. Cardinality(old) = IF 1 \in Places(q, e) THEN Cardinality(Places(q, e)) - 1
                         ELSE Cardinality(Places(q, e))
  BY <1>2, FS_RemoveElement
<1> QED BY <1>1, <1>2, <1>3, <1>7, <1>8

LEMMA AfterTaken ==
  ASSUME NEW q \in Seq(Messages), q # <<>>, NEW e
  PROVE  /\ Has(Tail(q), e) => Has(q, e)
         /\ Frees(Tail(q)) => Frees(q)
         /\ Head(q) = e => Has(q, e)
         /\ Head(q).id = "disconnected" => Frees(q)
         /\ LastIn(q, e) => LastIn(Tail(q), e)
         /\ LastIn(q, e) /\ Head(q) = e => ~Has(Tail(q), e) /\ ~Frees(Tail(q))
<1>1. /\ Head(q) = q[1] /\ 1 \in DOMAIN q
      /\ \A i \in DOMAIN Tail(q) :
           i + 1 \in DOMAIN q /\ Tail(q)[i] = q[i + 1] /\ 1 < i + 1 /\ i \in Nat
  BY Taken
<1>2. LastIn(q, e) => LastIn(Tail(q), e)
  <2> SUFFICES ASSUME LastIn(q, e), NEW i \in DOMAIN Tail(q), NEW j \in DOMAIN Tail(q),
                      Tail(q)[i] = e, i < j
               PROVE  Tail(q)[j] # e /\ Tail(q)[j].id # "disconnected"
    BY DEF LastIn
  <2>1. i + 1 < j + 1
    BY <1>1
  <2> QED BY <1>1, <2>1 DEF LastIn
<1> QED BY <1>1, <1>2 DEF Has, Frees, LastIn

LEMMA AfterJoined ==
  ASSUME NEW q \in Seq(Messages), NEW x \in Messages, NEW e
  PROVE  /\ Has(Append(q, x), e) <=> Has(q, e) \/ x = e
         /\ Frees(Append(q, x)) <=> Frees(q) \/ x.id = "disconnected"
         /\ ~Has(q, e) => LastIn(Append(q, x), e)
         /\ LastIn(q, e) /\ x # e /\ x.id # "disconnected" => LastIn(Append(q, x), e)
<1>1. ~Has(q, e) => LastIn(Append(q, x), e)
  <2> SUFFICES ASSUME ~Has(q, e), NEW i \in DOMAIN Append(q, x), NEW j \in DOMAIN Append(q, x),
                      Append(q, x)[i] = e, i < j
               PROVE  FALSE
    BY DEF LastIn
  <2>1. i = Len(q) + 1
    BY Joined DEF Has
  <2>2. j < i \/ j = i
    BY <2>1, Joined
  <2>3. i \in Nat /\ j \in Nat
    BY Joined, <2>1
  <2> QED BY <2>2, <2>3
<1>2. LastIn(q, e) /\ x # e /\ x.id # "disconnected" => LastIn(Append(q, x), e)
  BY Joined DEF LastIn
<1> QED BY <1>1, <1>2, Joined DEF Has, Frees

-------------------------------------------------------------------------------
\* A step of one listener: it may take a message and answer.
Mine(t) ==
  /\ UNCHANGED <<usb, requested, enabled, seqnum, expect, mounted>>
  /\ \A u \in Listeners \ {t} :
       box'[u] = box[u] /\ heard'[u] = heard[u] /\ (Away(u)' <=> Away(u))

LEMMA OthersSame ==
  ASSUME NEW t \in Listeners, Mine(t), NEW u \in Listeners \ {t}
  PROVE  /\ Done(u)' <=> Done(u)
         /\ CallLast(u)' <=> CallLast(u)
         /\ Released(u)' <=> Released(u)
BY DEF Mine, Done, CallLast, Queued, Released, Call

LEMMA FewListeners == IsFiniteSet(Listeners)
<1>1. Listeners = ({"audio"} \cup {"ui"}) \cup {"backlight"}
  BY DEF Listeners
<1>2. IsFiniteSet({"audio"} \cup {"ui"})
  BY FS_Singleton, FS_AddElement
<1> QED BY <1>1, <1>2, FS_AddElement

LEMMA MissingCount ==
  /\ IsFiniteSet(Missing) /\ Cardinality(Missing) \in Nat
  /\ Cardinality(Missing) <= Cardinality(Listeners)
BY FewListeners, FS_Subset, FS_CardinalityType DEF Missing

LEMMA NextMissingCount ==
  IsFiniteSet(Missing') /\ Cardinality(Missing') \in Nat
BY FewListeners, FS_Subset, FS_CardinalityType DEF Missing

\* A listener that does not answer does not come back either; one that answers
\* was missing and is not any more.
LEMMA CountKept ==
  ASSUME Typed, CallCounted, NEW t \in Listeners, Mine(t),
         requested => CallLast(t)' /\ (Done(t) => Done(t)'),
         \/ usbQueue' = usbQueue
         \/ \E n \in Nat : /\ usbQueue' = Append(usbQueue, Event("ack", n))
                           /\ n = seqnum /\ requested => ~Done(t) /\ Done(t)'
  PROVE  CallCounted'
<1> SUFFICES ASSUME requested
             PROVE  /\ seqnum > 0
                    /\ \A u \in Listeners : CallLast(u)'
                    /\ expect >= Cardinality(Answers') + Cardinality(Missing')
  BY DEF CallCounted, Mine
<1>1. seqnum > 0 /\ \A u \in Listeners : CallLast(u)'
  BY OthersSame DEF CallCounted
<1>2. Missing' \subseteq Missing
  BY OthersSame DEF Missing
<1>3. Cardinality(Missing') <= Cardinality(Missing)
  BY <1>2, MissingCount, FS_Subset
<1>4. /\ Cardinality(Answers) \in Nat /\ expect \in Nat
      /\ expect >= Cardinality(Answers) + Cardinality(Missing)
  BY PlacesFinite DEF Typed, Answers, CallCounted
<1>5. CASE usbQueue' = usbQueue
  <2>1. Answers' = Answers
    BY <1>5 DEF Answers, Mine
  <2> QED BY <1>1, <1>3, <1>4, <2>1, MissingCount, NextMissingCount
<1>6. ASSUME NEW n \in Nat, usbQueue' = Append(usbQueue, Event("ack", n)),
             n = seqnum => ~Done(t) /\ Done(t)'
      PROVE  expect >= Cardinality(Answers') + Cardinality(Missing')
  <2>1. Event("ack", n) \in Notices
    BY DEF Event, Notices
  <2>2. Cardinality(Answers')
          = Cardinality(Answers) + (IF n = seqnum THEN 1 ELSE 0)
    <3>1. Event("ack", n) = Event("ack", seqnum) <=> n = seqnum
      BY DEF Event
    <3>2. Answers' = Places(Append(usbQueue, Event("ack", n)), Event("ack", seqnum))
      BY <1>6 DEF Answers, Mine
    <3> QED BY <2>1, <3>1, <3>2, PlacesJoined DEF Typed, Answers
  <2>3. CASE n # seqnum
    BY <1>3, <1>4, <2>2, <2>3, MissingCount, NextMissingCount
  <2>4. CASE n = seqnum
    <3>1. t \in Missing /\ Missing' \subseteq Missing \ {t}
      BY <1>2, <1>6, <2>4 DEF Missing
    <3>2. Cardinality(Missing \ {t}) = Cardinality(Missing) - 1
          /\ IsFiniteSet(Missing \ {t})
      BY <3>1, MissingCount, FS_RemoveElement
    <3>3. Cardinality(Missing') <= Cardinality(Missing) - 1
      BY <3>1, <3>2, FS_Subset
    <3> QED BY <1>4, <2>2, <2>4, <3>3, MissingCount, NextMissingCount
  <2> QED BY <2>3, <2>4
<1> QED BY <1>1, <1>5, <1>6

\* What a listener's step has to show for the invariant.
LEMMA MineKeeps ==
  ASSUME HandInv, NEW t \in Listeners, Mine(t), WorkerKept',
         box' \in [Listeners -> Seq(Messages)], heard' \in [Listeners -> Nat],
         heard'[t] <= seqnum, \A i \in DOMAIN box'[t] : box'[t][i].arg <= seqnum,
         requested => CallLast(t)' /\ (Done(t) => Done(t)'),
         Away(t) /\ ~Released(t) => Away(t)' /\ ~Released(t)',
         \/ usbQueue' = usbQueue
         \/ \E n \in Nat : /\ usbQueue' = Append(usbQueue, Event("ack", n))
                           /\ n <= seqnum
                           /\ n = seqnum /\ requested => ~Done(t) /\ Done(t)'
  PROVE  HandInv'
<1>1. usbQueue' \in Seq(Notices)
      /\ \A i \in DOMAIN usbQueue' : usbQueue'[i].id = "ack" => usbQueue'[i].arg <= seqnum
  <2>1. CASE usbQueue' = usbQueue
    BY <2>1 DEF HandInv, Typed, NumbersPast
  <2>2. ASSUME NEW n \in Nat, n <= seqnum, usbQueue' = Append(usbQueue, Event("ack", n))
        PROVE  /\ usbQueue' \in Seq(Notices)
               /\ \A i \in DOMAIN usbQueue' :
                    usbQueue'[i].id = "ack" => usbQueue'[i].arg <= seqnum
    <3>1. Event("ack", n) \in Notices /\ Event("ack", n).arg = n
      BY DEF Event, Notices
    <3>2. usbQueue \in Seq(Notices)
      BY DEF HandInv, Typed
    <3>3. /\ usbQueue' \in Seq(Notices)
          /\ \A i \in DOMAIN usbQueue' :
               \/ usbQueue'[i] = Event("ack", n)
               \/ i \in DOMAIN usbQueue /\ usbQueue'[i] = usbQueue[i]
      BY <2>2, <3>1, <3>2, Joined
    <3> QED BY <2>2, <3>1, <3>3 DEF HandInv, NumbersPast
  <2> QED BY <2>1, <2>2
<1>2. Typed'
  BY <1>1 DEF HandInv, Typed, Mine
<1>3. NumbersPast'
  BY <1>1 DEF HandInv, NumbersPast, Mine
<1>4. CallCounted'
  BY CountKept DEF HandInv
<1>5. DiskKept'
  BY DEF HandInv, DiskKept, Mine
<1>6. AllAway'
  BY OthersSame DEF HandInv, AllAway, Mine
<1> QED BY <1>2, <1>3, <1>4, <1>5, <1>6 DEF HandInv

LEMMA TakeFacts ==
  ASSUME HandInv, NEW t \in Listeners, Takes(t), seqnum' = seqnum
  PROVE  /\ box' \in [Listeners -> Seq(Messages)]
         /\ \A u \in Listeners \ {t} : box'[u] = box[u]
         /\ \A i \in DOMAIN box'[t] : box'[t][i].arg <= seqnum
         /\ Head(box[t]) \in Messages /\ Head(box[t]).arg <= seqnum
         /\ Queued(t)' => Queued(t)
         /\ Released(t)' => Released(t)
         /\ Head(box[t]) = Call => Queued(t)
         /\ Head(box[t]).id = "disconnected" => Released(t)
         /\ LastIn(box[t], Call) => LastIn(box[t], Call)'
         /\ LastIn(box[t], Call) /\ Head(box[t]) = Call => ~Queued(t)' /\ ~Released(t)'
<1>1. box[t] \in Seq(Messages) /\ box[t] # <<>>
  BY DEF HandInv, Typed, Takes
<1>2. box'[t] = Tail(box[t]) /\ \A u \in Listeners \ {t} : box'[u] = box[u]
  BY DEF HandInv, Typed, Takes
<1>3. Call' = Call
  BY DEF Call
<1>4. box' \in [Listeners -> Seq(Messages)]
  BY <1>1, Taken DEF HandInv, Typed, Takes
<1>5. Head(box[t]) = box[t][1] /\ 1 \in DOMAIN box[t] /\ Head(box[t]) \in Messages
      /\ \A i \in DOMAIN Tail(box[t]) :
           i + 1 \in DOMAIN box[t] /\ Tail(box[t])[i] = box[t][i + 1]
  BY <1>1, Taken
<1>6. /\ Head(box[t]).arg <= seqnum
      /\ \A i \in DOMAIN box'[t] : box'[t][i].arg <= seqnum
  BY <1>2, <1>5 DEF HandInv, NumbersPast
<1>7. /\ Has(Tail(box[t]), Call) => Has(box[t], Call)
      /\ Frees(Tail(box[t])) => Frees(box[t])
      /\ Head(box[t]) = Call => Has(box[t], Call)
      /\ Head(box[t]).id = "disconnected" => Frees(box[t])
      /\ LastIn(box[t], Call) => LastIn(Tail(box[t]), Call)
      /\ LastIn(box[t], Call) /\ Head(box[t]) = Call
           => ~Has(Tail(box[t]), Call) /\ ~Frees(Tail(box[t]))
  BY <1>1, AfterTaken
<1>8. /\ Queued(t)' <=> Has(Tail(box[t]), Call)
      /\ Released(t)' <=> Frees(Tail(box[t]))
      /\ LastIn(box[t], Call)' <=> LastIn(Tail(box[t]), Call)
  BY <1>2, <1>3 DEF Queued, Released
<1> QED BY <1>2, <1>4, <1>5, <1>6, <1>7, <1>8 DEF Queued, Released

LEMMA CallIs ==
  ASSUME NEW e \in Messages
  PROVE  e = Call <=> e.id = "connected" /\ e.arg = seqnum
BY DEF Messages, Call, Event

LEMMA BacklightKeeps ==
  ASSUME HandInv, BacklightTake PROVE HandInv'
<1> DEFINE t == "backlight"
           e == Head(box[t])
<1>1. t \in Listeners /\ Takes(t) /\ UNCHANGED <<usbvars, heard, audio, uivars, worker>>
  BY DEF BacklightTake, Listeners
<1>2. Mine(t) /\ seqnum' = seqnum
  BY <1>1, TakeFacts DEF usbvars, uivars, Mine, Away
<1>3. requested => CallLast(t) /\ CallLast(t)' /\ (Done(t) => Done(t)')
  BY <1>1, <1>2, TakeFacts DEF HandInv, CallCounted, CallLast, Done, Away, Call
<1>4. ASSUME e.id = "connected", e.arg = seqnum, requested
      PROVE  ~Done(t) /\ Done(t)'
  BY <1>1, <1>2, <1>3, <1>4, TakeFacts, CallIs DEF CallLast, Done, Away
<1>5. \/ usbQueue' = usbQueue
      \/ /\ usbQueue' = Append(usbQueue, Event("ack", e.arg)) /\ e.id = "connected"
         /\ e.arg \in Nat /\ e.arg <= seqnum
  BY <1>1, <1>2, TakeFacts DEF BacklightTake, Acknowledge, Messages
<1>6. WorkerKept' /\ heard' \in [Listeners -> Nat] /\ heard'[t] <= seqnum
  BY <1>1 DEF HandInv, WorkerKept, uivars, Typed, NumbersPast
<1>7. Away(t) /\ ~Released(t) => Away(t)' /\ ~Released(t)'
  BY <1>1, <1>2, TakeFacts DEF Away
<1> QED BY <1>1, <1>2, <1>3, <1>4, <1>5, <1>6, <1>7, TakeFacts, MineKeeps

LEMMA AudioTakeKeeps ==
  ASSUME HandInv, AudioTake PROVE HandInv'
<1> DEFINE t == "audio"
           e == Head(box[t])
<1>1. t \in Listeners /\ Takes(t) /\ UNCHANGED <<usbvars, uivars, worker>>
  BY DEF AudioTake, Listeners
<1>2. \/ /\ audio = "idle" /\ e.id = "connected"
         /\ Acknowledge(e.arg) /\ audio' = "out" /\ UNCHANGED heard
      \/ /\ audio = "playing" /\ e.id = "connected"
         /\ heard' = [heard EXCEPT ![t] = e.arg]
         /\ audio' = "stopping" /\ UNCHANGED usbQueue
      \/ /\ audio = "out" /\ e.id = "disconnected"
         /\ audio' = "idle" /\ UNCHANGED <<usbQueue, heard>>
      \/ /\ audio = "playing" /\ audio' = "halting"
         /\ UNCHANGED <<usbQueue, heard>>
      \/ UNCHANGED <<usbQueue, heard, audio>>
  BY DEF AudioTake
<1>3. heard \in [Listeners -> Nat] /\ heard[t] <= seqnum
      /\ e \in Messages /\ e.arg \in Nat /\ e.arg <= seqnum /\ seqnum' = seqnum
  BY <1>1, TakeFacts DEF HandInv, Typed, NumbersPast, Messages, usbvars
<1>4. heard' \in [Listeners -> Nat] /\ heard'[t] \in {heard[t], e.arg}
      /\ \A u \in Listeners \ {t} : heard'[u] = heard[u]
  BY <1>1, <1>2, <1>3
<1>5. Mine(t)
  BY <1>1, <1>4, TakeFacts DEF usbvars, uivars, Mine, Away
<1>6. requested => LastIn(box[t], Call) /\ (heard[t] = seqnum => ~Queued(t) /\ ~Released(t))
  BY <1>1 DEF HandInv, CallCounted, CallLast
<1>7. requested => CallLast(t)'
  <2>1. CASE heard' = heard
    BY <1>1, <1>3, <1>6, <2>1, TakeFacts DEF CallLast, Call
  <2>2. CASE e.id = "connected" /\ heard'[t] = e.arg
    BY <1>1, <1>3, <1>6, <2>2, TakeFacts, CallIs DEF CallLast, Call
  <2> QED BY <1>2, <1>3, <1>1, <2>1, <2>2
<1>8. Away(t) /\ ~Released(t) => Away(t)' /\ ~Released(t)' /\ heard' = heard
  BY <1>1, <1>2, <1>3, TakeFacts DEF Away
<1>9. Done(t) => Done(t)'
  BY <1>1, <1>3, <1>8, TakeFacts DEF Done
<1>10. \/ usbQueue' = usbQueue
       \/ /\ usbQueue' = Append(usbQueue, Event("ack", e.arg))
          /\ e.id = "connected" /\ audio = "idle" /\ audio' = "out" /\ heard' = heard
  BY <1>2 DEF Acknowledge
<1>11. ASSUME e.id = "connected", audio = "idle", audio' = "out", heard' = heard,
              e.arg = seqnum, requested
       PROVE  ~Done(t) /\ Done(t)'
  BY <1>1, <1>3, <1>6, <1>11, TakeFacts, CallIs DEF Done, Away
<1>12. WorkerKept'
  BY <1>1 DEF HandInv, WorkerKept, uivars
<1> QED BY <1>1, <1>3, <1>4, <1>5, <1>7, <1>8, <1>9, <1>10, <1>11, <1>12,
           TakeFacts, MineKeeps

\* A listener that comes to rest, or goes on, with its queue cleared.
LEMMA AudioStoppedKeeps ==
  ASSUME HandInv, AudioStopped PROVE HandInv'
<1> DEFINE t == "audio"
           n == heard[t]
<1>1. /\ t \in Listeners /\ audio = "stopping" /\ audio' = "out"
      /\ UNCHANGED <<usbvars, uivars, worker>>
      /\ usbQueue' = Append(usbQueue, Event("ack", n))
  BY DEF AudioStopped, Acknowledge, Listeners, usbvars
<1>2. /\ box' \in [Listeners -> Seq(Messages)] /\ box'[t] = <<>>
      /\ heard' \in [Listeners -> Nat] /\ heard'[t] = 0 /\ n \in Nat /\ n <= seqnum
      /\ \A u \in Listeners \ {t} : box'[u] = box[u] /\ heard'[u] = heard[u]
  BY <1>1 DEF HandInv, Typed, NumbersPast, AudioStopped, AudioCleared
<1>3. Mine(t) /\ seqnum' = seqnum /\ seqnum \in Nat
  BY <1>1, <1>2 DEF usbvars, uivars, Mine, Away, HandInv, Typed
<1>4. DOMAIN box'[t] = {}
  BY <1>2
<1>5. requested => CallLast(t)' /\ Done(t)'
  <2>1. requested => seqnum > 0
    BY DEF HandInv, CallCounted
  <2> QED BY <1>1, <1>2, <1>3, <1>4, <2>1
          DEF CallLast, LastIn, Done, Away, Queued, Released, Has, Frees
<1>6. ~Done(t) /\ ~Away(t)
  BY <1>1 DEF Done, Away
<1>7. WorkerKept'
  BY <1>1 DEF HandInv, WorkerKept, uivars
<1> QED BY <1>1, <1>2, <1>3, <1>4, <1>5, <1>6, <1>7, MineKeeps

LEMMA AudioHaltedKeeps ==
  ASSUME HandInv, AudioHalted PROVE HandInv'
<1> DEFINE t == "audio"
<1>1. /\ t \in Listeners /\ audio = "halting" /\ audio' = "idle"
      /\ UNCHANGED <<usbvars, usbQueue, heard, uivars, worker>>
  BY DEF AudioHalted, Listeners
<1>2. /\ box' \in [Listeners -> Seq(Messages)] /\ box'[t] = <<>>
      /\ heard' \in [Listeners -> Nat] /\ heard'[t] <= seqnum
      /\ \A u \in Listeners \ {t} : box'[u] = box[u]
  BY <1>1 DEF HandInv, Typed, NumbersPast, AudioHalted, AudioCleared
<1>3. Mine(t)
  BY <1>1, <1>2 DEF usbvars, uivars, Mine, Away
<1>4. DOMAIN box'[t] = {}
  BY <1>2
<1>5. CallLast(t)'
  BY <1>4 DEF CallLast, LastIn, Queued, Released, Has, Frees
<1>6. ~Done(t) /\ ~Away(t)
  BY <1>1 DEF Done, Away
<1>7. WorkerKept'
  BY <1>1 DEF HandInv, WorkerKept, uivars
<1> QED BY <1>1, <1>2, <1>3, <1>4, <1>5, <1>6, <1>7, MineKeeps

\* The interface writes to the audio thread's queue what is no broadcast.
Stop == Event("stop", 0)

LEMMA StopIs ==
  ASSUME HandInv, VideoStart
  PROVE  /\ Stop \in Messages /\ Stop.arg <= seqnum /\ Stop.id # "disconnected"
         /\ Stop # Call
         /\ "audio" \in Listeners /\ box["audio"] \in Seq(Messages)
         /\ box' \in [Listeners -> Seq(Messages)]
         /\ box'["audio"] = Append(box["audio"], Stop)
         /\ \A u \in Listeners \ {"audio"} : box'[u] = box[u]
         /\ UNCHANGED <<usbvars, usbQueue, heard, audio, suspended, worker>>
         /\ Mine("audio")
<1>1. "audio" \in Listeners /\ box \in [Listeners -> Seq(Messages)] /\ seqnum \in Nat
  BY DEF HandInv, Typed, Listeners
<1>2. /\ Stop \in Messages /\ Stop.arg <= seqnum /\ Stop.id # "disconnected"
      /\ Stop # Call
  BY <1>1 DEF Stop, Event, Messages, Call
<1>3. box' = [box EXCEPT !["audio"] = Append(@, Stop)]
  BY DEF VideoStart, Stop
<1>4. Append(box["audio"], Stop) \in Seq(Messages)
  BY <1>1, <1>2, Joined
<1>5. UNCHANGED <<usbvars, usbQueue, heard, audio, suspended, worker>>
      /\ ui = "free" /\ ui' = "opening"
  BY DEF VideoStart
<1>6. /\ box' \in [Listeners -> Seq(Messages)]
      /\ box'["audio"] = Append(box["audio"], Stop)
      /\ \A u \in Listeners \ {"audio"} : box'[u] = box[u]
  BY <1>1, <1>3, <1>4
<1>7. Mine("audio")
  BY <1>5, <1>6 DEF Mine, Away, usbvars
<1> QED BY <1>1, <1>2, <1>5, <1>6, <1>7

LEMMA VideoStartKeeps ==
  ASSUME HandInv, VideoStart PROVE HandInv'
<1> DEFINE t == "audio"
<1>1. ui = "free" /\ ui' = "opening" /\ Call' = Call /\ heard' = heard /\ audio' = audio
      /\ suspended' = suspended /\ worker' = worker /\ seqnum' = seqnum
      /\ usbQueue' = usbQueue
  BY StopIs DEF VideoStart, usbvars, Call
<1>2. /\ Queued(t)' <=> Queued(t)
      /\ Released(t)' <=> Released(t)
      /\ LastIn(box[t], Call) => LastIn(box[t], Call)'
  <2>1. /\ Stop \in Messages /\ Stop.id # "disconnected" /\ Stop # Call
        /\ box[t] \in Seq(Messages) /\ box'[t] = Append(box[t], Stop)
    BY StopIs
  <2>2. /\ Has(box'[t], Call) <=> Has(box[t], Call)
        /\ Frees(box'[t]) <=> Frees(box[t])
        /\ LastIn(box[t], Call) => LastIn(box'[t], Call)
    <3> HIDE DEF Stop, Call
    <3> QED BY <2>1, AfterJoined
  <2>3. /\ Queued(t)' <=> Has(box'[t], Call)
        /\ LastIn(box[t], Call)' <=> LastIn(box'[t], Call)
    BY <1>1 DEF Queued
  <2> QED BY <2>2, <2>3 DEF Queued, Released
<1>3. requested => CallLast(t)'
  BY <1>1, <1>2, StopIs DEF HandInv, CallCounted, CallLast
<1>4. (Done(t) => Done(t)') /\ (Away(t) /\ ~Released(t) => Away(t)' /\ ~Released(t)')
  BY <1>1, <1>2 DEF Done, Away
<1>5. \A i \in DOMAIN box'[t] : box'[t][i].arg <= seqnum
  <2>1. \A i \in DOMAIN box'[t] : \/ box'[t][i] = Stop
                                  \/ i \in DOMAIN box[t] /\ box'[t][i] = box[t][i]
    BY StopIs, Joined
  <2> QED BY <2>1, StopIs DEF HandInv, NumbersPast
<1>6. WorkerKept'
  BY <1>1 DEF HandInv, WorkerKept
<1>7. heard' \in [Listeners -> Nat] /\ heard'[t] <= seqnum
  BY <1>1, StopIs DEF HandInv, Typed, NumbersPast
<1> QED BY <1>1, <1>3, <1>4, <1>5, <1>6, <1>7, StopIs, MineKeeps

LEMMA UiTakeKeeps ==
  ASSUME HandInv, UiTake PROVE HandInv'
<1> DEFINE t == "ui"
           e == Head(box[t])
<1>1. t \in Listeners /\ Takes(t) /\ UNCHANGED <<usbvars, usbQueue, audio, worker>>
  BY DEF UiTake, Listeners
<1>2. \/ /\ e.id = "connected" /\ ui \in {"free", "video"} /\ ui' \in {"saving", "closing"}
         /\ heard' = [heard EXCEPT ![t] = e.arg] /\ (ui' = "saving" => suspended')
      \/ e.id = "disconnected" /\ ui' = "free" /\ heard' = heard
      \/ UNCHANGED <<ui, suspended, heard>>
  BY DEF UiTake, UiConnected, UiDisconnected
<1>3. heard \in [Listeners -> Nat] /\ heard[t] <= seqnum
      /\ e \in Messages /\ e.arg \in Nat /\ e.arg <= seqnum /\ seqnum' = seqnum
  BY <1>1, TakeFacts DEF HandInv, Typed, NumbersPast, Messages, usbvars
<1>4. heard' \in [Listeners -> Nat] /\ heard'[t] \in {heard[t], e.arg}
      /\ \A u \in Listeners \ {t} : heard'[u] = heard[u]
  BY <1>1, <1>2, <1>3
<1>5. Mine(t)
  BY <1>1, <1>4, TakeFacts DEF usbvars, Mine, Away
<1>6. requested => LastIn(box[t], Call) /\ (heard[t] = seqnum => ~Queued(t) /\ ~Released(t))
  BY <1>1 DEF HandInv, CallCounted, CallLast
<1>7. requested => CallLast(t)'
  <2>1. CASE heard' = heard
    BY <1>1, <1>3, <1>6, <2>1, TakeFacts DEF CallLast, Call
  <2>2. CASE e.id = "connected" /\ heard'[t] = e.arg
    BY <1>1, <1>3, <1>6, <2>2, TakeFacts, CallIs DEF CallLast, Call
  <2> QED BY <1>2, <1>3, <1>1, <2>1, <2>2
<1>8. Away(t) /\ ~Released(t) => Away(t)' /\ ~Released(t)' /\ heard' = heard
  BY <1>1, <1>2, <1>3, TakeFacts DEF Away
<1>9. Done(t) => Done(t)'
  BY <1>1, <1>3, <1>8, TakeFacts DEF Done
<1>10. WorkerKept'
  BY <1>1, <1>2 DEF HandInv, WorkerKept
<1> QED BY <1>1, <1>3, <1>4, <1>5, <1>7, <1>8, <1>9, <1>10, TakeFacts, MineKeeps

LEMMA VideoClosedKeeps ==
  ASSUME HandInv, VideoClosed PROVE HandInv'
<1> DEFINE t == "ui"
           n == heard[t]
<1>1. /\ t \in Listeners /\ ui = "closing" /\ ui' = "free"
      /\ UNCHANGED <<usbvars, usbQueue, audio, worker, suspended>>
  BY DEF VideoClosed, Listeners
<1>2. n \in Nat /\ n <= seqnum /\ seqnum \in Nat /\ seqnum' = seqnum
  BY <1>1 DEF HandInv, Typed, NumbersPast, usbvars
<1>3. box'[t] = IF n = 0 THEN <<>> ELSE <<Event("connected", n)>>
  BY <1>1 DEF HandInv, Typed, VideoClosed
<1>4. box'[t] \in Seq(Messages)
  <2>1. Event("connected", n) \in Messages
    BY <1>2 DEF Event, Messages
  <2> QED BY <1>3, <2>1
<1>5. /\ box' \in [Listeners -> Seq(Messages)]
      /\ heard' \in [Listeners -> Nat] /\ heard'[t] = 0
      /\ \A u \in Listeners \ {t} : box'[u] = box[u] /\ heard'[u] = heard[u]
  BY <1>1, <1>4 DEF HandInv, Typed, VideoClosed
<1>6. Mine(t)
  BY <1>1, <1>5 DEF usbvars, Mine, Away
<1>7. \A i \in DOMAIN box'[t] : i = 1 /\ box'[t][i] = Event("connected", n)
  BY <1>3
<1>8. \A i \in DOMAIN box'[t] : box'[t][i].arg <= seqnum
  BY <1>2, <1>7 DEF Event
<1>9. requested => CallLast(t)'
  <2>1. requested => seqnum > 0
    BY DEF HandInv, CallCounted
  <2>2. LastIn(box[t], Call)'
    BY <1>7 DEF LastIn
  <2> QED BY <1>2, <1>5, <2>1, <2>2 DEF CallLast
<1>10. ~Away(t) /\ ~Done(t)
  BY <1>1 DEF Done, Away
<1>11. WorkerKept'
  BY <1>1 DEF HandInv, WorkerKept
<1>12. heard'[t] <= seqnum
  BY <1>2, <1>5
<1> QED BY <1>1, <1>5, <1>6, <1>8, <1>9, <1>10, <1>11, <1>12, MineKeeps

LEMMA UiSavedKeeps ==
  ASSUME HandInv, UiSaved PROVE HandInv'
<1> DEFINE t == "ui"
           n == heard[t]
<1>1. /\ t \in Listeners /\ ui = "saving" /\ ui' = "out" /\ worker = "waiting"
      /\ UNCHANGED <<usbvars, box, audio, worker, suspended>>
      /\ usbQueue' = Append(usbQueue, Event("ack", n))
  BY DEF UiSaved, Acknowledge, Listeners
<1>2. /\ heard' \in [Listeners -> Nat] /\ heard'[t] = 0 /\ n \in Nat /\ n <= seqnum
      /\ box' \in [Listeners -> Seq(Messages)] /\ seqnum \in Nat /\ seqnum' = seqnum
      /\ \A u \in Listeners \ {t} : heard'[u] = heard[u]
  BY <1>1 DEF HandInv, Typed, NumbersPast, UiSaved, usbvars
<1>3. Mine(t)
  BY <1>1, <1>2 DEF usbvars, Mine, Away
<1>4. requested => seqnum > 0 /\ CallLast(t)
  BY <1>1 DEF HandInv, CallCounted
<1>5. (Queued(t)' <=> Queued(t)) /\ (Released(t)' <=> Released(t))
      /\ (LastIn(box[t], Call)' <=> LastIn(box[t], Call))
  BY <1>1, <1>2 DEF Queued, Released, Call
<1>6. requested => CallLast(t)'
  BY <1>2, <1>4, <1>5 DEF CallLast
<1>7. ~Away(t) /\ ~Done(t)
  BY <1>1 DEF Done, Away
<1>8. n = seqnum /\ requested => Done(t)'
  BY <1>1, <1>2, <1>4, <1>5 DEF CallLast, Done, Away
<1>9. WorkerKept'
  BY <1>1 DEF HandInv, WorkerKept
<1>10. heard'[t] <= seqnum /\ \A i \in DOMAIN box'[t] : box'[t][i].arg <= seqnum
  BY <1>1, <1>2 DEF HandInv, NumbersPast
<1> QED BY <1>1, <1>2, <1>3, <1>6, <1>7, <1>8, <1>9, <1>10, MineKeeps

\* Music, videos and the worker go about their own affairs; so does the prompt.
LEMMA NothingSaid ==
  ASSUME HandInv, UNCHANGED <<usbvars, usbQueue, box, heard>>,
         \A t \in Listeners : Away(t)' <=> Away(t), WorkerKept'
  PROVE  HandInv'
<1>1. CASE UNCHANGED <<usb, requested, enabled, seqnum, expect, mounted>>
  <2>1. "audio" \in Listeners /\ Mine("audio")
    BY <1>1 DEF Listeners, Mine
  <2>2. \A t \in Listeners : (Done(t)' <=> Done(t)) /\ (CallLast(t)' <=> CallLast(t))
                             /\ (Released(t)' <=> Released(t))
    BY <1>1 DEF Done, CallLast, Queued, Released, Call
  <2>3. /\ requested => CallLast("audio")
        /\ heard["audio"] <= seqnum
        /\ \A i \in DOMAIN box["audio"] : box["audio"][i].arg <= seqnum
        /\ box' \in [Listeners -> Seq(Messages)] /\ heard' \in [Listeners -> Nat]
    BY <2>1 DEF HandInv, CallCounted, NumbersPast, Typed
  <2> QED BY <2>1, <2>2, <2>3, MineKeeps
<1> QED BY <1>1 DEF usbvars

LEMMA LocalKeeps ==
  ASSUME HandInv,
         \/ AudioPlay \/ AudioEnds \/ VideoOpened \/ VideoEnds
         \/ WorkerStarts \/ WorkerDone \/ UNCHANGED vars
  PROVE  HandInv'
<1>1. UNCHANGED <<usbvars, usbQueue, box, heard>>
  BY DEF AudioPlay, AudioEnds, VideoOpened, VideoEnds, WorkerStarts, WorkerDone, vars
<1>2. \A t \in Listeners : Away(t)' <=> Away(t)
  BY DEF AudioPlay, AudioEnds, VideoOpened, VideoEnds, WorkerStarts, WorkerDone,
         vars, uivars, Away
<1>3. WorkerKept'
  BY DEF HandInv, WorkerKept, AudioPlay, AudioEnds, VideoOpened, VideoEnds,
         WorkerStarts, WorkerDone, vars, uivars
<1> QED BY <1>1, <1>2, <1>3, NothingSaid

-------------------------------------------------------------------------------
\* The cable and the host write to the USB thread, but never an answer.
LEMMA EnvironmentKeeps ==
  ASSUME HandInv, Environment PROVE HandInv'
<1>1. PICK e \in Notices : usbQueue' = Append(usbQueue, e) /\ e.id # "ack"
  BY DEF Environment, PlugIn, PullOut, HostConfig, Event, Notices
<1>2. UNCHANGED <<usbvars, box, heard, audio, uivars, worker>>
  BY DEF Environment, PlugIn, PullOut, HostConfig
<1>3. usbQueue \in Seq(Notices) /\ seqnum \in Nat
  BY DEF HandInv, Typed
<1>4. /\ usbQueue' \in Seq(Notices)
      /\ \A i \in DOMAIN usbQueue' :
           \/ usbQueue'[i] = e
           \/ i \in DOMAIN usbQueue /\ usbQueue'[i] = usbQueue[i]
  BY <1>1, <1>3, Joined
<1>5. Typed'
  BY <1>2, <1>4 DEF HandInv, Typed, usbvars
<1>6. NumbersPast'
  BY <1>1, <1>2, <1>4 DEF HandInv, NumbersPast, usbvars
<1>7. Cardinality(Answers') = Cardinality(Answers)
  <2>1. e # Event("ack", seqnum)
    BY <1>1 DEF Event
  <2>2. Answers' = Places(Append(usbQueue, e), Event("ack", seqnum))
    BY <1>1, <1>2 DEF Answers, usbvars
  <2> QED BY <1>3, <2>1, <2>2, PlacesJoined, PlacesFinite DEF Answers
<1>8. \A t \in Listeners : (Done(t)' <=> Done(t)) /\ (CallLast(t)' <=> CallLast(t))
                           /\ (Released(t)' <=> Released(t)) /\ (Away(t)' <=> Away(t))
  BY <1>2 DEF Done, CallLast, Queued, Released, Call, Away, usbvars, uivars
<1>9. Missing' = Missing
  BY <1>8 DEF Missing
<1>10. CallCounted'
  BY <1>2, <1>7, <1>8, <1>9 DEF HandInv, CallCounted, usbvars
<1>11. DiskKept' /\ WorkerKept' /\ AllAway'
  BY <1>2, <1>8 DEF HandInv, DiskKept, WorkerKept, AllAway, usbvars, uivars
<1> QED BY <1>5, <1>6, <1>10, <1>11 DEF HandInv

-------------------------------------------------------------------------------
\* Broadcasts, and that their numbers are not ahead of the count.
Boxes == [Listeners -> Seq(Messages)]
PastIn(b, n) == \A t \in Listeners : \A i \in DOMAIN b[t] : b[t][i].arg <= n

LEMMA BroadcastIs ==
  ASSUME NEW b \in Boxes, NEW e \in Messages
  PROVE  /\ Broadcast(e, b) \in Boxes
         /\ \A t \in Listeners : Broadcast(e, b)[t] = Append(b[t], e)
         /\ \A n \in Nat : PastIn(b, n) /\ e.arg <= n => PastIn(Broadcast(e, b), n)
<1>1. \A t \in Listeners : b[t] \in Seq(Messages)
  BY DEF Boxes
<1>2. \A t \in Listeners : /\ Broadcast(e, b)[t] = Append(b[t], e)
                           /\ Append(b[t], e) \in Seq(Messages)
  BY <1>1, Joined DEF Broadcast
<1>3. Broadcast(e, b) \in Boxes
  BY <1>2 DEF Broadcast, Boxes
<1>4. ASSUME NEW n \in Nat, PastIn(b, n), e.arg <= n, NEW t \in Listeners,
             NEW i \in DOMAIN Append(b[t], e)
      PROVE  Append(b[t], e)[i].arg <= n
  <2>1. Append(b[t], e)[i] = e \/ (i \in DOMAIN b[t] /\ Append(b[t], e)[i] = b[t][i])
    BY <1>1, <1>4, Joined
  <2> QED BY <1>4, <2>1 DEF PastIn
<1> QED BY <1>2, <1>3, <1>4 DEF PastIn

LEMMA FreedIs ==
  ASSUME HandInv
  PROVE  Freed \in Boxes /\ PastIn(Freed, seqnum)
<1>1. box \in Boxes /\ PastIn(box, seqnum) /\ seqnum \in Nat
  BY DEF HandInv, Typed, NumbersPast, Boxes, PastIn
<1>2. Event("disconnected", 0) \in Messages /\ Event("disconnected", 0).arg <= seqnum
  BY <1>1 DEF Event, Messages
<1> QED BY <1>1, <1>2, BroadcastIs DEF Freed

LEMMA ToldIs ==
  ASSUME NEW b \in Boxes, NEW n \in Nat, PastIn(b, n)
  PROVE  TellExtracted(b) \in Boxes /\ PastIn(TellExtracted(b), n)
<1> DEFINE e == Event("extracted", 0)
           c == TellExtracted(b)
<1>1. e \in Messages /\ e.arg = 0 /\ b["ui"] \in Seq(Messages) /\ "ui" \in Listeners
  BY DEF Event, Messages, Boxes, Listeners
<1>2. /\ c["ui"] = Append(b["ui"], e)
      /\ \A t \in Listeners \ {"ui"} : c[t] = b[t]
  BY <1>1 DEF TellExtracted, Boxes
<1>3. /\ Append(b["ui"], e) \in Seq(Messages)
      /\ \A i \in DOMAIN Append(b["ui"], e) :
           Append(b["ui"], e)[i] = e \/ (i \in DOMAIN b["ui"] /\ Append(b["ui"], e)[i] = b["ui"][i])
  BY <1>1, Joined
<1>4. c \in Boxes
  BY <1>3 DEF TellExtracted, Boxes
<1>5. PastIn(c, n)
  BY <1>1, <1>2, <1>3 DEF PastIn
<1> QED BY <1>4, <1>5

-------------------------------------------------------------------------------
\* The USB thread takes a notice.
UsbTakes ==
  /\ usb = "loop" /\ usbQueue # <<>> /\ usbQueue' = Tail(usbQueue)
  /\ UNCHANGED <<heard, audio, uivars, worker>>

LEMMA UsbTakeFacts ==
  ASSUME HandInv, UsbTakes
  PROVE  /\ usbQueue' \in Seq(Notices) /\ Head(usbQueue) \in Notices
         /\ \A i \in DOMAIN usbQueue' : usbQueue'[i].id = "ack" => usbQueue'[i].arg <= seqnum
         /\ Cardinality(Answers)
              = Cardinality(Places(usbQueue', Event("ack", seqnum)))
                + (IF Head(usbQueue) = Event("ack", seqnum) THEN 1 ELSE 0)
         /\ Cardinality(Places(usbQueue', Event("ack", seqnum))) \in Nat
         /\ heard \in [Listeners -> Nat] /\ heard' = heard
         /\ \A t \in Listeners : Away(t)' <=> Away(t)
         /\ WorkerKept'
         /\ mounted <=> ~enabled
<1>1. usbQueue \in Seq(Notices) /\ usbQueue # <<>>
  BY DEF HandInv, Typed, UsbTakes
<1>2. usbQueue' \in Seq(Notices) /\ Head(usbQueue) \in Notices
      /\ \A i \in DOMAIN usbQueue' : \E j \in DOMAIN usbQueue : usbQueue'[i] = usbQueue[j]
  BY <1>1, Taken DEF UsbTakes
<1>3. \A i \in DOMAIN usbQueue' : usbQueue'[i].id = "ack" => usbQueue'[i].arg <= seqnum
  BY <1>2 DEF HandInv, NumbersPast
<1>4. Cardinality(Places(usbQueue', Event("ack", seqnum))) \in Nat
  BY <1>2, PlacesFinite
<1>5. Cardinality(Answers)
        = Cardinality(Places(usbQueue', Event("ack", seqnum)))
          + (IF Head(usbQueue) = Event("ack", seqnum) THEN 1 ELSE 0)
  BY <1>1, PlacesTaken DEF Answers, UsbTakes
<1>6. WorkerKept' /\ \A t \in Listeners : Away(t)' <=> Away(t)
  BY DEF HandInv, WorkerKept, UsbTakes, uivars, Away
<1>7. heard \in [Listeners -> Nat] /\ heard' = heard /\ (mounted <=> ~enabled)
  BY DEF HandInv, Typed, DiskKept, UsbTakes
<1> QED BY <1>2, <1>3, <1>4, <1>5, <1>6, <1>7

\* A notice that changes nothing, or makes the thread ask the user.
LEMMA QuietTake ==
  ASSUME HandInv, UsbTakes,
         UNCHANGED <<requested, enabled, seqnum, expect, mounted, box>>,
         usb' \in {usb, "asking"}
  PROVE  HandInv'
<1>1. Typed'
  BY UsbTakeFacts DEF HandInv, Typed
<1>2. NumbersPast'
  BY UsbTakeFacts DEF HandInv, NumbersPast
<1>3. \A t \in Listeners : (Done(t)' <=> Done(t)) /\ (CallLast(t)' <=> CallLast(t))
                           /\ (Released(t)' <=> Released(t))
  BY UsbTakeFacts DEF Done, CallLast, Queued, Released, Call
<1>4. Missing' = Missing
  BY <1>3 DEF Missing
<1>5. Cardinality(Answers') <= Cardinality(Answers) /\ Cardinality(Answers') \in Nat
      /\ Cardinality(Answers) \in Nat
  BY UsbTakeFacts DEF Answers
<1>6. CallCounted'
  BY <1>3, <1>4, <1>5, MissingCount DEF HandInv, CallCounted, Typed
<1>7. DiskKept' /\ AllAway'
  BY <1>3, UsbTakeFacts DEF HandInv, DiskKept, AllAway, UsbTakes
<1> QED BY <1>1, <1>2, <1>6, <1>7, UsbTakeFacts DEF HandInv

\* A request is withdrawn: nothing is counted any more.
LEMMA WithdrawnKeeps ==
  ASSUME HandInv, UsbTakes, ~requested', requested' \in BOOLEAN,
         UNCHANGED <<enabled, seqnum, expect, mounted>>,
         box' \in Boxes, PastIn(box', seqnum),
         \/ enabled /\ box' = box /\ usb' \in {"mounting", "leaving"}
         \/ ~enabled /\ usb' = usb
  PROVE  HandInv'
<1>1. Typed'
  BY UsbTakeFacts DEF HandInv, Typed, Boxes
<1>2. NumbersPast'
  BY UsbTakeFacts DEF HandInv, NumbersPast, PastIn
<1>3. CallCounted' /\ DiskKept'
  BY UsbTakeFacts DEF HandInv, CallCounted, DiskKept, UsbTakes
<1>4. AllAway'
  BY UsbTakeFacts DEF HandInv, AllAway, Released
<1> QED BY <1>1, <1>2, <1>3, <1>4, UsbTakeFacts DEF HandInv

\* A new request: nobody has answered it, and nobody is done.
LEMMA RequestKeeps ==
  ASSUME HandInv, UsbTakes, ~enabled, Request(Freed),
         UNCHANGED <<usb, enabled, mounted>>
  PROVE  HandInv'
<1> DEFINE e == Event("connected", seqnum + 1)
<1>1. seqnum \in Nat /\ seqnum' = seqnum + 1 /\ e \in Messages /\ e.arg = seqnum + 1
      /\ Call' = e
  BY DEF HandInv, Typed, Request, Event, Messages, Call
<1>2. Freed \in Boxes /\ PastIn(Freed, seqnum)
  BY FreedIs
<1>3. /\ box' \in Boxes
      /\ \A t \in Listeners : box'[t] = Append(Freed[t], e) /\ Freed[t] \in Seq(Messages)
  BY <1>1, <1>2, BroadcastIs DEF Request, Boxes
<1>4. PastIn(box', seqnum')
  <2>1. PastIn(Freed, seqnum + 1)
    <3>1. ASSUME NEW t \in Listeners, NEW i \in DOMAIN Freed[t]
          PROVE  Freed[t][i].arg \in Nat /\ Freed[t][i].arg <= seqnum
      <4>1. Freed[t][i] \in Messages
        BY <1>3, Element
      <4> QED BY <1>2, <4>1 DEF Messages, PastIn
    <3> QED BY <1>1, <3>1 DEF PastIn
  <2> QED BY <1>1, <1>2, <2>1, BroadcastIs DEF Request
<1>5. ASSUME NEW t \in Listeners
      PROVE  CallLast(t)' /\ heard'[t] <= seqnum'
  <2>1. ~Has(Freed[t], e)
    <3>1. \A i \in DOMAIN Freed[t] : Freed[t][i].arg <= seqnum
      BY <1>2 DEF PastIn
    <3> QED BY <1>1, <3>1 DEF Has
  <2>2. LastIn(Append(Freed[t], e), e)
    BY <1>1, <1>3, <2>1, AfterJoined
  <2>3. heard'[t] = heard[t] /\ heard[t] <= seqnum /\ heard[t] \in Nat
    BY UsbTakeFacts DEF HandInv, NumbersPast
  <2>4. heard'[t] # seqnum' /\ heard'[t] <= seqnum'
    BY <1>1, <2>3
  <2> QED BY <1>1, <1>3, <2>2, <2>4 DEF CallLast
<1>6. Answers' = {}
  <2>1. ASSUME NEW i \in DOMAIN usbQueue' PROVE usbQueue'[i] # Event("ack", seqnum + 1)
    BY <1>1, UsbTakeFacts DEF Event
  <2> QED BY <1>1, <2>1 DEF Answers, Places
<1>7. Cardinality(Answers') = 0
  BY <1>6, FS_EmptySet
<1>8. expect' \in Nat /\ expect' >= Cardinality(Missing') /\ Cardinality(Missing') \in Nat
  <2>1. Missing' \subseteq Listeners
    BY DEF Missing
  <2> QED BY <2>1, FewListeners, FS_Subset, FS_CardinalityType DEF Request
<1>9. CallCounted'
  BY <1>1, <1>5, <1>7, <1>8 DEF CallCounted
<1>10. Typed'
  BY <1>1, <1>3, <1>8, UsbTakeFacts DEF HandInv, Typed, Boxes, Request
<1>11. NumbersPast'
  <2>1. \A i \in DOMAIN usbQueue' : usbQueue'[i].id = "ack" => usbQueue'[i].arg <= seqnum'
    <3>1. \A i \in DOMAIN usbQueue' : usbQueue'[i].arg \in Nat
      <4>1. \A i \in DOMAIN usbQueue' : usbQueue'[i] \in Notices
        BY UsbTakeFacts, Element
      <4> QED BY <4>1 DEF Notices
    <3> QED BY <1>1, <3>1, UsbTakeFacts
  <2> QED BY <1>4, <1>5, <2>1 DEF NumbersPast, PastIn
<1>12. DiskKept' /\ AllAway'
  BY UsbTakeFacts DEF HandInv, DiskKept, AllAway, UsbTakes
<1> QED BY <1>9, <1>10, <1>11, <1>12, UsbTakeFacts DEF HandInv

\* An answer that counts: the last one finds everybody done.
LEMMA CountedKeeps ==
  ASSUME HandInv, UsbTakes, Head(usbQueue) = Event("ack", seqnum), expect > 0,
         expect' = expect - 1, UNCHANGED <<requested, enabled, seqnum, box>>,
         \/ UNCHANGED <<usb, mounted>>
         \/ expect = 1 /\ requested /\ usb' = "unmounting" /\ mounted' = FALSE
  PROVE  HandInv'
<1>1. expect' \in Nat /\ expect \in Nat
  BY DEF HandInv, Typed
<1>2. Typed'
  BY <1>1, UsbTakeFacts DEF HandInv, Typed
<1>3. NumbersPast'
  BY UsbTakeFacts DEF HandInv, NumbersPast
<1>4. \A t \in Listeners : (Done(t)' <=> Done(t)) /\ (CallLast(t)' <=> CallLast(t))
                           /\ (Released(t)' <=> Released(t))
  BY UsbTakeFacts DEF Done, CallLast, Queued, Released, Call
<1>5. Missing' = Missing
  BY <1>4 DEF Missing
<1>6. Cardinality(Answers) = Cardinality(Answers') + 1 /\ Cardinality(Answers') \in Nat
  BY UsbTakeFacts DEF Answers
<1>7. CallCounted'
  BY <1>1, <1>4, <1>5, <1>6, MissingCount DEF HandInv, CallCounted
<1>8. ASSUME expect = 1, requested
      PROVE  \A t \in Listeners : Away(t)' /\ ~Released(t)'
  <2>1. Cardinality(Missing) = 0
    BY <1>6, <1>8, MissingCount DEF HandInv, CallCounted
  <2>2. Missing = {}
    BY <2>1, MissingCount, FS_EmptySet
  <2> QED BY <1>4, <2>2 DEF Missing, Done
<1>9. AllAway'
  BY <1>4, <1>8, UsbTakeFacts DEF HandInv, AllAway
<1>10. DiskKept'
  BY DEF HandInv, DiskKept, UsbTakes
<1> QED BY <1>2, <1>3, <1>7, <1>9, <1>10, UsbTakeFacts DEF HandInv

LEMMA UsbTakeKeeps ==
  ASSUME HandInv, UsbTake PROVE HandInv'
<1> DEFINE e == Head(usbQueue)
           same == UNCHANGED <<usb, requested, enabled, seqnum, expect, mounted, box>>
<1>1. UsbTakes
  BY DEF UsbTake, UsbTakes
<1>2. box \in Boxes /\ PastIn(box, seqnum) /\ seqnum \in Nat
      /\ Freed \in Boxes /\ PastIn(Freed, seqnum)
  BY FreedIs DEF HandInv, Typed, NumbersPast, Boxes, PastIn
<1>3. CASE same
  BY <1>1, <1>3, QuietTake
<1>4. CASE Demand
  <2>1. enabled => same
    BY <1>1, <1>4 DEF Demand, UsbTakes
  <2>2. CASE ~enabled
    BY <1>1, <1>4, <2>2, RequestKeeps DEF Demand
  <2> QED BY <1>3, <2>1, <2>2
<1>5. CASE Waive
  BY <1>1, <1>2, <1>5, WithdrawnKeeps DEF Waive
<1>6. CASE Insert
  BY <1>1, <1>6, QuietTake DEF Insert
<1>7. CASE Extract
  <2>1. CASE ~inserted
    BY <1>3, <1>7, <2>1 DEF Extract
  <2>2. CASE inserted /\ enabled
    BY <1>1, <1>2, <1>7, <2>2, WithdrawnKeeps DEF Extract
  <2>3. CASE inserted /\ ~enabled
    BY <1>1, <1>2, <1>7, <2>3, ToldIs, WithdrawnKeeps DEF Extract
  <2> QED BY <2>1, <2>2, <2>3
<1>8. CASE e.id = "ack" /\ Acknowledged(e.arg)
  <2>1. CASE e.arg # seqnum \/ expect = 0
    BY <1>3, <1>8, <2>1 DEF Acknowledged
  <2>2. CASE e.arg = seqnum /\ expect # 0
    <3>1. e = Event("ack", seqnum)
      BY <1>1, <1>8, <2>2, UsbTakeFacts DEF Notices, Event
    <3>2. expect > 0
      BY <2>2 DEF HandInv, Typed
    <3> QED BY <1>1, <1>8, <2>2, <3>1, <3>2, CountedKeeps DEF Acknowledged
  <2> QED BY <2>1, <2>2
<1>9. same \/ Demand \/ Waive \/ Insert \/ Extract \/ (e.id = "ack" /\ Acknowledged(e.arg))
  BY DEF UsbTake, SetConfig, usbvars
<1> QED BY <1>3, <1>4, <1>5, <1>6, <1>7, <1>8, <1>9

\* The user answers; the disk is unmounted.
LEMMA DiskStep ==
  ASSUME HandInv, Typed', DiskKept',
         UNCHANGED <<usbQueue, requested, seqnum, expect, mounted, box, heard,
                     audio, ui, suspended, worker>>
  PROVE  HandInv'
<1>1. \A t \in Listeners : (Done(t)' <=> Done(t)) /\ (CallLast(t)' <=> CallLast(t))
                           /\ (Released(t)' <=> Released(t)) /\ (Away(t)' <=> Away(t))
  BY DEF Done, CallLast, Queued, Released, Call, Away
<1>2. Missing' = Missing /\ Answers' = Answers
  BY <1>1 DEF Missing, Answers
<1>3. NumbersPast' /\ WorkerKept'
  BY DEF HandInv, NumbersPast, WorkerKept
<1>4. CallCounted'
  BY <1>1, <1>2 DEF HandInv, CallCounted
<1>5. AllAway'
  BY <1>1 DEF HandInv, AllAway
<1> QED BY <1>3, <1>4, <1>5 DEF HandInv

LEMMA RemountedKeeps ==
  ASSUME HandInv, Remounted PROVE HandInv'
<1> DEFINE e == Event("disconnected", 0)
           back == Broadcast(e, box)
<1>1. box \in Boxes /\ PastIn(box, seqnum) /\ seqnum \in Nat /\ ~requested
  BY DEF HandInv, Typed, NumbersPast, Boxes, PastIn, DiskKept, Remounted
<1>2. e \in Messages /\ e.arg <= seqnum
  BY <1>1 DEF Event, Messages
<1>3. back \in Boxes /\ PastIn(back, seqnum)
  BY <1>1, <1>2, BroadcastIs
<1>4. box' \in Boxes /\ PastIn(box', seqnum)
  <2>1. box' = back \/ box' = TellExtracted(back)
    BY DEF Remounted
  <2> QED BY <1>1, <1>3, <2>1, ToldIs
<1>5. Typed'
  BY <1>4 DEF HandInv, Typed, Boxes, Remounted
<1>6. NumbersPast'
  BY <1>4 DEF HandInv, NumbersPast, PastIn, Remounted
<1>7. CallCounted' /\ DiskKept' /\ AllAway'
  BY <1>1 DEF CallCounted, DiskKept, AllAway, Remounted
<1>8. WorkerKept'
  BY DEF HandInv, WorkerKept, Remounted, uivars
<1> QED BY <1>5, <1>6, <1>7, <1>8 DEF HandInv

LEMMA UsbThreadKeeps ==
  ASSUME HandInv, UsbThread PROVE HandInv'
<1>1. CASE Unmounted
  <2>1. Typed' /\ DiskKept'
    BY <1>1 DEF HandInv, Typed, DiskKept, Unmounted
  <2> QED BY <1>1, <2>1, DiskStep DEF Unmounted, uivars
<1>2. ASSUME NEW storage \in BOOLEAN, Connect(storage)
      PROVE  HandInv'
  <2>1. Typed' /\ DiskKept'
    BY <1>2 DEF HandInv, Typed, DiskKept, Connect
  <2> QED BY <1>2, <2>1, DiskStep DEF Connect
<1> QED BY <1>1, <1>2, UsbTakeKeeps, RemountedKeeps DEF UsbThread, Charge, AnswerData

LEMMA HandInit == Init => HandInv
<1> SUFFICES ASSUME Init PROVE HandInv
  OBVIOUS
<1>1. Typed
  <2>1. <<>> \in Seq(Notices) /\ <<>> \in Seq(Messages)
    OBVIOUS
  <2>2. box \in [Listeners -> Seq(Messages)] /\ heard \in [Listeners -> Nat]
    BY <2>1 DEF Init
  <2>3. usbQueue \in Seq(Notices)
    BY <2>1 DEF Init
  <2> QED BY <2>2, <2>3 DEF Init, Typed
<1>2. NumbersPast
  BY DEF Init, NumbersPast
<1>3. CallCounted /\ DiskKept /\ WorkerKept /\ AllAway
  BY DEF Init, CallCounted, DiskKept, WorkerKept, AllAway
<1> QED BY <1>1, <1>2, <1>3 DEF HandInv

LEMMA HandStep ==
  ASSUME HandInv, [Next]_vars PROVE HandInv'
<1>1. CASE Audio
  BY <1>1, AudioTakeKeeps, AudioStoppedKeeps, AudioHaltedKeeps, LocalKeeps DEF Audio
<1>2. CASE Ui
  BY <1>2, UiTakeKeeps, UiSavedKeeps, VideoStartKeeps, VideoClosedKeeps, LocalKeeps
     DEF Ui
<1>3. CASE WorkerStarts \/ WorkerDone \/ UNCHANGED vars
  BY <1>3, LocalKeeps
<1> QED BY <1>1, <1>2, <1>3, EnvironmentKeeps, UsbThreadKeeps, BacklightKeeps DEF Next

\* The invariant of the hand-over: what the USB thread still expects covers every
\* listener that has not let go, and the disk is lent exactly when none is left.
THEOREM HandKept == Spec => []HandInv
BY HandInit, HandStep, PTL DEF Spec

\* While the disk is not mounted for the player, no thread that uses files does
\* anything, worker included, whatever cable, host, user and workload do: the
\* host owns the file system alone.
THEOREM HostIsAlone == Spec => []HostAlone
<1>1. HandInv => HostAlone
  BY DEF HandInv, AllAway, WorkerKept, HostAlone, Away, Listeners
<1> QED BY <1>1, HandKept, PTL

-------------------------------------------------------------------------------
\* Who can still answer the current broadcast: a listener that has it before it,
\* or is working on it.  The same listener may do both.
Copies(t) == Cardinality(Places(box[t], Call))
Tokens(t) == Copies(t) + (IF heard[t] = seqnum THEN 1 ELSE 0)

\* The USB thread still expects every answer that can come.
AnswersInv ==
  seqnum > 0 =>
    expect >= Cardinality(Answers) + Tokens("audio") + Tokens("ui") + Tokens("backlight")

LEMMA ThreeListeners == Cardinality(Listeners) = 3
<1>1. Listeners = ({"audio"} \cup {"ui"}) \cup {"backlight"}
  BY DEF Listeners
<1>2. IsFiniteSet({"audio"}) /\ Cardinality({"audio"}) = 1
  BY FS_Singleton
<1>3. IsFiniteSet({"audio"} \cup {"ui"}) /\ Cardinality({"audio"} \cup {"ui"}) = 2
  BY <1>2, FS_AddElement
<1> QED BY <1>1, <1>3, FS_AddElement

LEMMA TokensAre ==
  ASSUME Typed
  PROVE  /\ Cardinality(Answers) \in Nat
         /\ \A t \in Listeners : Copies(t) \in Nat /\ Tokens(t) \in Nat
<1>1. Cardinality(Answers) \in Nat
  BY PlacesFinite DEF Typed, Answers
<1>2. \A t \in Listeners : Copies(t) \in Nat
  BY PlacesFinite DEF Typed, Copies
<1> QED BY <1>1, <1>2 DEF Tokens

LEMMA NextTokensAre ==
  ASSUME Typed'
  PROVE  /\ Cardinality(Answers') \in Nat
         /\ \A t \in Listeners : Copies(t)' \in Nat /\ Tokens(t)' \in Nat
<1>1. Cardinality(Answers') \in Nat
  BY PlacesFinite DEF Typed, Answers
<1>2. \A t \in Listeners : Copies(t)' \in Nat
  BY PlacesFinite DEF Typed, Copies
<1> QED BY <1>1, <1>2 DEF Tokens

\* A step of one listener that answers at most as often as it no longer can.
LEMMA SpentKeeps ==
  ASSUME Typed, Typed', AnswersInv, NEW t \in Listeners, Mine(t),
         seqnum > 0 => Cardinality(Answers') + Tokens(t)' <= Cardinality(Answers) + Tokens(t)
  PROVE  AnswersInv'
<1>1. \A u \in Listeners \ {t} : Tokens(u)' = Tokens(u)
  BY DEF Mine, Tokens, Copies, Call
<1>2. seqnum' = seqnum /\ expect' = expect /\ expect \in Nat /\ seqnum \in Nat
  BY DEF Mine, Typed
<1>3. /\ t \in {"audio", "ui", "backlight"}
      /\ {"audio", "ui", "backlight"} \subseteq Listeners
  BY DEF Listeners
<1> HIDE DEF Answers, Tokens, Typed
<1> QED BY <1>1, <1>2, <1>3, TokensAre, NextTokensAre DEF AnswersInv

LEMMA AnswerJoined ==
  ASSUME Typed, seqnum' = seqnum, NEW n \in Nat,
         usbQueue' = Append(usbQueue, Event("ack", n))
  PROVE  Cardinality(Answers') = Cardinality(Answers) + (IF n = seqnum THEN 1 ELSE 0)
<1>1. Event("ack", n) \in Notices
  BY DEF Event, Notices
<1>2. Event("ack", n) = Event("ack", seqnum) <=> n = seqnum
  BY DEF Event
<1>3. Answers' = Places(Append(usbQueue, Event("ack", n)), Event("ack", seqnum))
  BY DEF Answers
<1> QED BY <1>1, <1>2, <1>3, PlacesJoined DEF Typed, Answers

LEMMA CopyTaken ==
  ASSUME Typed, NEW t \in Listeners, Takes(t), seqnum' = seqnum
  PROVE  Copies(t) = Copies(t)' + (IF Head(box[t]) = Call THEN 1 ELSE 0)
<1>1. box[t] \in Seq(Messages) /\ box[t] # <<>> /\ box'[t] = Tail(box[t])
  BY DEF Typed, Takes
<1>2. Call' = Call
  BY DEF Call
<1> QED BY <1>1, <1>2, PlacesTaken DEF Copies

\* A listener takes a message; it answers, works on it, or drops it.
LEMMA TokenTaken ==
  ASSUME HandInv, Typed', AnswersInv, NEW t \in Listeners, Takes(t), Mine(t),
         \/ heard'[t] = heard[t] /\ usbQueue' = usbQueue
         \/ /\ Head(box[t]).id = "connected"
            /\ heard'[t] = Head(box[t]).arg /\ usbQueue' = usbQueue
         \/ /\ Head(box[t]).id = "connected"
            /\ heard'[t] = heard[t] /\ Acknowledge(Head(box[t]).arg)
  PROVE  AnswersInv'
<1> DEFINE e == Head(box[t])
<1>1. Typed /\ seqnum' = seqnum /\ e \in Messages /\ e.arg \in Nat
  BY TakeFacts DEF HandInv, Mine, Messages
<1>2. Copies(t) = Copies(t)' + (IF e = Call THEN 1 ELSE 0)
  BY <1>1, CopyTaken
<1>3. e = Call <=> e.id = "connected" /\ e.arg = seqnum
  BY <1>1, CallIs
<1>4. CASE usbQueue' = usbQueue
  <2>1. Answers' = Answers
    BY <1>1, <1>4 DEF Answers
  <2>2. heard'[t] = heard[t] \/ (e.id = "connected" /\ heard'[t] = e.arg)
    OBVIOUS
  <2>3. Tokens(t)' <= Tokens(t)
    <3> HIDE DEF e
    <3> QED BY <1>1, <1>2, <1>3, <2>2, TokensAre, NextTokensAre DEF Tokens
  <2> QED BY <1>1, <2>1, <2>3, TokensAre, NextTokensAre, SpentKeeps
<1>5. CASE e.id = "connected" /\ heard'[t] = heard[t] /\ Acknowledge(e.arg)
  <2>1. Cardinality(Answers') = Cardinality(Answers) + (IF e.arg = seqnum THEN 1 ELSE 0)
    BY <1>1, <1>5, AnswerJoined DEF Acknowledge
  <2>2. Cardinality(Answers') + Tokens(t)' <= Cardinality(Answers) + Tokens(t)
    <3> HIDE DEF e
    <3> QED BY <1>1, <1>2, <1>3, <1>5, <2>1, TokensAre, NextTokensAre DEF Tokens
  <2> QED BY <1>1, <2>2, SpentKeeps
<1> QED BY <1>4, <1>5

\* A listener answers what it was working on, and takes nothing.
LEMMA TokenAnswered ==
  ASSUME Typed, Typed', AnswersInv, NEW t \in Listeners, Mine(t),
         Acknowledge(heard[t]), heard'[t] = 0, box'[t] \in {box[t], <<>>}
  PROVE  AnswersInv'
<1>1. seqnum' = seqnum /\ seqnum \in Nat /\ heard[t] \in Nat
  BY DEF Mine, Typed
<1>2. Cardinality(Answers') = Cardinality(Answers) + (IF heard[t] = seqnum THEN 1 ELSE 0)
  BY <1>1, AnswerJoined DEF Acknowledge
<1>3. Copies(t)' <= Copies(t)
  <2>1. CASE box'[t] = <<>>
    <3>1. Places(box'[t], Call') = {}
      BY <2>1 DEF Places
    <3>2. Copies(t)' = 0
      BY <3>1, FS_EmptySet DEF Copies
    <3> QED BY <3>2, TokensAre
  <2>2. CASE box'[t] = box[t]
    BY <1>1, <2>2, TokensAre DEF Copies, Call
  <2> QED BY <2>1, <2>2
<1>4. seqnum > 0 => Cardinality(Answers') + Tokens(t)' <= Cardinality(Answers) + Tokens(t)
  BY <1>1, <1>2, <1>3, TokensAre, NextTokensAre DEF Tokens
<1> QED BY <1>4, SpentKeeps

-------------------------------------------------------------------------------
\* The listeners' steps, one after the other.
LEMMA ListenersCounted ==
  ASSUME HandInv, HandInv', AnswersInv, BacklightTake \/ AudioTake \/ UiTake
  PROVE  AnswersInv'
<1>1. Typed' /\ heard \in [Listeners -> Nat]
  BY DEF HandInv, Typed
<1>2. CASE BacklightTake
  <2>1. "backlight" \in Listeners /\ Takes("backlight")
        /\ UNCHANGED <<usbvars, heard, audio, uivars>>
    BY <1>2 DEF BacklightTake, Listeners
  <2>2. Mine("backlight")
    BY <2>1, TakeFacts DEF usbvars, uivars, Mine, Away
  <2> QED BY <1>1, <1>2, <2>1, <2>2, TokenTaken DEF BacklightTake
<1>3. CASE AudioTake
  <2> DEFINE e == Head(box["audio"])
  <2>1. "audio" \in Listeners /\ Takes("audio") /\ UNCHANGED <<usbvars, uivars>>
    BY <1>3 DEF AudioTake, Listeners
  <2>2. \/ e.id = "connected" /\ Acknowledge(e.arg) /\ heard' = heard
        \/ /\ e.id = "connected" /\ usbQueue' = usbQueue
           /\ heard' = [heard EXCEPT !["audio"] = e.arg]
        \/ usbQueue' = usbQueue /\ heard' = heard
    BY <1>3 DEF AudioTake
  <2>3. heard'["audio"] \in {heard["audio"], e.arg}
        /\ \A u \in Listeners \ {"audio"} : heard'[u] = heard[u]
    BY <1>1, <2>1, <2>2
  <2>4. Mine("audio")
    BY <2>1, <2>3, TakeFacts DEF usbvars, uivars, Mine, Away
  <2> QED BY <1>1, <2>1, <2>2, <2>4, TokenTaken
<1>4. CASE UiTake
  <2> DEFINE e == Head(box["ui"])
  <2>1. "ui" \in Listeners /\ Takes("ui") /\ UNCHANGED <<usbvars, usbQueue, audio>>
    BY <1>4 DEF UiTake, Listeners
  <2>2. \/ e.id = "connected" /\ heard' = [heard EXCEPT !["ui"] = e.arg]
        \/ heard' = heard
    BY <1>4 DEF UiTake, UiConnected, UiDisconnected
  <2>3. heard'["ui"] \in {heard["ui"], e.arg}
        /\ \A u \in Listeners \ {"ui"} : heard'[u] = heard[u]
    BY <1>1, <2>1, <2>2
  <2>4. Mine("ui")
    BY <2>1, <2>3, TakeFacts DEF usbvars, Mine, Away
  <2> QED BY <1>1, <2>1, <2>2, <2>4, TokenTaken
<1> QED BY <1>2, <1>3, <1>4

LEMMA AnswersCount ==
  ASSUME HandInv, HandInv', AnswersInv, AudioStopped \/ UiSaved
  PROVE  AnswersInv'
<1>1. Typed /\ Typed' /\ heard \in [Listeners -> Nat] /\ box \in [Listeners -> Seq(Messages)]
      /\ "audio" \in Listeners /\ "ui" \in Listeners
  BY DEF HandInv, Typed, Listeners
<1>2. CASE AudioStopped
  <2>1. /\ heard'["audio"] = 0 /\ box'["audio"] = <<>>
        /\ \A u \in Listeners \ {"audio"} : box'[u] = box[u] /\ heard'[u] = heard[u]
        /\ Acknowledge(heard["audio"])
    BY <1>1, <1>2 DEF AudioStopped, AudioCleared
  <2>2. Mine("audio")
    BY <1>2, <2>1 DEF AudioStopped, usbvars, uivars, Mine, Away
  <2> QED BY <1>1, <2>1, <2>2, TokenAnswered
<1>3. CASE UiSaved
  <2>1. /\ heard'["ui"] = 0 /\ box' = box
        /\ \A u \in Listeners \ {"ui"} : heard'[u] = heard[u]
        /\ Acknowledge(heard["ui"])
    BY <1>1, <1>3 DEF UiSaved
  <2>2. Mine("ui")
    BY <1>3, <2>1 DEF UiSaved, usbvars, Mine, Away
  <2> QED BY <1>1, <2>1, <2>2, TokenAnswered
<1> QED BY <1>2, <1>3

\* What the interface held back for the end of the video is in its queue again,
\* and everything else is gone from it.
LEMMA VideoCounted ==
  ASSUME HandInv, HandInv', AnswersInv, VideoClosed
  PROVE  AnswersInv'
<1> DEFINE n == heard["ui"]
<1>1. Typed /\ Typed' /\ heard \in [Listeners -> Nat] /\ box \in [Listeners -> Seq(Messages)]
      /\ "ui" \in Listeners /\ seqnum' = seqnum /\ seqnum \in Nat
  BY DEF HandInv, Typed, Listeners, VideoClosed, usbvars
<1>2. /\ heard'["ui"] = 0
      /\ box'["ui"] = IF n = 0 THEN <<>> ELSE <<Event("connected", n)>>
      /\ \A u \in Listeners \ {"ui"} : box'[u] = box[u] /\ heard'[u] = heard[u]
  BY <1>1 DEF VideoClosed
<1>3. Mine("ui")
  BY <1>2 DEF VideoClosed, usbvars, Mine, Away
<1>4. Call' = Call
  BY <1>1 DEF Call
<1>5. Places(box'["ui"], Call) \subseteq {1}
      /\ (seqnum > 0 /\ n # seqnum => Places(box'["ui"], Call) = {})
  BY <1>1, <1>2 DEF Places, Call, Event
<1>6. Copies("ui")' <= 1 /\ (seqnum > 0 /\ n # seqnum => Copies("ui")' = 0)
  <2>1. Copies("ui")' = Cardinality(Places(box'["ui"], Call))
    BY <1>4 DEF Copies
  <2>2. IsFiniteSet({1}) /\ Cardinality({1}) = 1 /\ Cardinality({}) = 0
    BY FS_Singleton, FS_EmptySet
  <2>3. Cardinality(Places(box'["ui"], Call)) <= 1
    BY <1>5, <2>2, FS_Subset
  <2> QED BY <1>5, <2>1, <2>2, <2>3
<1>7. seqnum > 0 => Tokens("ui")' <= Tokens("ui")
  BY <1>1, <1>2, <1>6, TokensAre, NextTokensAre DEF Tokens
<1>8. Answers' = Answers
  BY <1>1 DEF Answers, VideoClosed
<1> QED BY <1>1, <1>3, <1>7, <1>8, TokensAre, NextTokensAre, SpentKeeps

\* The audio thread's queue is cleared, or is given a stop, without an answer.
LEMMA StopsCounted ==
  ASSUME HandInv, HandInv', AnswersInv, AudioHalted \/ VideoStart
  PROVE  AnswersInv'
<1>1. Typed /\ Typed' /\ "audio" \in Listeners /\ box \in [Listeners -> Seq(Messages)]
  BY DEF HandInv, Typed, Listeners
<1>2. UNCHANGED <<seqnum, usbQueue, heard>>
  BY DEF AudioHalted, VideoStart, usbvars
<1>3. Answers' = Answers /\ Call' = Call
  BY <1>2 DEF Answers, Call
<1>4. CASE AudioHalted
  <2>1. /\ box'["audio"] = <<>>
        /\ \A u \in Listeners \ {"audio"} : box'[u] = box[u]
    BY <1>1, <1>4 DEF AudioHalted, AudioCleared
  <2>2. Mine("audio")
    BY <1>2, <1>4, <2>1 DEF AudioHalted, usbvars, uivars, Mine, Away
  <2>3. Places(box'["audio"], Call') = {}
    BY <2>1 DEF Places
  <2>4. Copies("audio")' = 0
    BY <2>3, FS_EmptySet DEF Copies
  <2>5. Tokens("audio")' <= Tokens("audio")
    BY <1>1, <1>2, <2>4, TokensAre, NextTokensAre DEF Tokens
  <2> QED BY <1>1, <1>3, <2>2, <2>5, TokensAre, NextTokensAre, SpentKeeps
<1>5. CASE VideoStart
  <2>1. Cardinality(Places(Append(box["audio"], Stop), Call))
          = Cardinality(Places(box["audio"], Call)) + 0
    <3>1. Stop \in Messages /\ box["audio"] \in Seq(Messages) /\ Stop # Call
      BY <1>5, StopIs
    <3> QED BY <3>1, PlacesJoined
  <2>2. Copies("audio")' = Copies("audio")
    <3>1. Copies("audio")' = Cardinality(Places(Append(box["audio"], Stop), Call))
      BY <1>3, <1>5, StopIs DEF Copies
    <3>2. Copies("audio") = Cardinality(Places(box["audio"], Call)) /\ Copies("audio") \in Nat
      BY <1>1, TokensAre DEF Copies
    <3> QED BY <2>1, <3>1, <3>2
  <2>3. Tokens("audio")' = Tokens("audio")
    BY <1>2, <2>2 DEF Tokens
  <2> QED BY <1>1, <1>3, <1>5, <2>3, StopIs, TokensAre, NextTokensAre, SpentKeeps
<1> QED BY <1>4, <1>5

\* A step after which nobody can answer who could not before.
LEMMA NobodyCalled ==
  ASSUME Typed, Typed', AnswersInv, seqnum' = seqnum, heard' = heard,
         \A t \in Listeners : Copies(t)' = Copies(t),
         expect' - Cardinality(Answers') >= expect - Cardinality(Answers)
  PROVE  AnswersInv'
<1>1. \A t \in Listeners : Tokens(t)' = Tokens(t)
  BY DEF Tokens
<1>2. expect \in Nat /\ expect' \in Nat /\ seqnum \in Nat
  BY DEF Typed
<1>3. {"audio", "ui", "backlight"} \subseteq Listeners
  BY DEF Listeners
<1> HIDE DEF Answers, Tokens, Typed
<1> QED BY <1>1, <1>2, <1>3, TokensAre, NextTokensAre DEF AnswersInv

\* What is broadcast to the queues b, or told to the interface alone.
LEMMA BroadcastCopies ==
  ASSUME NEW b \in Boxes, NEW e \in Messages, NEW c, NEW t \in Listeners
  PROVE  Cardinality(Places(Broadcast(e, b)[t], c))
           = Cardinality(Places(b[t], c)) + (IF e = c THEN 1 ELSE 0)
<1>1. b[t] \in Seq(Messages) /\ Broadcast(e, b)[t] = Append(b[t], e)
  BY BroadcastIs DEF Boxes
<1> QED BY <1>1, PlacesJoined

LEMMA ToldCopies ==
  ASSUME NEW b \in Boxes, NEW n, NEW t \in Listeners
  PROVE  Cardinality(Places(TellExtracted(b)[t], Event("connected", n)))
           = Cardinality(Places(b[t], Event("connected", n)))
<1>1. b["ui"] \in Seq(Messages) /\ Event("extracted", 0) \in Messages
      /\ Event("extracted", 0) # Event("connected", n)
  BY DEF Boxes, Messages, Event, Listeners
<1>2. TellExtracted(b)[t] = IF t = "ui" THEN Append(b["ui"], Event("extracted", 0)) ELSE b[t]
  BY DEF TellExtracted, Boxes
<1> QED BY <1>1, <1>2, PlacesJoined, PlacesFinite

LEMMA FreedCopies ==
  ASSUME HandInv, NEW n, NEW t \in Listeners
  PROVE  Cardinality(Places(Freed[t], Event("connected", n)))
           = Cardinality(Places(box[t], Event("connected", n)))
<1>1. box \in Boxes /\ Event("disconnected", 0) \in Messages
      /\ Event("disconnected", 0) # Event("connected", n)
  BY DEF HandInv, Typed, Boxes, Messages, Event
<1>2. Cardinality(Places(box[t], Event("connected", n))) \in Nat
  BY <1>1, PlacesFinite DEF Boxes
<1> QED BY <1>1, <1>2, BroadcastCopies DEF Freed

\* A new number: no answer to it is on its way, and every listener has it once.
LEMMA RequestCounted ==
  ASSUME HandInv, HandInv', UsbTakes, Request(Freed)
  PROVE  AnswersInv'
<1> DEFINE n == seqnum + 1
           e == Event("connected", n)
<1>1. seqnum \in Nat /\ seqnum' = n /\ e \in Messages /\ Call' = e
      /\ Freed \in Boxes /\ box' = Broadcast(e, Freed) /\ heard' = heard
      /\ expect' = 3 /\ Typed'
  BY FreedIs, ThreeListeners
     DEF HandInv, Typed, Request, Event, Messages, Call, UsbTakes
<1>2. ASSUME NEW t \in Listeners PROVE Tokens(t)' = 1
  <2>1. /\ box[t] \in Seq(Messages)
        /\ \A i \in DOMAIN box[t] : box[t][i].arg <= seqnum
        /\ heard[t] \in Nat /\ heard[t] <= seqnum
    BY DEF HandInv, Typed, NumbersPast
  <2>2. Places(box[t], e) = {}
    BY <1>1, <2>1 DEF Places, Event
  <2>3. Cardinality(Places(Freed[t], e)) = 0
    BY <2>2, FreedCopies, FS_EmptySet
  <2>4. Copies(t)' = 1
    BY <1>1, <2>3, BroadcastCopies DEF Copies
  <2>5. heard'[t] # seqnum'
    BY <1>1, <2>1
  <2> QED BY <2>4, <2>5 DEF Tokens
<1>3. Answers' = {}
  <2>1. \A i \in DOMAIN usbQueue' : usbQueue'[i] # Event("ack", n)
    BY <1>1, UsbTakeFacts DEF Event
  <2> QED BY <1>1, <2>1 DEF Answers, Places
<1>4. Cardinality(Answers') = 0
  BY <1>3, FS_EmptySet
<1>5. {"audio", "ui", "backlight"} \subseteq Listeners
  BY DEF Listeners
<1> HIDE DEF Answers, Tokens, e, n
<1> QED BY <1>1, <1>2, <1>4, <1>5 DEF AnswersInv

LEMMA UsbTakeCounted ==
  ASSUME HandInv, HandInv', AnswersInv, UsbTake PROVE AnswersInv'
<1> DEFINE e == Head(usbQueue)
<1>1. UsbTakes /\ heard' = heard /\ Typed /\ Typed' /\ box \in Boxes /\ Freed \in Boxes
  BY FreedIs DEF UsbTake, UsbTakes, HandInv, Typed, Boxes
<1>2. \/ Request(Freed)
      \/ e.id = "ack" /\ Acknowledged(e.arg)
      \/ /\ seqnum' = seqnum /\ expect' = expect
         /\ box' \in {box, Freed, TellExtracted(Freed)}
  BY DEF UsbTake, SetConfig, Demand, Waive, Insert, Extract, usbvars
<1>3. seqnum' = seqnum =>
        Cardinality(Answers)
          = Cardinality(Answers') + (IF e = Event("ack", seqnum) THEN 1 ELSE 0)
  BY <1>1, UsbTakeFacts DEF Answers
<1>4. CASE e.id = "ack" /\ Acknowledged(e.arg)
  <2>1. seqnum' = seqnum /\ box' = box /\ (expect' = expect \/ e.arg = seqnum)
        /\ (expect' = expect \/ expect' = expect - 1) /\ (expect = 0 => expect' = 0)
        /\ (e.arg = seqnum /\ expect # 0 => expect' = expect - 1)
    BY <1>4, <1>1 DEF Acknowledged, Typed
  <2>2. \A t \in Listeners : Copies(t)' = Copies(t)
    BY <2>1 DEF Copies, Call
  <2>3. e = Event("ack", seqnum) <=> e.arg = seqnum
    BY <1>1, <1>4, UsbTakeFacts DEF Notices, Event
  <2>4. expect' - Cardinality(Answers') >= expect - Cardinality(Answers)
    BY <1>1, <1>3, <2>1, <2>3, TokensAre, NextTokensAre DEF Typed
  <2> QED BY <1>1, <2>1, <2>2, <2>4, NobodyCalled
<1>5. CASE /\ seqnum' = seqnum /\ expect' = expect
           /\ box' \in {box, Freed, TellExtracted(Freed)}
  <2>1. ASSUME NEW t \in Listeners PROVE Copies(t)' = Copies(t)
    <3>1. Call' = Call /\ Call = Event("connected", seqnum)
      BY <1>5 DEF Call
    <3>2. Cardinality(Places(box'[t], Call)) = Cardinality(Places(box[t], Call))
      BY <1>1, <1>5, <3>1, FreedCopies, ToldCopies
    <3> QED BY <3>1, <3>2 DEF Copies
  <2>2. expect' - Cardinality(Answers') >= expect - Cardinality(Answers)
    BY <1>1, <1>3, <1>5, TokensAre, NextTokensAre DEF Typed
  <2> QED BY <1>1, <1>5, <2>1, <2>2, NobodyCalled
<1> QED BY <1>1, <1>2, <1>4, <1>5, RequestCounted

LEMMA RemountedCounted ==
  ASSUME HandInv, HandInv', AnswersInv, Remounted PROVE AnswersInv'
<1> DEFINE e == Event("disconnected", 0)
           back == Broadcast(e, box)
<1>1. /\ Typed /\ Typed' /\ box \in Boxes /\ e \in Messages
      /\ UNCHANGED <<usbQueue, seqnum, expect, heard>>
  BY DEF HandInv, Typed, Boxes, Messages, Event, Remounted
<1>2. back \in Boxes /\ box' \in {back, TellExtracted(back)}
  BY <1>1, BroadcastIs DEF Remounted
<1>3. ASSUME NEW t \in Listeners PROVE Copies(t)' = Copies(t)
  <2>1. Call' = Call /\ Call = Event("connected", seqnum) /\ e # Call
    BY <1>1 DEF Call, Event
  <2>2. Cardinality(Places(box[t], Call)) \in Nat
    BY <1>1, PlacesFinite DEF Boxes
  <2>3. Cardinality(Places(back[t], Call)) = Cardinality(Places(box[t], Call))
    <3>1. Cardinality(Places(back[t], Call))
            = Cardinality(Places(box[t], Call)) + (IF e = Call THEN 1 ELSE 0)
      BY <1>1, BroadcastCopies
    <3> QED BY <2>1, <2>2, <3>1
  <2>4. Cardinality(Places(box'[t], Call)) = Cardinality(Places(box[t], Call))
    BY <1>2, <2>1, <2>3, ToldCopies
  <2> QED BY <2>1, <2>4 DEF Copies
<1>4. expect' - Cardinality(Answers') >= expect - Cardinality(Answers)
  BY <1>1, TokensAre DEF Answers, Typed
<1> QED BY <1>1, <1>3, <1>4, NobodyCalled

\* The cable and the host do not answer, and the rest write nothing.
LEMMA ElseCounted ==
  ASSUME HandInv, HandInv', AnswersInv,
         UNCHANGED <<seqnum, expect, box, heard>>,
         usbQueue' = usbQueue
           \/ \E e \in Notices : usbQueue' = Append(usbQueue, e) /\ e.id # "ack"
  PROVE  AnswersInv'
<1>1. Typed /\ Typed' /\ \A t \in Listeners : Copies(t)' = Copies(t)
  BY DEF HandInv, Copies, Call
<1>2. Cardinality(Answers') = Cardinality(Answers)
  <2>1. Answers' = Places(usbQueue', Event("ack", seqnum))
    BY DEF Answers
  <2>2. \A e \in Notices : e.id # "ack" => e # Event("ack", seqnum)
    BY DEF Event
  <2>3. usbQueue \in Seq(Notices) /\ Cardinality(Answers) \in Nat
    BY <1>1, TokensAre DEF Typed
  <2>4. \A e \in Notices : e.id # "ack" =>
          Cardinality(Places(Append(usbQueue, e), Event("ack", seqnum)))
            = Cardinality(Places(usbQueue, Event("ack", seqnum))) + 0
    BY <2>2, <2>3, PlacesJoined
  <2>5. \A e \in Notices : e.id # "ack" =>
          Cardinality(Places(Append(usbQueue, e), Event("ack", seqnum))) = Cardinality(Answers)
    BY <2>3, <2>4 DEF Answers
  <2> QED BY <2>1, <2>5 DEF Answers
<1>3. expect' - Cardinality(Answers') >= expect - Cardinality(Answers)
  BY <1>1, <1>2, TokensAre DEF Typed
<1> QED BY <1>1, <1>3, NobodyCalled

LEMMA AnswersStep ==
  ASSUME HandInv, HandInv', AnswersInv, [Next]_vars PROVE AnswersInv'
<1>1. CASE Environment
  <2>1. /\ UNCHANGED <<seqnum, expect, box, heard>>
        /\ \E e \in Notices : usbQueue' = Append(usbQueue, e) /\ e.id # "ack"
    BY <1>1 DEF Environment, PlugIn, PullOut, HostConfig, Event, Notices, usbvars
  <2> QED BY <2>1, ElseCounted
<1>2. CASE \/ Unmounted \/ Charge \/ AnswerData
           \/ AudioPlay \/ AudioEnds \/ VideoOpened \/ VideoEnds
           \/ WorkerStarts \/ WorkerDone \/ UNCHANGED vars
  <2>1. UNCHANGED <<seqnum, expect, box, heard, usbQueue>>
    BY <1>2 DEF Unmounted, Charge, AnswerData, Connect, AudioPlay, AudioEnds,
                VideoOpened, VideoEnds, WorkerStarts, WorkerDone, vars, usbvars
  <2> QED BY <2>1, ElseCounted
<1> QED BY <1>1, <1>2, ListenersCounted, AnswersCount, VideoCounted, StopsCounted,
           UsbTakeCounted, RemountedCounted DEF Next, UsbThread, Audio, Ui

\* The acknowledgements that are expected cover every one that can still come,
\* twice where one listener can still give two.
THEOREM AnswersKept == Spec => []AnswersInv
<1>1. Init => AnswersInv
  BY DEF Init, AnswersInv
<1> QED BY <1>1, HandKept, AnswersStep, PTL DEF Spec

\* The acknowledgements that are still expected are never fewer than those that
\* can come: the USB thread does not take the disk from a thread whose answer to
\* this broadcast it has not had.
THEOREM Undercounted == Spec => []NeverUndercounted
<1> DEFINE working == {t \in Listeners : heard[t] = seqnum}
           called == {t \in Listeners : Matching(box[t], "connected") > 0}
           one(S, t) == IF t \in S THEN 1 ELSE 0
<1>1. ASSUME NEW S \in SUBSET Listeners
      PROVE  Cardinality(S) = one(S, "audio") + one(S, "ui") + one(S, "backlight")
  <2> DEFINE only(t) == IF t \in S THEN {t} ELSE {}
  <2>1. S = (only("audio") \cup only("ui")) \cup only("backlight")
    BY DEF Listeners
  <2>2. IsFiniteSet({}) /\ Cardinality({}) = 0
    BY FS_EmptySet
  <2>3. IsFiniteSet(only("audio")) /\ Cardinality(only("audio")) = one(S, "audio")
    BY <2>2, FS_Singleton
  <2>4. /\ IsFiniteSet(only("audio") \cup only("ui"))
        /\ Cardinality(only("audio") \cup only("ui")) = one(S, "audio") + one(S, "ui")
    <3>1. CASE "ui" \in S
      <4>1. only("audio") \cup only("ui") = only("audio") \cup {"ui"}
            /\ "ui" \notin only("audio")
        BY <3>1
      <4> QED BY <2>3, <3>1, <4>1, FS_AddElement
    <3>2. CASE "ui" \notin S
      <4>1. only("audio") \cup only("ui") = only("audio")
        BY <3>2
      <4> QED BY <2>3, <3>2, <4>1
    <3> QED BY <3>1, <3>2
  <2>5. CASE "backlight" \in S
    <3>1. S = (only("audio") \cup only("ui")) \cup {"backlight"}
          /\ "backlight" \notin only("audio") \cup only("ui")
      BY <2>1, <2>5
    <3>2. Cardinality(S) = one(S, "audio") + one(S, "ui") + 1
      <4> HIDE DEF only, one
      <4> QED BY <2>4, <3>1, FS_AddElement
    <3> QED BY <2>5, <3>2
  <2>6. CASE "backlight" \notin S
    <3>1. S = only("audio") \cup only("ui")
      BY <2>1, <2>6
    <3> QED BY <2>4, <2>6, <3>1
  <2> QED BY <2>5, <2>6
<1>2. ASSUME HandInv, AnswersInv, seqnum > 0
      PROVE  expect >= Matching(usbQueue, "ack") + Cardinality(working) + Cardinality(called)
  <2>1. Typed /\ seqnum \in Nat /\ expect \in Nat
    BY <1>2 DEF HandInv, Typed
  <2>2. Matching(usbQueue, "ack") = Cardinality(Answers)
        /\ \A t \in Listeners : Matching(box[t], "connected") = Copies(t)
    BY DEF Matching, Answers, Places, Copies, Call
  <2>3. \A t \in Listeners : one(working, t) + one(called, t) <= Tokens(t)
    BY <2>1, <2>2, TokensAre DEF Tokens
  <2>4. Cardinality(working) = one(working, "audio") + one(working, "ui") + one(working, "backlight")
    BY <1>1
  <2>5. Cardinality(called) = one(called, "audio") + one(called, "ui") + one(called, "backlight")
    BY <1>1
  <2>6. \A t : one(working, t) \in Nat /\ one(called, t) \in Nat
    OBVIOUS
  <2>7. {"audio", "ui", "backlight"} \subseteq Listeners
    BY DEF Listeners
  <2>8. expect >= Cardinality(Answers) + Tokens("audio") + Tokens("ui") + Tokens("backlight")
    BY <1>2 DEF AnswersInv
  <2> HIDE DEF working, called, one, Answers, Tokens
  <2> QED BY <2>1, <2>2, <2>3, <2>4, <2>5, <2>6, <2>7, <2>8, TokensAre
<1>3. HandInv /\ AnswersInv => NeverUndercounted
  BY <1>2 DEF NeverUndercounted
<1> QED BY <1>3, HandKept, AnswersKept, PTL

-------------------------------------------------------------------------------
\* Numbers have a bound after all: a broadcast takes a configuration from the
\* queue, and the host sets no more than MaxConfigs.
Config(arg) == Event("config", arg)
Settings == Cardinality(Places(usbQueue, Config(0))) + Cardinality(Places(usbQueue, Config(1)))

LEMMA SettingsAre ==
  ASSUME Typed
  PROVE  /\ Settings \in Nat /\ usbQueue \in Seq(Notices)
         /\ \A e \in Notices :
              usbQueue' = Append(usbQueue, e) =>
                Settings' = Settings + (IF e \in {Config(0), Config(1)} THEN 1 ELSE 0)
         /\ usbQueue # <<>> /\ usbQueue' = Tail(usbQueue) =>
              Settings = Settings' + (IF Head(usbQueue) \in {Config(0), Config(1)} THEN 1 ELSE 0)
         /\ usbQueue # <<>> /\ usbQueue' = Tail(usbQueue) => Settings' \in Nat
<1> DEFINE P(q, n) == Cardinality(Places(q, Config(n)))
<1>1. usbQueue \in Seq(Notices) /\ Config(0) # Config(1)
  BY DEF Typed, Config, Event
<1>2. \A q \in Seq(Notices), n \in {0, 1} : P(q, n) \in Nat
  BY PlacesFinite
<1>3. \A e \in Notices, n \in {0, 1} :
        P(Append(usbQueue, e), n) = P(usbQueue, n) + (IF e = Config(n) THEN 1 ELSE 0)
  BY <1>1, PlacesJoined
<1>4. usbQueue # <<>> => \A n \in {0, 1} :
        P(usbQueue, n) = P(Tail(usbQueue), n) + (IF Head(usbQueue) = Config(n) THEN 1 ELSE 0)
  BY <1>1, PlacesTaken
<1>5. usbQueue # <<>> => Tail(usbQueue) \in Seq(Notices)
  BY <1>1, Taken
<1>6. Settings = P(usbQueue, 0) + P(usbQueue, 1) /\ Settings' = P(usbQueue', 0) + P(usbQueue', 1)
  BY DEF Settings, Config
<1> HIDE DEF P
<1>7. Settings \in Nat
  BY <1>1, <1>2, <1>6
<1>8. ASSUME NEW e \in Notices, usbQueue' = Append(usbQueue, e)
      PROVE  Settings' = Settings + (IF e \in {Config(0), Config(1)} THEN 1 ELSE 0)
  BY <1>1, <1>2, <1>3, <1>6, <1>8
<1>9. ASSUME usbQueue # <<>>, usbQueue' = Tail(usbQueue)
      PROVE  /\ Settings = Settings' + (IF Head(usbQueue) \in {Config(0), Config(1)} THEN 1 ELSE 0)
             /\ Settings' \in Nat
  <2>1. /\ P(usbQueue, 0) = P(usbQueue', 0) + (IF Head(usbQueue) = Config(0) THEN 1 ELSE 0)
        /\ P(usbQueue, 1) = P(usbQueue', 1) + (IF Head(usbQueue) = Config(1) THEN 1 ELSE 0)
    BY <1>4, <1>9
  <2>2. P(usbQueue', 0) \in Nat /\ P(usbQueue', 1) \in Nat
    BY <1>2, <1>5, <1>9
  <2> QED BY <1>1, <1>6, <2>1, <2>2
<1> QED BY <1>1, <1>7, <1>8, <1>9

\* The words and flags of every step.
Words ==
  /\ plugs \in [in : BOOLEAN, times : 0..MaxPlugs]
  /\ inserted \in BOOLEAN /\ data \in BOOLEAN /\ blocker \in BOOLEAN
  /\ suspended \in BOOLEAN /\ cleared \in BOOLEAN
  /\ audio \in {"idle", "playing", "stopping", "halting", "out"}
  /\ ui \in {"free", "opening", "video", "closing", "saving", "out"}
  /\ worker \in {"waiting", "busy"}

LEMMA WordsStep ==
  ASSUME Words, [Next]_vars PROVE Words'
<1>1. CASE Environment
  <2>1. UNCHANGED <<inserted, data, blocker, suspended, cleared, audio, ui, worker>>
    BY <1>1 DEF Environment, PlugIn, PullOut, HostConfig, usbvars, uivars
  <2>2. \/ plugs.times < MaxPlugs /\ plugs' = [in |-> TRUE, times |-> plugs.times + 1]
        \/ plugs' = [plugs EXCEPT !.in = FALSE]
        \/ plugs' = plugs
    BY <1>1 DEF Environment, PlugIn, PullOut, HostConfig
  <2>3. plugs' \in [in : BOOLEAN, times : 0..MaxPlugs]
    <3>1. plugs \in [in : BOOLEAN, times : 0..MaxPlugs] /\ plugs.times \in 0..MaxPlugs
      BY DEF Words
    <3>2. plugs.times < MaxPlugs => plugs.times + 1 \in 0..MaxPlugs
      BY <3>1, UsbBounds
    <3>3. CASE plugs.times < MaxPlugs /\ plugs' = [in |-> TRUE, times |-> plugs.times + 1]
      BY <3>2, <3>3
    <3>4. CASE plugs' = [plugs EXCEPT !.in = FALSE]
      BY <3>1, <3>4
    <3> QED BY <2>2, <3>1, <3>3, <3>4
  <2> QED BY <2>1, <2>3 DEF Words
<1>2. CASE UsbTake
  <2>1. data' = data /\ inserted' \in {inserted, FALSE}
    BY <1>2 DEF UsbTake, SetConfig, Demand, Waive, Insert, Extract, Acknowledged, usbvars
  <2> QED BY <1>2, <2>1 DEF Words, UsbTake, hostvars, uivars
<1>3. CASE Unmounted \/ Remounted \/ Charge \/ AnswerData
  BY <1>3 DEF Words, Unmounted, Remounted, Charge, AnswerData, Connect, hostvars, uivars
<1>4. CASE Audio
  <2>1. CASE AudioTake
    BY <2>1 DEF Words, AudioTake, hostvars, usbvars, uivars
  <2>2. CASE AudioStopped \/ AudioHalted
    BY <2>2 DEF Words, AudioStopped, AudioHalted, AudioCleared, HoldsBroadcast,
                hostvars, usbvars, uivars
  <2>3. CASE AudioPlay \/ AudioEnds
    BY <2>3 DEF Words, AudioPlay, AudioEnds, hostvars, usbvars, uivars
  <2> QED BY <1>4, <2>1, <2>2, <2>3 DEF Audio
<1>5. CASE UiTake
  BY <1>5 DEF Words, UiTake, UiConnected, UiDisconnected, hostvars, usbvars
<1>6. CASE UiSaved \/ VideoClosed \/ VideoStart \/ VideoOpened \/ VideoEnds
  BY <1>6 DEF Words, UiSaved, VideoClosed, VideoStart, VideoOpened, VideoEnds, HoldsBroadcast,
              hostvars, usbvars
<1>7. CASE BacklightTake \/ WorkerStarts \/ WorkerDone \/ UNCHANGED vars
  BY <1>7 DEF Words, BacklightTake, WorkerStarts, WorkerDone, vars, hostvars, usbvars, uivars
<1> QED BY <1>1, <1>2, <1>3, <1>4, <1>5, <1>6, <1>7 DEF Next, UsbThread, Ui

Counts ==
  /\ configs \in 0..MaxConfigs
  /\ seqnum + Settings <= configs
  /\ expect <= Cardinality(Listeners)
  /\ \A i \in DOMAIN usbQueue : usbQueue[i].id # "ack" => usbQueue[i].arg \in {0, 1}

\* A step that writes to usb_queue at most.
LEMMA WrittenCounts ==
  ASSUME Typed, Counts, UNCHANGED <<seqnum, expect>>,
         \/ UNCHANGED <<usbQueue, configs>>
         \/ \E n \in Nat : usbQueue' = Append(usbQueue, Event("ack", n)) /\ configs' = configs
         \/ \E e \in Notices : /\ usbQueue' = Append(usbQueue, e)
                               /\ e.id # "ack" /\ e.arg \in {0, 1}
                               /\ \/ e.id # "config" /\ configs' = configs
                                  \/ configs < MaxConfigs /\ configs' = configs + 1
  PROVE  Counts'
<1>1. seqnum \in Nat /\ expect \in Nat /\ Settings \in Nat /\ configs \in Nat
  BY SettingsAre DEF Typed, Counts
<1>2. CASE UNCHANGED <<usbQueue, configs>>
  BY <1>2 DEF Counts, Settings
<1>3. ASSUME NEW e \in Notices, usbQueue' = Append(usbQueue, e),
             e.id = "ack" \/ e.arg \in {0, 1},
             \/ e.id # "config" /\ configs' = configs
             \/ configs < MaxConfigs /\ configs' = configs + 1
      PROVE  Counts'
  <2>1. Settings' = Settings + (IF e \in {Config(0), Config(1)} THEN 1 ELSE 0)
    BY <1>3, SettingsAre
  <2>2. e.id # "config" => e \notin {Config(0), Config(1)}
    BY DEF Config, Event
  <2>3. seqnum' + Settings' <= configs'
    BY <1>1, <1>3, <2>1, <2>2 DEF Counts
  <2>4. \A i \in DOMAIN usbQueue' : usbQueue'[i] = e
                                    \/ (i \in DOMAIN usbQueue /\ usbQueue'[i] = usbQueue[i])
    BY <1>3, SettingsAre, Joined
  <2>5. \A i \in DOMAIN usbQueue' : usbQueue'[i].id # "ack" => usbQueue'[i].arg \in {0, 1}
    BY <1>3, <2>4 DEF Counts
  <2>6. configs' \in 0..MaxConfigs /\ expect' <= Cardinality(Listeners)
    BY <1>1, <1>3, UsbBounds DEF Counts
  <2> QED BY <2>3, <2>5, <2>6 DEF Counts
<1>4. \A n \in Nat : Event("ack", n) \in Notices /\ Event("ack", n).id = "ack"
  BY DEF Event, Notices
<1> QED BY <1>2, <1>3, <1>4

\* A broadcast of a request takes the configuration that asks for it.
LEMMA UsbTakeCounts ==
  ASSUME HandInv, Counts, UsbTake PROVE Counts'
<1> DEFINE e == Head(usbQueue)
<1>1. /\ Typed /\ UsbTakes /\ usbQueue # <<>> /\ usbQueue' = Tail(usbQueue)
      /\ configs' = configs /\ seqnum \in Nat /\ expect \in Nat /\ Settings \in Nat
      /\ configs \in Nat
  BY SettingsAre DEF HandInv, Typed, UsbTake, UsbTakes, hostvars, Counts
<1>2. \/ e.id = "config" /\ seqnum' = seqnum + 1 /\ expect' = Cardinality(Listeners)
      \/ seqnum' = seqnum /\ expect' = expect
      \/ seqnum' = seqnum /\ expect # 0 /\ expect' = expect - 1
  BY DEF UsbTake, SetConfig, Demand, Waive, Insert, Extract, Acknowledged, Request, usbvars
<1>3. PICK s \in Nat :
        /\ s = Settings' /\ (Settings = s \/ Settings = s + 1)
        /\ e \in {Config(0), Config(1)} => Settings = s + 1
  BY <1>1, SettingsAre
<1>4. e.id = "config" => e \in {Config(0), Config(1)}
  <2>1. e \in Notices /\ e = usbQueue[1] /\ 1 \in DOMAIN usbQueue
    BY <1>1, Taken DEF Typed
  <2>2. e.id = "config" => e.arg \in {0, 1}
    BY <2>1 DEF Counts
  <2>3. e = [id |-> e.id, arg |-> e.arg]
    BY <2>1 DEF Notices
  <2> HIDE DEF e
  <2>4. e.id = "config" => e = [id |-> "config", arg |-> e.arg]
    BY <2>3
  <2>5. e.id = "config" => e = Config(e.arg)
    BY <2>4 DEF Config, Event
  <2> QED BY <2>2, <2>5
<1>5. /\ Settings = s \/ Settings = s + 1
      /\ e.id = "config" => Settings = s + 1
  <2> HIDE DEF e
  <2> QED BY <1>3, <1>4
<1>6. seqnum' + s <= configs'
  <2>1. seqnum + Settings <= configs
    BY DEF Counts
  <2>2. s \in Nat
    OBVIOUS
  <2> QED BY <1>1, <1>2, <1>5, <2>1, <2>2
<1>7. expect' <= Cardinality(Listeners)
  BY <1>1, <1>2, ThreeListeners DEF Counts
<1>8. \A i \in DOMAIN usbQueue' : \E j \in DOMAIN usbQueue : usbQueue'[i] = usbQueue[j]
  BY <1>1, Taken DEF Typed
<1> QED BY <1>1, <1>3, <1>6, <1>7, <1>8 DEF Counts

LEMMA CountsStep ==
  ASSUME HandInv, Counts, [Next]_vars PROVE Counts'
<1>1. Typed /\ heard \in [Listeners -> Nat] /\ {"audio", "ui", "backlight"} \subseteq Listeners
  BY DEF HandInv, Typed, Listeners
<1>2. CASE Environment
  <2>1. UNCHANGED <<seqnum, expect>>
    BY <1>2 DEF Environment, PlugIn, PullOut, HostConfig, usbvars
  <2>2. \E e \in Notices : /\ usbQueue' = Append(usbQueue, e)
                           /\ e.id # "ack" /\ e.arg \in {0, 1}
                           /\ \/ e.id # "config" /\ configs' = configs
                              \/ configs < MaxConfigs /\ configs' = configs + 1
    BY <1>2 DEF Environment, PlugIn, PullOut, HostConfig, Event, Notices
  <2> QED BY <1>1, <2>1, <2>2, WrittenCounts
<1>3. CASE BacklightTake \/ AudioTake
  <2>1. ASSUME NEW t \in Listeners, Takes(t), seqnum' = seqnum
        PROVE  Head(box[t]).arg \in Nat
    BY <2>1, TakeFacts DEF Messages
  <2>2. UNCHANGED <<seqnum, expect, configs>>
    BY <1>3 DEF BacklightTake, AudioTake, usbvars, hostvars
  <2>3. \E n \in Nat : usbQueue' = usbQueue \/ usbQueue' = Append(usbQueue, Event("ack", n))
    BY <1>1, <1>3, <2>1, <2>2 DEF BacklightTake, AudioTake, Acknowledge
  <2> QED BY <1>1, <2>2, <2>3, WrittenCounts
<1>4. CASE AudioStopped \/ UiSaved
  <2>1. UNCHANGED <<seqnum, expect, configs>>
    BY <1>4 DEF AudioStopped, UiSaved, usbvars, hostvars
  <2>2. \E n \in Nat : usbQueue' = Append(usbQueue, Event("ack", n))
    BY <1>1, <1>4 DEF AudioStopped, UiSaved, Acknowledge
  <2> QED BY <1>1, <2>1, <2>2, WrittenCounts
<1>5. CASE \/ Unmounted \/ Remounted \/ Charge \/ AnswerData \/ AudioPlay \/ AudioEnds
           \/ AudioHalted \/ UiTake \/ VideoClosed \/ VideoStart \/ VideoOpened \/ VideoEnds
           \/ WorkerStarts \/ WorkerDone \/ UNCHANGED vars
  <2>1. UNCHANGED <<seqnum, expect, configs, usbQueue>>
    BY <1>5 DEF Unmounted, Remounted, Charge, AnswerData, Connect, AudioPlay, AudioEnds,
                AudioHalted, UiTake, VideoClosed, VideoStart, VideoOpened, VideoEnds, WorkerStarts, WorkerDone,
                vars, usbvars, hostvars
  <2> QED BY <1>1, <2>1, WrittenCounts
<1> QED BY <1>2, <1>3, <1>4, <1>5, UsbTakeCounts DEF Next, UsbThread, Audio, Ui

\* Every variable keeps its type, and the numbers of broadcasts their bound: the
\* host has set a configuration for each of them.
THEOREM HandTyped == Spec => []TypeOK
<1>1. Init => Words /\ Counts
  <2> SUFFICES ASSUME Init PROVE Words /\ Counts
    OBVIOUS
  <2>1. usbQueue = <<>> /\ seqnum = 0 /\ expect = 0 /\ configs = 0
    BY DEF Init
  <2>2. Places(usbQueue, Config(0)) = {} /\ Places(usbQueue, Config(1)) = {}
    BY <2>1 DEF Places
  <2>3. Settings = 0
    BY <2>2, FS_EmptySet DEF Settings
  <2>4. Counts
    BY <2>1, <2>3, ThreeListeners, UsbBounds DEF Counts
  <2>5. plugs \in [in : BOOLEAN, times : 0..MaxPlugs]
    BY UsbBounds DEF Init
  <2> QED BY <2>4, <2>5 DEF Init, Words
<1>2. ASSUME HandInv, Words, Counts PROVE TypeOK
  <2>1. seqnum \in 0..MaxConfigs /\ expect \in 0..Cardinality(Listeners) /\ seqnum <= MaxConfigs
    BY <1>2, SettingsAre, ThreeListeners, UsbBounds DEF HandInv, Typed, Counts
  <2>2. usbQueue \in Seq([id : {"inserted", "extracted", "config", "ack"},
                          arg : 0..MaxConfigs \cup {1}])
    <3> DEFINE T == [id : {"inserted", "extracted", "config", "ack"},
                     arg : 0..MaxConfigs \cup {1}]
    <3>1. ASSUME NEW i \in DOMAIN usbQueue PROVE usbQueue[i] \in T
      <4>1. usbQueue[i] \in Notices
        BY <1>2, Element DEF HandInv, Typed
      <4>2. usbQueue[i].arg \in 0..MaxConfigs \cup {1}
        <5>1. CASE usbQueue[i].id = "ack"
          BY <1>2, <2>1, <4>1, <5>1, UsbBounds DEF HandInv, NumbersPast, Notices
        <5>2. CASE usbQueue[i].id # "ack"
          BY <1>2, <5>2, UsbBounds DEF Counts
        <5> QED BY <5>1, <5>2
      <4> QED BY <4>1, <4>2 DEF Notices
    <3> HIDE DEF T
    <3>2. usbQueue \in Seq(T)
      BY <1>2, <3>1 DEF HandInv, Typed
    <3> QED BY <3>2 DEF T
  <2>3. box \in [Listeners -> Seq([id : {"connected", "disconnected", "extracted", "stop"},
                                   arg : 0..MaxConfigs])]
    <3> DEFINE T == [id : {"connected", "disconnected", "extracted", "stop"},
                     arg : 0..MaxConfigs]
    <3>1. ASSUME NEW t \in Listeners PROVE box[t] \in Seq(T)
      <4>1. box[t] \in Seq(Messages) /\ \A i \in DOMAIN box[t] : box[t][i].arg <= seqnum
        BY <1>2 DEF HandInv, Typed, NumbersPast
      <4>2. ASSUME NEW i \in DOMAIN box[t] PROVE box[t][i] \in T
        <5>1. box[t][i] \in Messages
          BY <4>1, Element
        <5> QED BY <2>1, <4>1, <5>1, UsbBounds DEF Messages
      <4> HIDE DEF T
      <4> QED BY <4>1, <4>2
    <3> QED BY <1>2, <3>1 DEF HandInv, Typed
  <2>4. heard \in [Listeners -> 0..MaxConfigs]
    <3>1. \A t \in Listeners : heard[t] \in 0..MaxConfigs
      BY <1>2, <2>1, UsbBounds DEF HandInv, Typed, NumbersPast
    <3> QED BY <1>2, <3>1 DEF HandInv, Typed
  <2> QED BY <1>2, <2>1, <2>2, <2>3, <2>4 DEF TypeOK, HandInv, Typed, Words, Counts
<1> QED BY <1>1, <1>2, HandKept, WordsStep, CountsStep, PTL DEF Spec

===============================================================================
