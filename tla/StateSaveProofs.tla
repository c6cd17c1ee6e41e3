--------------------------- MODULE StateSaveProofs ---------------------------
(***************************************************************************)
(* Theorems about StateSave, for any tracks, queues and settings, any      *)
(* number of failing disk operations and power losses, and whatever the    *)
(* other threads change between two operations of a save.                  *)
(***************************************************************************)
EXTENDS StateSave, FiniteSetTheorems, SequenceTheorems, TLAPS

AnyRecord == [queue : Seq(Tracks), index : Nat,
              setting : SettingValues, elapsed : Nat]

Typed ==
  /\ present \subseteq Tracks /\ queue \in Seq(present)
  /\ index \in Nat \ {0} /\ setting \in SettingValues /\ elapsed \in Nat
  /\ gen \in Nat /\ savedGen \in Nat /\ savedGen <= gen
  /\ savedHash \in Seq(Tracks) /\ failures \in Nat
  /\ sinceSave \in Int /\ sinceTry \in Int
  /\ pc \in {"idle", "queue", "state"} /\ cursor \in Nat
  /\ copied \in Seq(Tracks) /\ rec \in AnyRecord
  /\ queueFile \in Seq(Tracks) \cup {Missing}
  /\ stateFile \in AnyRecord \cup {Missing}

InPlace(q, i) == i = 1 \/ i \in DOMAIN q

\* A record is of one moment, or a queue was changed too late for it.
Taken(r, at) ==
  \/ at = {}
  \/ at = {<<r.queue, r.index>>} /\ InPlace(r.queue, r.index)

PositionsKept ==
  /\ InPlace(queue, index)
  /\ stateFile # Missing => Taken(stateFile, fileMoment)

HashKept == gen = savedGen /\ "queue" \notin unmarked => savedHash = queue

\* The save in progress writes what the player is in, but for what changes too late.
CopyKept ==
  pc = "queue" /\ "queue" \notin late =>
    /\ cursor <= Len(queue)
    /\ copied = [k \in 1 .. cursor |-> queue[k]]

RecordKept ==
  pc = "state" =>
    /\ Taken(rec, moment) /\ rec.queue = savedHash
    /\ "setting" \notin late => rec.setting = setting
    /\ "queue" \notin late => gen = savedGen

SaveKept == CopyKept /\ RecordKept

SaveInv == Typed /\ PositionsKept /\ HashKept /\ SaveKept

\* The list a boot finds, if there is a record to look at it for.
DiskQueue == IF queueFile = Missing THEN <<>> ELSE OnDisk(queueFile, present)

\* What is not marked for saving is on the disk, between the operations of a
\* save too.
FilesKept ==
  /\ gen = savedGen /\ "queue" \notin unmarked => DiskQueue = queue
  /\ ~dirty /\ "setting" \notin unmarked => RestoredSetting = setting

-------------------------------------------------------------------------------
(* What OnDisk returns.                                                    *)

\* Counting the places from the left reaches each number up to how many there are.
LEMMA PlaceExists ==
  ASSUME NEW at, IsFiniteSet(at), at \subseteq Nat,
         NEW n \in 1 .. Cardinality(at)
  PROVE  \E k \in at : Cardinality({j \in at : j <= k}) = n
<1> DEFINE Upto(k) == {j \in at : j <= k}
           Rank(k) == Cardinality(Upto(k))
           rank == [k \in at |-> Rank(k)]
           places == 1 .. Cardinality(at)
<1>1. Cardinality(at) \in Nat
  BY FS_CardinalityType
<1>2. ASSUME NEW k \in at
      PROVE  IsFiniteSet(Upto(k)) /\ Rank(k) \in places
  <2>1. Upto(k) \in SUBSET at
    OBVIOUS
  <2>2. IsFiniteSet(Upto(k)) /\ Rank(k) <= Cardinality(at)
    BY <2>1, FS_Subset
  <2>3. k \in Upto(k)
    OBVIOUS
  <2>4. Rank(k) # 0
    BY <2>2, <2>3, FS_EmptySet
  <2>5. Rank(k) \in Nat
    BY <2>2, FS_CardinalityType
  <2> HIDE DEF Rank
  <2> QED BY <1>1, <2>2, <2>4, <2>5
<1>3. ASSUME NEW k \in at, NEW l \in at, k < l
      PROVE  Rank(k) # Rank(l)
  <2>1. \A j \in at : j <= k => j <= l
    BY <1>3
  <2>2. Upto(k) \in SUBSET Upto(l)
    BY <2>1
  <2>3. l \in Upto(l) /\ ~ (l <= k)
    BY <1>3
  <2>4. Upto(k) # Upto(l)
    BY <2>3
  <2> QED BY <1>2, <2>2, <2>4, FS_Subset
<1> HIDE DEF Rank
<1>4. rank \in [at -> places]
  BY <1>2
<1>5. \A k, l \in at : rank[k] = rank[l] => k = l
  BY <1>3
<1> HIDE DEF rank, places
<1>6. rank \in Injection(at, places)
  BY <1>4, <1>5 DEF Injection, IsInjective
<1>7. IsFiniteSet(places) /\ Cardinality(places) = Cardinality(at)
  <2>1. IsFiniteSet(1 .. Cardinality(at))
        /\ Cardinality(1 .. Cardinality(at)) = Cardinality(at)
    BY <1>1, FS_Interval
  <2> QED BY <2>1 DEF places
<1>8. rank \in Surjection(at, places)
  BY <1>6, <1>7, FS_Injection
<1>9. n \in places
  BY DEF places
<1>10. \E k \in at : rank[k] = n
  BY <1>8, <1>9 DEF Surjection
<1> QED BY <1>10 DEF rank, Rank

\* The places of a list.
LEMMA PlacesFinite ==
  ASSUME NEW S, NEW list \in Seq(S), NEW at \in SUBSET DOMAIN list
  PROVE  /\ DOMAIN list = 1 .. Len(list) /\ Len(list) \in Nat
         /\ at \subseteq Nat /\ IsFiniteSet(at) /\ Cardinality(at) \in Nat
<1>1. DOMAIN list = 1 .. Len(list) /\ Len(list) \in Nat
  OBVIOUS
<1>2. IsFiniteSet(1 .. Len(list))
  BY <1>1, FS_Interval
<1>3. IsFiniteSet(at)
  BY <1>1, <1>2, FS_Subset
<1> QED BY <1>1, <1>3, FS_CardinalityType

\* It is a sequence of tracks that are there.
LEMMA OnDiskType ==
  ASSUME NEW S, NEW list \in Seq(S), NEW files
  PROVE  OnDisk(list, files) \in Seq(S \cap files)
<1> DEFINE at == {k \in DOMAIN list : list[k] \in files}
           Place(n) == CHOOSE k \in at : Cardinality({j \in at : j <= k}) = n
           N == Cardinality(at)
<1>1. at \in SUBSET DOMAIN list
  OBVIOUS
<1>2. at \subseteq Nat /\ IsFiniteSet(at) /\ N \in Nat
  BY <1>1, PlacesFinite
<1>3. ASSUME NEW n \in 1 .. N
      PROVE  list[Place(n)] \in S \cap files
  <2>1. \E k \in at : Cardinality({j \in at : j <= k}) = n
    BY <1>2, PlaceExists
  <2>2. Place(n) \in at
    BY <2>1
  <2> HIDE DEF Place
  <2> QED BY <1>1, <2>2
<1>4. OnDisk(list, files) = [n \in 1 .. N |-> list[Place(n)]]
  BY DEF OnDisk
<1> HIDE DEF Place, N
<1> QED BY <1>2, <1>3, <1>4

\* It is the list itself if every track of it is there.
LEMMA OnDiskWhole ==
  ASSUME NEW files, NEW list \in Seq(files)
  PROVE  OnDisk(list, files) = list
<1> DEFINE at == {k \in DOMAIN list : list[k] \in files}
           Place(n) == CHOOSE k \in at : Cardinality({j \in at : j <= k}) = n
<1>1. Len(list) \in Nat /\ DOMAIN list = 1 .. Len(list)
  OBVIOUS
<1>2. at = 1 .. Len(list)
  BY <1>1
<1>3. Cardinality(1 .. Len(list)) = Len(list)
  BY <1>1, FS_Interval
<1>4. ASSUME NEW k \in 1 .. Len(list)
      PROVE  Cardinality({j \in at : j <= k}) = k
  <2>1. {j \in at : j <= k} = 1 .. k
    BY <1>1, <1>2
  <2>2. Cardinality(1 .. k) = k
    BY <1>1, FS_Interval
  <2> QED BY <2>1, <2>2
<1>5. \A n \in 1 .. Len(list) : Place(n) = n
  BY <1>2, <1>4
<1>6. OnDisk(list, files) = [n \in 1 .. Cardinality(at) |-> list[Place(n)]]
  BY DEF OnDisk
<1> HIDE DEF Place
<1>7. OnDisk(list, files) = [n \in 1 .. Len(list) |-> list[n]]
  BY <1>2, <1>3, <1>5, <1>6
<1> QED BY <1>1, <1>7

-------------------------------------------------------------------------------
(* One step.                                                               *)

\* What a boot finds of the queue's file is a sequence of tracks that are there.
LEMMA RestoredType ==
  ASSUME NEW list \in Seq(Tracks), NEW files \in SUBSET Tracks
  PROVE  OnDisk(list, files) \in Seq(files) /\ OnDisk(list, files) \in Seq(Tracks)
<1>1. Tracks \cap files = files
  OBVIOUS
<1>2. OnDisk(list, files) \in Seq(files)
  BY <1>1, OnDiskType
<1>3. \A q \in Seq(files) : q \in Seq(Tracks)
  OBVIOUS
<1> QED BY <1>2, <1>3

\* The first state, with or without files on the disk.
LEMMA SaveInit == Init => SaveInv
<1> SUFFICES ASSUME Init PROVE SaveInv
  OBVIOUS
<1>1. <<>> \in Seq(present) /\ <<>> \in Seq(Tracks)
  OBVIOUS
<1>2. Null \in AnyRecord /\ Null.queue = <<>> /\ Null.index = 1
  BY <1>1, DefaultAssumption DEF Null, AnyRecord
<1>3. Typed
  <2>1. queueFile \in Seq(Tracks) \cup {Missing} /\ stateFile \in AnyRecord \cup {Missing}
    BY <1>1, <1>2 DEF Init
  <2> QED BY <1>1, <1>2, <2>1, DefaultAssumption DEF Init, Typed
<1>4. PositionsKept /\ HashKept /\ SaveKept
  BY <1>2 DEF Init, PositionsKept, InPlace, Taken, HashKept, SaveKept, CopyKept, RecordKept
<1> QED BY <1>3, <1>4 DEF SaveInv

\* Another list, in the middle of a save or not: the mark is the generation, and
\* the save under way is known to have missed it if it has read of the list.
LEMMA NewQueueKeeps ==
  ASSUME SaveInv, NEW q \in Seq(present), NEW i \in Nat \ {0}, InPlace(q, i),
         NEW kinds \in SUBSET Kinds, "queue" \in kinds,
         NewQueue(q, i), Changed(kinds),
         setting' \in SettingValues, setting' = setting \/ "setting" \in kinds
  PROVE  SaveInv'
<1>1. Typed'
  BY DEF NewQueue, timers, save, disk, SaveInv, Typed
<1>2. PositionsKept'
  BY DEF NewQueue, Changed, disk, SaveInv, PositionsKept, Taken, InPlace
<1>3. gen' # savedGen'
  BY DEF NewQueue, SaveInv, Typed
<1>4. pc = "queue" /\ cursor > 0 => "queue" \in late'
  BY DEF Changed, TooLate
<1>5. pc = "state" => {"queue"} \cup (kinds \cap {"setting"}) \subseteq late'
  BY DEF Changed, TooLate, Kinds
<1>6. late \subseteq late' /\ moment' = moment
  BY DEF Changed
<1>7. CopyKept'
  <2> SUFFICES ASSUME pc' = "queue", "queue" \notin late'
               PROVE  cursor' <= Len(queue') /\ copied' = [k \in 1 .. cursor' |-> queue'[k]]
    BY DEF CopyKept
  <2>1. pc = "queue" /\ cursor' = cursor /\ copied' = copied /\ queue' = q
    BY DEF NewQueue, save
  <2>2. cursor = 0 /\ copied = [k \in 1 .. cursor |-> queue[k]]
    BY <1>4, <1>6, <2>1 DEF SaveInv, Typed, SaveKept, CopyKept
  <2>3. copied = [k \in 1 .. cursor |-> q[k]]
    BY <2>2
  <2> QED BY <2>1, <2>2, <2>3
<1>8. RecordKept'
  BY <1>5, <1>6 DEF NewQueue, save, SaveInv, SaveKept, RecordKept, Taken, InPlace
<1>9. HashKept'
  BY <1>3 DEF HashKept
<1> QED BY <1>1, <1>2, <1>7, <1>8, <1>9 DEF SaveInv, SaveKept

\* What is left of a list without one of its entries.
LEMMA RestTyped ==
  ASSUME NEW S, NEW q \in Seq(S), NEW k \in DOMAIN q
  PROVE  RemoveAt(q, k) \in Seq(S)
<1>1. k \in 1 .. Len(q) /\ Len(q) \in Nat
  OBVIOUS
<1>2. SubSeq(q, 1, k - 1) \in Seq(S)
  <2>1. \A j \in 1 .. k - 1 : q[j] \in S
    BY <1>1
  <2>2. 1 \in Int /\ k - 1 \in Int
    BY <1>1
  <2> HIDE DEF RemoveAt
  <2> QED BY <2>1, <2>2, SubSeqProperties
<1>3. SubSeq(q, k + 1, Len(q)) \in Seq(S)
  <2>1. \A j \in k + 1 .. Len(q) : q[j] \in S
    BY <1>1
  <2>2. k + 1 \in Int /\ Len(q) \in Int
    BY <1>1
  <2> QED BY <2>1, <2>2, SubSeqProperties
<1> QED BY <1>2, <1>3, ConcatProperties DEF RemoveAt

\* The player or another thread changes the queue or moves in it, plays on, or
\* time passes.
LEMMA PlayerKeeps ==
  ASSUME SaveInv,
         \/ \E q \in Queues : \E i \in {1} \cup DOMAIN q : ChangeQueue(q, i)
         \/ \E q \in Queues \cup {queue} : \E i \in {1} \cup DOMAIN q : Reorder(q, i)
         \/ \E k \in DOMAIN queue : DropEntry(k)
         \/ \E i \in DOMAIN queue : MoveIndex(i)
         \/ \E v \in SettingValues : ChangeSetting(v)
         \/ Play \/ ForgetResume \/ TakeResume \/ Tick
  PROVE  SaveInv'
<1>1. ASSUME NEW q \in Queues, NEW i \in {1} \cup DOMAIN q, ChangeQueue(q, i)
      PROVE  SaveInv'
  <2>1. q \in Seq(Tracks) /\ (\A k \in DOMAIN q : q[k] \in present)
    BY <1>1, QueueAssumption DEF ChangeQueue
  <2>2. q \in Seq(present) /\ i \in Nat \ {0} /\ InPlace(q, i)
    BY <2>1 DEF InPlace
  <2>3. {"queue"} \in SUBSET Kinds
    BY DEF Kinds
  <2> QED BY <1>1, <2>2, <2>3, NewQueueKeeps DEF ChangeQueue, SaveInv, Typed
<1>2. ASSUME NEW q \in Queues \cup {queue}, NEW i \in {1} \cup DOMAIN q, Reorder(q, i)
      PROVE  SaveInv'
  <2>1. q \in Seq(Tracks) /\ (\A k \in DOMAIN q : q[k] \in present)
    BY <1>2, QueueAssumption DEF Reorder, SaveInv, Typed
  <2>2. q \in Seq(present) /\ i \in Nat \ {0} /\ InPlace(q, i)
    BY <2>1 DEF InPlace
  <2>3. "queue" \in Kinds /\ "setting" \in Kinds /\ Kinds \in SUBSET Kinds
    BY DEF Kinds
  <2> QED BY <1>2, <2>2, <2>3, NewQueueKeeps DEF Reorder
<1>3. ASSUME NEW k \in DOMAIN queue, DropEntry(k)
      PROVE  SaveInv'
  <2> DEFINE rest == RemoveAt(queue, k)
             last == IF rest = <<>> THEN 1 ELSE Len(rest)
             at == IF index > last THEN last ELSE index
  <2>1. queue \in Seq(present) /\ index \in Nat \ {0}
    BY DEF SaveInv, Typed
  <2>2. rest \in Seq(present)
    BY <2>1, RestTyped
  <2>3. NewQueue(rest, at) /\ Changed({"queue"}) /\ setting' = setting /\ dirty' = dirty
    BY <1>3 DEF DropEntry
  <2> HIDE DEF rest
  <2>4. at \in Nat \ {0} /\ InPlace(rest, at)
    BY <2>1, <2>2 DEF InPlace
  <2>5. {"queue"} \in SUBSET Kinds
    BY DEF Kinds
  <2> HIDE DEF at
  <2> QED BY <2>2, <2>3, <2>4, <2>5, NewQueueKeeps DEF SaveInv, Typed
<1>4. ASSUME NEW i \in DOMAIN queue, MoveIndex(i)
      PROVE  SaveInv'
  <2>1. Typed'
    BY <1>4 DEF MoveIndex, saved, timers, save, disk, SaveInv, Typed
  <2>2. PositionsKept' /\ SaveKept' /\ HashKept'
    BY <1>4 DEF MoveIndex, saved, save, disk, ghosts, SaveInv, PositionsKept, InPlace,
                Taken, HashKept, SaveKept, CopyKept, RecordKept
  <2> QED BY <2>1, <2>2 DEF SaveInv
<1>5. ASSUME NEW v \in SettingValues, ChangeSetting(v)
      PROVE  SaveInv'
  <2>1. Typed'
    BY <1>5 DEF ChangeSetting, timers, save, disk, SaveInv, Typed
  <2>2. pc = "state" => "setting" \in late'
    BY <1>5 DEF ChangeSetting, Changed, TooLate, Kinds
  <2>3. late \subseteq late' /\ moment' = moment /\ unmarked' = unmarked
        /\ fileMoment' = fileMoment
    BY <1>5 DEF ChangeSetting, Changed
  <2>4. PositionsKept' /\ SaveKept' /\ HashKept'
    BY <1>5, <2>2, <2>3 DEF ChangeSetting, save, disk, SaveInv, PositionsKept, InPlace,
                Taken, HashKept, SaveKept, CopyKept, RecordKept
  <2> QED BY <2>1, <2>4 DEF SaveInv
<1>6. CASE Play \/ ForgetResume \/ TakeResume \/ Tick
  <2>1. UNCHANGED <<queue, index, gen, setting, savedGen, savedHash,
                    save, disk, ghosts>>
    BY <1>6 DEF Play, ForgetResume, TakeResume, Tick, player, saved
  <2>2. elapsed' \in Nat /\ failures' \in Nat /\ sinceSave' \in Int /\ sinceTry' \in Int
    <3>1. CASE Play \/ ForgetResume \/ TakeResume
      BY <3>1 DEF Play, ForgetResume, TakeResume, player, saved, timers,
                  SaveInv, Typed
    <3>2. CASE Tick
      BY <3>2 DEF Tick, player, saved, SaveInv, Typed
    <3> QED BY <1>6, <3>1, <3>2
  <2>3. Typed'
    BY <2>1, <2>2 DEF save, disk, SaveInv, Typed
  <2>4. PositionsKept' /\ SaveKept' /\ HashKept'
    BY <2>1 DEF save, disk, ghosts, SaveInv, PositionsKept, InPlace, Taken, HashKept,
                SaveKept, CopyKept, RecordKept
  <2> QED BY <2>3, <2>4 DEF SaveInv
<1> QED BY <1>1, <1>2, <1>3, <1>4, <1>5, <1>6

\* The record is filled in with the queue and its position, or is known not to be.
LEMMA FilledIn ==
  ASSUME SaveInv, NEW hash \in Seq(Tracks), NEW time \in Nat, NEW stale \in BOOLEAN,
         FillIn(hash, time, stale), ~stale => hash = queue
  PROVE  /\ pc' = "state" /\ cursor' \in Nat /\ copied' \in Seq(Tracks) /\ rec' \in AnyRecord
         /\ rec'.queue = hash /\ rec'.setting = setting /\ Taken(rec, moment)'
<1>1. rec' = [queue |-> hash, index |-> index, setting |-> setting, elapsed |-> time]
      /\ moment' = (IF stale THEN {} ELSE {<<queue, index>>})
  BY DEF FillIn, ToSave
<1>2. rec' \in AnyRecord
  BY <1>1 DEF AnyRecord, SaveInv, Typed
<1>3. InPlace(queue, index)
  BY DEF SaveInv, PositionsKept
<1> QED BY <1>1, <1>2, <1>3 DEF FillIn, Taken

\* A save is begun, or not needed, or the tick lets it wait.
LEMMA BeginKeeps ==
  ASSUME SaveInv, \/ \E force \in BOOLEAN : SaveNow(force)
                  \/ StateTick
  PROVE  SaveInv'
<1>1. CASE BeginSave
  <2>1. /\ UNCHANGED <<player, saved, disk, late, unmarked, fileMoment>>
        /\ sinceSave' = sinceSave /\ sinceTry' = 0
    BY <1>1 DEF BeginSave
  <2>2. PositionsKept' /\ HashKept'
    BY <2>1 DEF player, saved, disk, SaveInv, PositionsKept, InPlace, Taken, HashKept
  <2>3. CASE gen = savedGen
    <3> DEFINE stale == "queue" \in unmarked
    <3>1. FillIn(savedHash, elapsed, stale)
      BY <1>1, <2>3 DEF BeginSave
    <3>2. savedHash \in Seq(Tracks) /\ elapsed \in Nat /\ stale \in BOOLEAN
      BY DEF SaveInv, Typed
    <3>3. ~stale => savedHash = queue
      BY <2>3 DEF SaveInv, HashKept
    <3>4. /\ pc' = "state" /\ cursor' \in Nat /\ copied' \in Seq(Tracks) /\ rec' \in AnyRecord
          /\ rec'.queue = savedHash /\ rec'.setting = setting /\ Taken(rec, moment)'
      BY <3>1, <3>2, <3>3, FilledIn
    <3>5. Typed'
      BY <2>1, <3>4 DEF player, saved, disk, SaveInv, Typed
    <3>6. SaveKept'
      BY <2>1, <2>3, <3>4 DEF player, saved, SaveKept, CopyKept, RecordKept
    <3> QED BY <2>2, <3>5, <3>6 DEF SaveInv
  <2>4. CASE gen # savedGen
    <3>1. /\ pc' = "queue" /\ cursor' = 0 /\ copied' = <<>> /\ queue' = queue
          /\ rec' = [Null EXCEPT !.elapsed = elapsed]
      BY <1>1, <2>1, <2>4 DEF BeginSave, player
    <3>2. copied' = [k \in 1 .. cursor' |-> queue'[k]]
      BY <3>1
    <3>3. cursor' <= Len(queue')
      BY <3>1 DEF SaveInv, Typed
    <3>4. rec' \in AnyRecord
      <4>1. <<>> \in Seq(Tracks)
        OBVIOUS
      <4> QED BY <3>1, <4>1, DefaultAssumption DEF Null, AnyRecord, SaveInv, Typed
    <3>5. Typed'
      BY <2>1, <3>1, <3>4 DEF player, saved, disk, SaveInv, Typed
    <3>6. SaveKept'
      BY <3>1, <3>2, <3>3 DEF SaveKept, CopyKept, RecordKept
    <3> QED BY <2>2, <3>5, <3>6 DEF SaveInv
  <2> QED BY <2>3, <2>4
<1>2. CASE /\ UNCHANGED <<player, saved, save, disk, ghosts>>
           /\ sinceSave' \in Int /\ sinceTry' \in Int
  <2>1. Typed'
    BY <1>2 DEF player, saved, save, disk, SaveInv, Typed
  <2>2. PositionsKept' /\ HashKept' /\ SaveKept'
    BY <1>2 DEF player, saved, save, disk, ghosts, SaveInv, PositionsKept, InPlace,
                Taken, HashKept, SaveKept, CopyKept, RecordKept
  <2> QED BY <2>1, <2>2 DEF SaveInv
<1> QED BY <1>1, <1>2 DEF SaveNow, StateTick, SaveInv, Typed

\* One more track of the queue is in the copy, at the same place.
LEMMA CopyKeeps ==
  ASSUME SaveInv, CopyTrack PROVE SaveInv'
<1>1. Typed'
  <2>1. queue[cursor + 1] \in Tracks
    BY DEF CopyTrack, SaveInv, Typed
  <2>2. copied' \in Seq(Tracks)
    BY <2>1 DEF CopyTrack, SaveInv, Typed
  <2> QED BY <2>2 DEF CopyTrack, player, saved, timers, disk, SaveInv, Typed
<1>2. PositionsKept' /\ HashKept' /\ RecordKept'
  BY DEF CopyTrack, player, saved, disk, ghosts, SaveInv, PositionsKept, InPlace, Taken,
         HashKept, RecordKept
<1>3. cursor \in Nat /\ Len(queue) \in Nat /\ DOMAIN queue = 1 .. Len(queue)
      /\ cursor < Len(queue) /\ pc = "queue"
  BY DEF CopyTrack, SaveInv, Typed
<1>4. CASE "queue" \notin late
  <2>1. copied = [k \in 1 .. cursor |-> queue[k]] /\ copied \in Seq(present)
        /\ Len(copied) = cursor
    BY <1>3, <1>4 DEF SaveInv, SaveKept, CopyKept, Typed
  <2>2. copied' = [k \in 1 .. cursor' |-> queue'[k]] /\ cursor' <= Len(queue')
    BY <1>3, <2>1 DEF CopyTrack, player
  <2> QED BY <1>1, <1>2, <2>2 DEF SaveInv, SaveKept, CopyKept
<1>5. CASE "queue" \in late
  <2>1. "queue" \in late'
    BY <1>5 DEF CopyTrack, ghosts
  <2> QED BY <1>1, <1>2, <2>1 DEF SaveInv, SaveKept, CopyKept
<1> QED BY <1>4, <1>5

\* What was copied is the queue when nothing is left to copy, unless it was
\* changed on the way.
LEMMA CopiedAll ==
  ASSUME SaveInv, pc = "queue", cursor >= Len(queue), "queue" \notin late
  PROVE  copied = queue
<1>1. cursor = Len(queue) /\ copied = [k \in 1 .. cursor |-> queue[k]]
  BY DEF SaveInv, SaveKept, CopyKept, Typed
<1> QED BY <1>1 DEF SaveInv, Typed

\* The copy that is published is the queue, and the generation read after it is
\* that of the copy, or the change is known to be missed.
LEMMA PublishQueueKeeps ==
  ASSUME SaveInv, PublishQueue PROVE SaveInv'
<1> DEFINE stale == "queue" \in late
<1>1. ~stale => copied = queue
  BY CopiedAll DEF PublishQueue
<1>2. rec.elapsed \in Nat /\ stale \in BOOLEAN /\ FillIn(copied, rec.elapsed, stale)
  BY DEF PublishQueue, AnyRecord, SaveInv, Typed
<1> copied \in Seq(Tracks)
  BY DEF SaveInv, Typed
<1>3. /\ pc' = "state" /\ cursor' \in Nat /\ copied' \in Seq(Tracks) /\ rec' \in AnyRecord
      /\ rec'.queue = copied /\ rec'.setting = setting /\ Taken(rec, moment)'
  BY <1>1, <1>2, FilledIn
<1>4. Typed'
  BY <1>3 DEF PublishQueue, player, timers, SaveInv, Typed
<1>5. PositionsKept'
  BY DEF PublishQueue, player, SaveInv, PositionsKept, InPlace, Taken
<1>6. HashKept'
  BY <1>1 DEF PublishQueue, player, HashKept
<1>7. SaveKept'
  BY <1>3 DEF PublishQueue, player, SaveKept, CopyKept, RecordKept
<1> QED BY <1>4, <1>5, <1>6, <1>7 DEF SaveInv

\* The record that is published was filled in when the player was at it.
LEMMA PublishStateKeeps ==
  ASSUME SaveInv, PublishState PROVE SaveInv'
<1>1. Null \in AnyRecord
  BY DefaultAssumption DEF Null, AnyRecord
<1>2. Typed'
  BY <1>1 DEF PublishState, Return, player, SaveInv, Typed, AnyRecord
<1>3. PositionsKept'
  BY DEF PublishState, player, SaveInv, PositionsKept, InPlace, Taken, SaveKept, RecordKept
<1>4. HashKept'
  BY DEF PublishState, player, SaveInv, HashKept, SaveKept, RecordKept
<1>5. SaveKept'
  BY DEF PublishState, Return, SaveKept, CopyKept, RecordKept
<1> QED BY <1>2, <1>3, <1>4, <1>5 DEF SaveInv

\* A failing disk operation leaves both files and what is known of them.
LEMMA FailureKeeps ==
  ASSUME SaveInv, SaveFails PROVE SaveInv'
<1>1. Null \in AnyRecord
  BY DefaultAssumption DEF Null, AnyRecord
<1>2. Typed'
  BY <1>1 DEF SaveFails, Failed, Return, player, timers, disk, SaveInv, Typed
<1>3. PositionsKept' /\ HashKept' /\ SaveKept'
  BY DEF SaveFails, Failed, Return, player, disk, SaveInv, PositionsKept, InPlace, Taken,
         HashKept, SaveKept, CopyKept, RecordKept
<1> QED BY <1>2, <1>3 DEF SaveInv

\* After a loss of power the player is where the files say.
LEMMA RebootKeeps ==
  ASSUME SaveInv, NEW files \in SUBSET Tracks, Reboot(files) PROVE SaveInv'
<1>1. present' \subseteq Tracks /\ queueFile' \in Seq(Tracks) \cup {Missing}
      /\ stateFile' \in AnyRecord \cup {Missing}
  BY DEF Reboot, SaveInv, Typed
<1>2. RestoredQueue' \in Seq(present') /\ RestoredQueue' \in Seq(Tracks)
  <2>1. <<>> \in Seq(files) /\ <<>> \in Seq(Tracks)
    OBVIOUS
  <2>2. queueFile \in Seq(Tracks) \cup {Missing} /\ present' = files
        /\ queueFile' = queueFile /\ stateFile' = stateFile
    BY DEF Reboot, SaveInv, Typed
  <2>3. \/ RestoredQueue' = <<>>
        \/ queueFile \in Seq(Tracks) /\ RestoredQueue' = OnDisk(queueFile, files)
    BY <2>2 DEF RestoredQueue
  <2> QED BY <2>1, <2>2, <2>3, RestoredType
<1>3. RestoredIndex' \in Nat \ {0} /\ RestoredElapsed' \in Nat
      /\ RestoredSetting' \in SettingValues
  BY <1>1, DefaultAssumption DEF RestoredIndex, RestoredElapsed, RestoredSetting,
       SameQueue, AnyRecord
<1>4. Null \in AnyRecord
  BY DefaultAssumption DEF Null, AnyRecord
<1>5. Typed'
  BY <1>1, <1>2, <1>3, <1>4 DEF Reboot, Return, SaveInv, Typed
<1>6. RestoredIndex' = 1 \/ RestoredIndex' \in DOMAIN RestoredQueue'
  BY DEF RestoredIndex
<1>7. PositionsKept' /\ HashKept' /\ SaveKept'
  BY <1>6 DEF Reboot, Return, SaveInv, PositionsKept, InPlace, Taken, HashKept,
              SaveKept, CopyKept, RecordKept
<1> QED BY <1>5, <1>7 DEF SaveInv

\* Any step keeps the invariant.
LEMMA SaveStep ==
  ASSUME SaveInv, [Next]_vars PROVE SaveInv'
<1>1. CASE UNCHANGED vars
  BY <1>1 DEF vars, player, saved, timers, save, disk, ghosts, SaveInv, Typed,
              PositionsKept, InPlace, Taken, HashKept, SaveKept, CopyKept, RecordKept
<1> QED BY <1>1, PlayerKeeps, BeginKeeps, CopyKeeps, PublishQueueKeeps,
           PublishStateKeeps, FailureKeeps, RebootKeeps DEF Next

\* The position a boot restores belongs to the queue it restores, wherever power
\* was lost and whatever failed or changed before, unless a queue that changed too
\* late for one save was taken for the saved one by it or the next.
THEOREM ResumesRightly == Spec => []ResumeSafe
<1>1. SaveInv => ResumeSafe
  BY DEF SaveInv, PositionsKept, Taken, InPlace, ResumeSafe, RestoredIndex,
         RestoredElapsed, SameQueue
<1> QED BY <1>1, SaveInit, SaveStep, PTL DEF Spec

\* The UI loop neither oversleeps a pending save nor wakes before it is due,
\* after any number of failures and however long the interval has grown.
THEOREM WaitIsExact == Spec => []WaitMeetsDue
<1>1. ASSUME SaveInv PROVE WaitMeetsDue
  <2>1. sinceSave \in Int /\ sinceTry \in Int /\ RetryInterval \in Int
        /\ Interval \in Int
    <3>1. RetryShift \in Nat
      BY <1>1, BoundAssumption DEF RetryShift, SaveInv, Typed
    <3> QED BY <1>1, <3>1 DEF RetryInterval, Interval, SaveInv, Typed
  <2> QED BY <2>1 DEF WaitMeetsDue, WaitTicks, Due
<1> QED BY <1>1, SaveInit, SaveStep, PTL DEF Spec
-------------------------------------------------------------------------------
(* What is not marked for saving is on the disk.                           *)

FilesInv == SaveInv /\ FilesKept

\* The files and what they are compared with stay as they are, or are marked.
LEMMA FilesSame ==
  ASSUME FilesKept, disk' = disk, savedGen' = savedGen, unmarked' = unmarked,
         (gen' = gen /\ queue' = queue) \/ gen' # savedGen,
         ~dirty' => ~dirty /\ setting' = setting
  PROVE  FilesKept'
<1>1. DiskQueue' = DiskQueue /\ RestoredSetting' = RestoredSetting
  BY DEF disk, DiskQueue, RestoredSetting
<1> QED BY <1>1 DEF FilesKept

\* A new queue is not the one that was saved.
LEMMA ChangeKeepsFiles ==
  ASSUME SaveInv, FilesKept,
         \/ \E q \in Queues : \E i \in {1} \cup DOMAIN q : ChangeQueue(q, i)
         \/ \E q \in Queues \cup {queue} : \E i \in {1} \cup DOMAIN q : Reorder(q, i)
         \/ \E k \in DOMAIN queue : DropEntry(k)
  PROVE  FilesKept'
<1>1. /\ gen' = gen + 1 /\ UNCHANGED <<disk, savedGen, unmarked>>
      /\ ~dirty' => ~dirty /\ setting' = setting
  BY DEF ChangeQueue, Reorder, DropEntry, NewQueue, Changed
<1>2. gen' # savedGen
  BY <1>1 DEF SaveInv, Typed
<1> QED BY <1>1, <1>2, FilesSame

\* The published queue has no track that is missing, so a boot finds all of it.
LEMMA PublishQueueKeepsFiles ==
  ASSUME SaveInv, FilesKept, PublishQueue PROVE FilesKept'
<1>1. CASE "queue" \in unmarked'
  BY <1>1 DEF PublishQueue, player, FilesKept, RestoredSetting
<1>2. CASE "queue" \notin unmarked'
  <2>1. "queue" \notin late
    BY <1>2 DEF PublishQueue
  <2>2. copied = queue /\ queue \in Seq(Tracks)
    BY <2>1, CopiedAll DEF PublishQueue, SaveInv, Typed
  <2>3. queueFile' = queue /\ queueFile' # Missing /\ present' = present
    BY <2>2, MissingAssumption DEF PublishQueue
  <2>4. OnDisk(queue, present) = queue
    BY OnDiskWhole DEF SaveInv, Typed
  <2>5. DiskQueue' = queue
    BY <2>3, <2>4 DEF DiskQueue
  <2> QED BY <2>5 DEF PublishQueue, player, FilesKept, RestoredSetting
<1> QED BY <1>1, <1>2

\* The published record has the settings, and the other file the queue, but for
\* what changed too late.
LEMMA PublishStateKeepsFiles ==
  ASSUME SaveInv, FilesKept, PublishState PROVE FilesKept'
<1>1. rec # Missing
  BY MissingAssumption DEF SaveInv, Typed, AnyRecord
<1>2. stateFile' = rec /\ UNCHANGED <<player, queueFile, present>>
      /\ unmarked' = (unmarked \ {"setting"}) \cup late
  BY DEF PublishState
<1>3. DiskQueue' = DiskQueue /\ RestoredSetting' = rec.setting
  BY <1>1, <1>2 DEF DiskQueue, RestoredSetting
<1>4. "setting" \notin late => rec.setting = setting
  BY DEF PublishState, SaveInv, SaveKept, RecordKept
<1>5. "queue" \notin late => gen = savedGen
  BY DEF PublishState, SaveInv, SaveKept, RecordKept
<1> QED BY <1>2, <1>3, <1>4, <1>5 DEF player, FilesKept

\* A boot starts from the files, or leaves a list without a record alone.
LEMMA RebootKeepsFiles ==
  ASSUME NEW files \in SUBSET Tracks, Reboot(files) PROVE FilesKept'
<1>1. "queue" \notin unmarked' => DiskQueue' = RestoredQueue'
  BY DEF Reboot, DiskQueue, RestoredQueue
<1> QED BY <1>1 DEF Reboot, FilesKept

\* Any step keeps the files and memory together.
LEMMA FilesStep ==
  ASSUME FilesInv, [Next]_vars PROVE FilesInv'
<1>1. SaveInv'
  BY SaveStep DEF FilesInv
<1>2. FilesKept'
  <2>1. CASE \E i \in DOMAIN queue : MoveIndex(i)
    BY <2>1, FilesSame DEF FilesInv, MoveIndex, saved, ghosts
  <2>2. CASE \E v \in SettingValues : ChangeSetting(v)
    BY <2>2, FilesSame DEF FilesInv, ChangeSetting, Changed
  <2>3. CASE Play \/ ForgetResume \/ TakeResume \/ Tick
    BY <2>3, FilesSame DEF FilesInv, Play, ForgetResume, TakeResume, Tick,
       saved, player, ghosts
  <2>4. CASE \/ \E force \in BOOLEAN : SaveNow(force)
             \/ StateTick \/ UNCHANGED vars
    BY <2>4, FilesSame DEF FilesInv, SaveNow, StateTick, BeginSave, saved, player, ghosts, vars
  <2>5. CASE CopyTrack \/ SaveFails
    BY <2>5, FilesSame DEF FilesInv, CopyTrack, SaveFails, Failed, saved, player, ghosts
  <2> QED BY <2>1, <2>2, <2>3, <2>4, <2>5, ChangeKeepsFiles, PublishQueueKeepsFiles,
             PublishStateKeepsFiles, RebootKeepsFiles DEF Next, FilesInv
<1> QED BY <1>1, <1>2 DEF FilesInv

\* The player starts with no files, or with two that agree.
LEMMA FilesInit == Init => FilesInv
<1> SUFFICES ASSUME Init PROVE FilesInv
  OBVIOUS
<1>1. <<>> \in Seq(Tracks) /\ <<>> \in Seq(present)
  OBVIOUS
<1>2. Null \in AnyRecord
  BY <1>1, DefaultAssumption DEF Null, AnyRecord
<1>3. OnDisk(<<>>, present) = <<>>
  BY <1>1, OnDiskWhole
<1>4. DiskQueue = queue
  BY <1>3 DEF DiskQueue, Init
<1>5. RestoredSetting = setting
  BY DEF RestoredSetting, Init, Null
<1> QED BY <1>4, <1>5, SaveInit DEF FilesInv, FilesKept

\* What is not marked for saving is what a boot would bring back, once there is a
\* record and but for what another thread changed when a save had already read it.
THEOREM NothingIsForgotten == Spec => []NothingForgotten
<1>1. ASSUME FilesInv PROVE NothingForgotten
  <2>1. stateFile # Missing => RestoredQueue = DiskQueue
    BY DEF RestoredQueue, DiskQueue
  <2> QED BY <1>1, <2>1 DEF FilesInv, FilesKept, NothingForgotten, Pending
<1> QED BY <1>1, FilesInit, FilesStep, PTL DEF Spec

-------------------------------------------------------------------------------
(* Types.                                                                  *)

\* The generation that was saved is one there has been.
TypeInv == TypeOK /\ savedGen <= gen

LEMMA PairTyped ==
  ASSUME NEW q \in Seq(Tracks), NEW i \in Positions
  PROVE  {<<q, i>>} \subseteq Seq(Tracks) \X Positions
OBVIOUS

\* What belongs to the player is left alone, or what belongs to the save.
LEMMA SamePlayerTypes ==
  ASSUME PlayerTypes, UNCHANGED player PROVE PlayerTypes'
BY DEF PlayerTypes, player

LEMMA SameSaveTypes ==
  ASSUME SaveTypes, UNCHANGED <<saved, timers, save>> PROVE SaveTypes'
BY DEF SaveTypes, saved, timers, save

LEMMA SameDiskTypes ==
  ASSUME DiskTypes, UNCHANGED <<disk, bounds>> PROVE DiskTypes'
BY DEF DiskTypes, disk, bounds

LEMMA SameGhostTypes ==
  ASSUME GhostTypes, UNCHANGED ghosts PROVE GhostTypes'
BY DEF GhostTypes, ghosts

LEMMA ChangedTypes ==
  ASSUME GhostTypes, NEW kinds \in SUBSET Kinds, Changed(kinds) PROVE GhostTypes'
BY DEF GhostTypes, Changed

\* Another list, and the generation up to its bound.
LEMMA NewQueueTyped ==
  ASSUME TypeInv, NEW q \in Seq(Tracks), NEW i \in Positions,
         NEW kinds \in SUBSET Kinds, NewQueue(q, i), Changed(kinds),
         setting' \in SettingValues, dirty' \in BOOLEAN
  PROVE  TypeInv'
<1>1. PlayerTypes /\ SaveTypes /\ DiskTypes /\ GhostTypes
  BY DEF TypeInv, TypeOK
<1>2. gen' \in 0 .. MaxGen /\ savedGen' <= gen'
  BY BoundAssumption DEF NewQueue, TypeInv, TypeOK, PlayerTypes, SaveTypes
<1>3. PlayerTypes'
  BY <1>1, <1>2 DEF NewQueue, PlayerTypes
<1>4. SaveTypes'
  BY <1>1 DEF NewQueue, timers, save, SaveTypes
<1>5. DiskTypes'
  BY <1>1, SameDiskTypes DEF NewQueue
<1> QED BY <1>1, <1>2, <1>3, <1>4, <1>5, ChangedTypes DEF TypeInv, TypeOK

\* The player or another thread changes the queue, moves in it, or plays on; time
\* passes.
LEMMA PlayerTyped ==
  ASSUME TypeInv,
         \/ \E q \in Queues : \E i \in {1} \cup DOMAIN q : ChangeQueue(q, i)
         \/ \E q \in Queues \cup {queue} : \E i \in {1} \cup DOMAIN q : Reorder(q, i)
         \/ \E k \in DOMAIN queue : DropEntry(k)
         \/ \E i \in DOMAIN queue : MoveIndex(i)
         \/ \E v \in SettingValues : ChangeSetting(v)
         \/ Play \/ ForgetResume \/ TakeResume \/ Tick
  PROVE  TypeInv'
<1>1. /\ PlayerTypes /\ SaveTypes /\ DiskTypes /\ GhostTypes
      /\ queue \in Seq(Tracks) /\ index \in Positions
      /\ setting \in SettingValues /\ dirty \in BOOLEAN
  BY DEF TypeInv, TypeOK, PlayerTypes, SaveTypes
<1>2. {"queue"} \in SUBSET Kinds /\ {"setting"} \in SUBSET Kinds /\ Kinds \in SUBSET Kinds
  BY DEF Kinds
<1>3. ASSUME NEW q \in Queues, NEW i \in {1} \cup DOMAIN q, ChangeQueue(q, i)
      PROVE  TypeInv'
  <2>1. q \in Seq(Tracks) /\ i \in Positions
    BY QueueAssumption DEF Positions
  <2> QED BY <1>1, <1>2, <1>3, <2>1, NewQueueTyped DEF ChangeQueue
<1>4. ASSUME NEW q \in Queues \cup {queue}, NEW i \in {1} \cup DOMAIN q, Reorder(q, i)
      PROVE  TypeInv'
  <2>1. q \in Seq(Tracks) /\ i \in Positions
    BY <1>1, QueueAssumption DEF Positions
  <2> QED BY <1>2, <1>4, <2>1, NewQueueTyped DEF Reorder
<1>5. ASSUME NEW k \in DOMAIN queue, DropEntry(k)
      PROVE  TypeInv'
  <2> DEFINE rest == RemoveAt(queue, k)
             last == IF rest = <<>> THEN 1 ELSE Len(rest)
             at == IF index > last THEN last ELSE index
  <2>1. rest \in Seq(Tracks)
    BY <1>1, RestTyped
  <2>2. NewQueue(rest, at) /\ Changed({"queue"}) /\ setting' = setting /\ dirty' = dirty
    BY <1>5 DEF DropEntry
  <2> HIDE DEF rest
  <2>3. at \in Positions
    BY <1>1, <2>1 DEF Positions
  <2> HIDE DEF at
  <2> QED BY <1>1, <1>2, <2>1, <2>2, <2>3, NewQueueTyped
<1>6. ASSUME NEW i \in DOMAIN queue, MoveIndex(i)
      PROVE  TypeInv'
  <2>1. i \in Positions
    BY <1>1 DEF Positions
  <2>2. PlayerTypes'
    BY <1>1, <1>6, <2>1 DEF MoveIndex, PlayerTypes
  <2> QED BY <1>1, <1>6, <2>2, SameSaveTypes, SameDiskTypes, SameGhostTypes
          DEF MoveIndex, TypeInv, TypeOK, saved
<1>7. ASSUME NEW v \in SettingValues, ChangeSetting(v)
      PROVE  TypeInv'
  <2>1. PlayerTypes' /\ SaveTypes' /\ savedGen' <= gen'
    BY <1>1, <1>7 DEF ChangeSetting, timers, save, TypeInv, PlayerTypes, SaveTypes
  <2> QED BY <1>1, <1>2, <1>7, <2>1, SameDiskTypes, ChangedTypes
          DEF ChangeSetting, TypeInv, TypeOK
<1>8. CASE Play \/ ForgetResume \/ TakeResume
  <2>1. PlayerTypes'
    BY <1>1, <1>8 DEF Play, ForgetResume, TakeResume, PlayerTypes
  <2>2. SaveTypes' /\ savedGen' <= gen'
    BY <1>1, <1>8 DEF Play, ForgetResume, TakeResume, saved, timers, save, TypeInv, SaveTypes
  <2>3. UNCHANGED <<disk, bounds, ghosts>>
    BY <1>8 DEF Play, ForgetResume, TakeResume
  <2> QED BY <1>1, <2>1, <2>2, <2>3, SameDiskTypes, SameGhostTypes DEF TypeInv, TypeOK
<1>9. CASE Tick
  <2>1. PlayerTypes' /\ savedGen' <= gen'
    BY <1>1, <1>9, SamePlayerTypes DEF Tick, TypeInv, player, saved
  <2>2. SaveTypes'
    BY <1>1, <1>9 DEF Tick, saved, save, SaveTypes
  <2> QED BY <1>1, <1>9, <2>1, <2>2, SameDiskTypes, SameGhostTypes DEF Tick, TypeInv, TypeOK
<1> QED BY <1>3, <1>4, <1>5, <1>6, <1>7, <1>8, <1>9

\* A save keeps a copy of as many tracks as its cursor says.
LEMMA SaveTyped ==
  ASSUME TypeInv,
         \/ \E force \in BOOLEAN : SaveNow(force)
         \/ StateTick \/ CopyTrack \/ PublishQueue \/ PublishState \/ SaveFails
  PROVE  TypeInv'
<1>1. PlayerTypes /\ SaveTypes /\ DiskTypes /\ GhostTypes /\ savedGen <= gen /\ gen \in Nat
  BY DEF TypeInv, TypeOK, PlayerTypes
<1>2. UNCHANGED player
  BY DEF SaveNow, BeginSave, StateTick, CopyTrack, PublishQueue, PublishState,
         SaveFails, Failed
<1>3. PlayerTypes' /\ gen' = gen
  BY <1>1, <1>2, SamePlayerTypes DEF player
<1>4. Null \in Records /\ <<>> \in Seq(Tracks) /\ Len(<<>>) = 0
  BY DefaultAssumption DEF Null, Records, Positions
<1>5. ASSUME NEW hash \in Seq(Tracks), NEW time \in {0, 1}, NEW stale \in BOOLEAN,
             FillIn(hash, time, stale)
      PROVE  /\ pc' = "state" /\ copied' \in Seq(Tracks) /\ cursor' = Len(copied')
             /\ rec' \in Records /\ moment' \subseteq Seq(Tracks) \X Positions
  <2>1. rec' \in Records
    BY <1>1, <1>5 DEF FillIn, ToSave, Records, PlayerTypes
  <2>2. {<<queue, index>>} \subseteq Seq(Tracks) \X Positions
    BY <1>1, PairTyped DEF PlayerTypes
  <2>3. moment' = {} \/ moment' = {<<queue, index>>}
    BY <1>5 DEF FillIn
  <2> QED BY <1>4, <1>5, <2>1, <2>2, <2>3 DEF FillIn
<1>6. CASE BeginSave
  <2>1. CASE gen = savedGen
    <3> DEFINE stale == "queue" \in unmarked
    <3>1. savedHash \in Seq(Tracks) /\ elapsed \in {0, 1} /\ stale \in BOOLEAN
      BY <1>1 DEF PlayerTypes, SaveTypes
    <3>2. FillIn(savedHash, elapsed, stale)
      BY <1>6, <2>1 DEF BeginSave
    <3>3. /\ pc' = "state" /\ copied' \in Seq(Tracks) /\ cursor' = Len(copied')
          /\ rec' \in Records /\ moment' \subseteq Seq(Tracks) \X Positions
      BY <1>5, <3>1, <3>2
    <3>4. SaveTypes' /\ savedGen' = savedGen
      BY <1>1, <1>6, <3>3 DEF BeginSave, saved, SaveTypes
    <3>5. GhostTypes'
      BY <1>1, <1>6, <3>3 DEF BeginSave, GhostTypes
    <3> QED BY <1>1, <1>3, <1>6, <3>4, <3>5, SameDiskTypes DEF BeginSave, TypeInv, TypeOK
  <2>2. CASE gen # savedGen
    <3>1. [Null EXCEPT !.elapsed = elapsed] \in Records
      BY <1>1, <1>4 DEF Records, Null, PlayerTypes
    <3>2. /\ pc' = "queue" /\ copied' = <<>> /\ cursor' = 0 /\ rec' \in Records
          /\ UNCHANGED ghosts
      BY <1>6, <2>2, <3>1 DEF BeginSave, ghosts
    <3>3. SaveTypes' /\ savedGen' = savedGen
      BY <1>1, <1>4, <1>6, <3>2 DEF BeginSave, saved, SaveTypes
    <3> QED BY <1>1, <1>3, <1>6, <3>2, <3>3, SameDiskTypes, SameGhostTypes
            DEF BeginSave, TypeInv, TypeOK
  <2> QED BY <2>1, <2>2
<1>7. CASE /\ UNCHANGED <<saved, save, disk, bounds, ghosts>>
           /\ sinceSave' \in {0, sinceSave} /\ sinceTry' \in {0, sinceTry}
  <2>1. SaveTypes' /\ savedGen' = savedGen
    BY <1>1, <1>7 DEF saved, save, SaveTypes
  <2> QED BY <1>1, <1>3, <1>7, <2>1, SameDiskTypes, SameGhostTypes DEF TypeInv, TypeOK
<1>8. CASE SaveNow(TRUE) \/ SaveNow(FALSE) \/ StateTick
  BY <1>6, <1>7, <1>8 DEF SaveNow, StateTick
<1>9. CASE CopyTrack
  <2>1. queue[cursor + 1] \in Tracks
    BY <1>1, <1>9 DEF CopyTrack, PlayerTypes, SaveTypes
  <2>2. copied' \in Seq(Tracks) /\ cursor' = Len(copied')
    BY <1>1, <1>9, <2>1 DEF CopyTrack, SaveTypes
  <2>3. SaveTypes' /\ savedGen' = savedGen
    BY <1>1, <1>9, <2>2 DEF CopyTrack, saved, timers, SaveTypes
  <2> QED BY <1>1, <1>3, <1>9, <2>3, SameDiskTypes, SameGhostTypes DEF CopyTrack, TypeInv, TypeOK
<1>10. CASE PublishQueue
  <2> DEFINE stale == "queue" \in late
  <2>1. copied \in Seq(Tracks) /\ rec.elapsed \in {0, 1} /\ stale \in BOOLEAN
    BY <1>1 DEF SaveTypes, Records
  <2>2. FillIn(copied, rec.elapsed, stale)
    BY <1>10 DEF PublishQueue
  <2>3. /\ pc' = "state" /\ copied' \in Seq(Tracks) /\ cursor' = Len(copied')
        /\ rec' \in Records /\ moment' \subseteq Seq(Tracks) \X Positions
    BY <1>5, <2>1, <2>2
  <2>4. SaveTypes' /\ savedGen' = gen
    BY <1>1, <1>10, <2>1, <2>3 DEF PublishQueue, timers, PlayerTypes, SaveTypes
  <2>5. DiskTypes'
    BY <1>1, <1>10, <2>1 DEF PublishQueue, bounds, DiskTypes
  <2>6. GhostTypes'
    BY <1>1, <1>10, <2>3 DEF PublishQueue, GhostTypes
  <2> QED BY <1>1, <1>3, <2>4, <2>5, <2>6 DEF TypeInv, TypeOK
<1>11. CASE PublishState
  <2>1. rec \in Records /\ rec.queue \in Seq(Tracks) /\ rec.elapsed \in {0, 1}
    BY <1>1 DEF Records, SaveTypes
  <2>2. 0 \in 0 .. MaxRetryShift + 1 /\ gen \in 0 .. MaxGen
    BY <1>1, BoundAssumption DEF PlayerTypes
  <2>3. /\ pc' = "idle" /\ copied' = <<>> /\ cursor' = 0 /\ rec' \in Records
        /\ late' = {} /\ moment' = {}
    BY <1>4, <1>11 DEF PublishState, Return
  <2>4. SaveTypes' /\ savedGen' = gen
    BY <1>1, <1>4, <1>11, <2>1, <2>2, <2>3 DEF PublishState, SaveTypes
  <2>5. DiskTypes'
    BY <1>1, <1>11, <2>1 DEF PublishState, bounds, DiskTypes
  <2>6. GhostTypes'
    BY <1>1, <1>11, <2>3 DEF PublishState, GhostTypes
  <2> QED BY <1>1, <1>3, <2>4, <2>5, <2>6 DEF TypeInv, TypeOK
<1>12. CASE SaveFails
  <2>1. /\ pc' = "idle" /\ copied' = <<>> /\ cursor' = 0 /\ rec' \in Records
        /\ late' = {} /\ moment' = {}
    BY <1>4, <1>12 DEF SaveFails, Failed, Return
  <2>2. SaveTypes' /\ savedGen' = savedGen
    BY <1>1, <1>4, <1>12, <2>1, BoundAssumption DEF SaveFails, Failed, timers, SaveTypes
  <2>3. DiskTypes'
    BY <1>1, <1>12, BoundAssumption DEF SaveFails, Failed, disk, DiskTypes
  <2>4. GhostTypes'
    BY <1>1, <1>12, <2>1 DEF SaveFails, Failed, GhostTypes
  <2> QED BY <1>1, <1>3, <2>2, <2>3, <2>4 DEF TypeInv, TypeOK
<1> QED BY <1>8, <1>9, <1>10, <1>11, <1>12

\* What a boot restores has the types of what was saved.
LEMMA RebootTyped ==
  ASSUME TypeInv, NEW files \in SUBSET Tracks, Reboot(files) PROVE TypeInv'
<1>1. /\ queueFile' = queueFile /\ stateFile' = stateFile /\ present' = files
      /\ PlayerTypes /\ DiskTypes /\ GhostTypes
  BY DEF Reboot, TypeInv, TypeOK
<1>2. RestoredQueue' \in Seq(Tracks)
  <2>1. \/ RestoredQueue' = <<>>
        \/ queueFile \in Seq(Tracks) /\ RestoredQueue' = OnDisk(queueFile, files)
    BY <1>1 DEF RestoredQueue, DiskTypes
  <2>2. <<>> \in Seq(Tracks)
    OBVIOUS
  <2> QED BY <2>1, <2>2, RestoredType
<1>3. RestoredIndex' \in Positions /\ RestoredElapsed' \in {0, 1}
      /\ RestoredSetting' \in SettingValues
  <2>1. stateFile' # Missing => stateFile' \in Records
    BY <1>1 DEF DiskTypes
  <2> QED BY <2>1, DefaultAssumption
          DEF RestoredIndex, RestoredElapsed, RestoredSetting, SameQueue, Records, Positions
<1>4. /\ queue' \in Seq(Tracks) /\ index' \in Positions
      /\ elapsed' \in {0, 1} /\ setting' \in SettingValues
      /\ gen' = gen
  BY <1>2, <1>3 DEF Reboot
<1>5. Null \in Records /\ <<>> \in Seq(Tracks) /\ Len(<<>>) = 0
  BY DefaultAssumption DEF Null, Records, Positions
<1>6. 0 \in 0 .. MaxRetryShift + 1
  BY BoundAssumption
<1>7. PlayerTypes'
  BY <1>1, <1>4 DEF PlayerTypes
<1>8. SaveTypes' /\ savedGen' <= gen'
  <2>1. copied' \in Seq(Tracks) /\ cursor' = Len(copied') /\ rec' \in Records /\ pc' = "idle"
    BY <1>5 DEF Reboot, Return
  <2>2. /\ savedHash' \in Seq(Tracks) /\ savedElapsed' \in {0, 1}
        /\ dirty' \in BOOLEAN /\ savedGen' \in 0 .. MaxGen
        /\ failures' \in 0 .. MaxRetryShift + 1
        /\ sinceSave' \in Nat /\ sinceTry' \in Nat
    BY <1>1, <1>2, <1>3, <1>5, <1>6 DEF Reboot, PlayerTypes
  <2>3. savedGen' <= gen'
    BY <1>1 DEF Reboot, PlayerTypes
  <2> QED BY <2>1, <2>2, <2>3 DEF SaveTypes
<1>9. DiskTypes'
  BY <1>1, BoundAssumption DEF Reboot, DiskTypes
<1>10. GhostTypes'
  BY <1>1 DEF Reboot, Return, GhostTypes, Kinds
<1> QED BY <1>7, <1>8, <1>9, <1>10 DEF TypeInv, TypeOK

\* Every variable keeps its type, in a save the copy as many tracks as the cursor
\* says, and the count of failures its cap.
THEOREM CheckpointTyped == Spec => []TypeOK
<1>1. Init => TypeInv
  <2> SUFFICES ASSUME Init PROVE TypeInv
    OBVIOUS
  <2>1. Null \in Records /\ <<>> \in Seq(Tracks) /\ Len(<<>>) = 0
    BY DefaultAssumption DEF Null, Records, Positions
  <2>2. 1 \in Positions
    BY DEF Positions
  <2>3. GhostTypes
    BY <2>1, <2>2, PairTyped DEF Init, GhostTypes
  <2>4. 0 \in 0 .. MaxGen /\ 0 \in 0 .. MaxRetryShift + 1
        /\ 0 \in 0 .. MaxFaults /\ 0 \in 0 .. MaxCrashes
    BY BoundAssumption
  <2>5. PlayerTypes
    BY <2>1, <2>2, <2>3, <2>4, DefaultAssumption DEF Init, PlayerTypes
  <2>6. SaveTypes /\ savedGen <= gen
    <3>1. copied \in Seq(Tracks) /\ cursor = Len(copied)
      BY <2>1 DEF Init
    <3>2. /\ savedHash \in Seq(Tracks) /\ savedElapsed = 0 /\ rec \in Records
          /\ dirty \in BOOLEAN /\ savedGen \in 0 .. MaxGen
          /\ failures \in 0 .. MaxRetryShift + 1
          /\ sinceSave \in Nat /\ sinceTry \in Nat /\ pc = "idle"
      BY <2>1, <2>4 DEF Init
    <3>3. savedGen <= gen
      BY DEF Init
    <3> QED BY <3>1, <3>2, <3>3 DEF SaveTypes
  <2>7. DiskTypes
    BY <2>1, <2>4 DEF Init, DiskTypes
  <2> QED BY <2>3, <2>5, <2>6, <2>7 DEF TypeInv, TypeOK
<1>2. TypeInv /\ [Next]_vars => TypeInv'
  <2>1. TypeInv /\ UNCHANGED vars => TypeInv'
    BY SamePlayerTypes, SameSaveTypes, SameDiskTypes, SameGhostTypes
       DEF vars, player, saved, TypeInv, TypeOK
  <2> QED BY <2>1, PlayerTyped, SaveTyped, RebootTyped DEF Next
<1>3. TypeInv => TypeOK
  BY DEF TypeInv
<1> QED BY <1>1, <1>2, <1>3, PTL DEF Spec
===============================================================================
