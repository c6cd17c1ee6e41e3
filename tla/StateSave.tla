------------------------------ MODULE StateSave ------------------------------
(***************************************************************************)
(* The checkpoint of the player's state (apps/crazypod/crazypod_state.c):  *)
(* settings, queue and resume position are kept in memory and written, by  *)
(* the UI thread, to two files: queue.m3u8, rewritten when the queue has   *)
(* changed, and state.bin, which holds the rest and a hash of the queue it *)
(* belongs to.  Power may be lost at any time; the next boot loads both.   *)
(*                                                                         *)
(* The kernel is cooperative: other threads (the playback engine, the      *)
(* playback command thread, the accessory protocol) run only while the UI  *)
(* thread waits for the disk.  Each action of a save is therefore the code *)
(* between two disk operations, and between any two of them the others may *)
(* drop a track that does not open, shuffle, set the volume or forget the  *)
(* resume time.  What comes too late for the save under way is noted in    *)
(* ghosts, for the properties to say what is kept and what is not.         *)
(*                                                                         *)
(* A temporary file is always truncated before it is written and never     *)
(* read, so only the files that rename() publishes are state.  A hash is   *)
(* the list it was computed from: collisions are not modelled.  All the    *)
(* settings are one value; time is counted in units of the save interval.  *)
(***************************************************************************)
EXTENDS Integers, SequencesExt, FiniteSets

CONSTANTS
    Tracks,       \* music files
    Queues,       \* the play queues the listener builds
    SettingValues,
    Default,      \* the settings without a state file
    Missing,      \* no file
    MaxRetryShift,\* STATE_SAVE_MAX_RETRY_SHIFT
    MaxGen,       \* bound: queue changes in a behaviour
    MaxFaults,    \* bound: disk operations that fail
    MaxCrashes    \* bound: power losses

ASSUME QueueAssumption == <<>> \in Queues /\ Queues \subseteq Seq(Tracks)
ASSUME DefaultAssumption == Default \in SettingValues
ASSUME MissingAssumption ==
    /\ Missing \notin Seq(Tracks)
    /\ Missing \notin [queue : Seq(Tracks), index : Nat,
                       setting : SettingValues, elapsed : Nat]
ASSUME BoundAssumption == {MaxRetryShift, MaxGen, MaxFaults, MaxCrashes} \subseteq Nat

VARIABLES
    queue, index, gen,      \* the play queue, its position and generation
    setting, elapsed,       \* the settings, and the play time to resume at
    dirty,                  \* state_dirty
    savedGen, savedHash,    \* saved_queue_generation, saved_queue_hash
    savedElapsed,           \* last_saved_elapsed
    failures,               \* state_save_failures
    sinceSave, sinceTry,    \* now - last_save_tick, now - last_save_attempt_tick
    pc, cursor, copied, rec,\* the save in progress and its locals
    queueFile, stateFile,   \* the two files
    present,                \* the music files on the disk
    faults, crashes,        \* counters for the bounds
    late,                   \* ghost: what changed too late for this save
    unmarked,               \* ghost: what a finished save missed all the same
    moment, fileMoment      \* ghost: where the player was when the record, and
                            \* that of stateFile, was filled in; {} if nowhere

player == <<queue, index, gen, setting, elapsed>>
saved == <<dirty, savedGen, savedHash, savedElapsed, failures>>
timers == <<sinceSave, sinceTry>>
save == <<pc, cursor, copied, rec>>
disk == <<queueFile, stateFile, present>>
bounds == <<faults, crashes>>
ghosts == <<late, unmarked, moment, fileMoment>>
vars == <<player, saved, timers, save, disk, bounds, ghosts>>

Kinds == {"queue", "setting"}

Interval == 1            \* STATE_SAVE_INTERVAL and STATE_SAVE_RETRY_INTERVAL
MaxAge == Interval * 2^MaxRetryShift + 1

Positions == Nat \ {0}
Records ==
    [queue : Seq(Tracks), index : Positions, setting : SettingValues,
     elapsed : {0, 1}]

Null == [queue |-> <<>>, index |-> 1, setting |-> Default, elapsed |-> 0]

PlayerTypes ==
    /\ queue \in Seq(Tracks) /\ index \in Positions /\ gen \in 0 .. MaxGen
    /\ setting \in SettingValues /\ elapsed \in {0, 1}

GhostTypes ==
    /\ moment \subseteq Seq(Tracks) \X Positions
    /\ fileMoment \subseteq Seq(Tracks) \X Positions
    /\ late \subseteq Kinds /\ unmarked \subseteq Kinds

SaveTypes ==
    /\ dirty \in BOOLEAN /\ savedGen \in 0 .. MaxGen /\ savedHash \in Seq(Tracks)
    /\ savedElapsed \in {0, 1} /\ failures \in 0 .. MaxRetryShift + 1
    /\ sinceSave \in Nat /\ sinceTry \in Nat
    /\ pc \in {"idle", "queue", "state"}
    /\ copied \in Seq(Tracks) /\ cursor = Len(copied)
    /\ rec \in Records

DiskTypes ==
    /\ queueFile \in Seq(Tracks) \cup {Missing}
    /\ stateFile \in Records \cup {Missing}
    /\ present \subseteq Tracks
    /\ faults \in 0 .. MaxFaults /\ crashes \in 0 .. MaxCrashes

TypeOK == PlayerTypes /\ SaveTypes /\ DiskTypes /\ GhostTypes

(* The first time the player is switched on, or with what an earlier save   *)
(* has left.                                                               *)
Init ==
    /\ queue = <<>> /\ index = 1 /\ gen = 0
    /\ setting = Default /\ elapsed = 0
    /\ dirty = FALSE /\ savedGen = 0 /\ savedHash = <<>>
    /\ savedElapsed = 0 /\ failures = 0
    /\ sinceSave = 0 /\ sinceTry = 0
    /\ pc = "idle" /\ cursor = 0 /\ copied = <<>> /\ rec = Null
    /\ \/ queueFile = Missing /\ stateFile = Missing
       \/ queueFile = <<>> /\ stateFile = Null
    /\ present = Tracks
    /\ faults = 0 /\ crashes = 0
    /\ late = {} /\ unmarked = {} /\ moment = {} /\ fileMoment = {<<<<>>, 1>>}

-----------------------------------------------------------------------------
(* What the other parts of the firmware do to the state.                   *)

Idle == pc = "idle"

(* The kinds of change that now come too late for the save under way: it   *)
(* reads the queue from the first copy on, and all it saves when pc        *)
(* becomes "state".                                                        *)
TooLate ==
    CASE pc = "state" -> Kinds
      [] pc = "queue" /\ cursor > 0 -> {"queue"}
      [] OTHER -> {}

Changed(kinds) ==
    /\ late' = late \cup (kinds \cap TooLate)
    /\ UNCHANGED <<unmarked, moment, fileMoment>>

(* Whatever changes the list does it under the queue's mutex and ends with *)
(* ++queue_generation.                                                     *)
NewQueue(q, i) ==
    /\ gen < MaxGen
    /\ queue' = q /\ index' = i /\ gen' = gen + 1
    /\ UNCHANGED <<elapsed, savedGen, savedHash, savedElapsed, failures, timers,
                   save, disk, bounds>>

(* Another list is played, from the UI thread, which saves too.            *)
ChangeQueue(q, i) ==
    /\ Idle
    /\ \A k \in DOMAIN q : q[k] \in present
    /\ NewQueue(q, i) /\ Changed({"queue"})
    /\ UNCHANGED <<setting, dirty>>

(* playlist_skip_entry: the audio thread drops an entry that does not open.*)
(* The index is kept as a number, but inside the list.                     *)
DropEntry(k) ==
    LET rest == RemoveAt(queue, k)
        last == IF rest = <<>> THEN 1 ELSE Len(rest)
    IN  /\ NewQueue(rest, IF index > last THEN last ELSE index)
        /\ Changed({"queue"})
        /\ UNCHANGED <<setting, dirty>>

(* The first place of the current track; if it is gone, the one it had.    *)
PlaceOf(q, t) ==
    LET k == SelectInSeq(q, LAMBDA e : e = t) IN IF k = 0 THEN index ELSE k

(* crazypod_usb_iap_set_shuffle and _set_repeat, from the thread that talks*)
(* to an accessory: the same tracks in another order, or the same order.   *)
(* The mode itself is one of the settings.                                 *)
Reorder(q, i) ==
    /\ Len(q) = Len(queue)
    /\ \A k \in DOMAIN q : q[k] \in present
    /\ \/ q = queue /\ i = index
       \/ q # <<>> /\ i = PlaceOf(q, queue[index])
    /\ NewQueue(q, i) /\ Changed(Kinds)
    /\ setting' \in SettingValues \ {setting} /\ dirty' = TRUE

(* The engine goes on to another track: the generation stays the same.     *)
MoveIndex(i) ==
    /\ i # index
    /\ index' = i /\ elapsed' = 0
    /\ UNCHANGED <<queue, gen, setting, saved, timers, save, disk, bounds, ghosts>>

(* A setting changes and its setter calls crazypod_state_mark_dirty: the   *)
(* UI thread, or an accessory that sets the volume.                        *)
ChangeSetting(v) ==
    /\ v # setting
    /\ setting' = v /\ dirty' = TRUE
    /\ Changed({"setting"})
    /\ UNCHANGED <<queue, index, gen, elapsed, savedGen, savedHash,
                   savedElapsed, failures, timers, save, disk, bounds>>

Play ==
    /\ elapsed' = 1 /\ elapsed = 0 /\ queue # <<>>
    /\ UNCHANGED <<queue, index, gen, setting, saved, timers, save, disk,
                   bounds, ghosts>>

(* crazypod_state_forget_resume, by the UI or the command thread: a track  *)
(* that plays keeps its own time.                                          *)
ForgetResume ==
    /\ elapsed' \in {0, elapsed} /\ savedElapsed' = 0 /\ dirty' = TRUE
    /\ UNCHANGED <<queue, index, gen, setting, savedGen, savedHash, failures,
                   timers, save, disk, bounds, ghosts>>

(* crazypod_state_take_resume_elapsed: the UI thread hands the time to the *)
(* engine, and until the track is open there is nothing to save.           *)
TakeResume ==
    /\ Idle
    /\ elapsed = 1 /\ elapsed' = 0
    /\ UNCHANGED <<queue, index, gen, setting, saved, timers, save, disk,
                   bounds, ghosts>>

Tick ==
    /\ sinceSave' = IF sinceSave <= Interval THEN sinceSave + 1 ELSE sinceSave
    /\ sinceTry' = IF sinceTry < MaxAge THEN sinceTry + 1 ELSE sinceTry
    /\ timers' # timers
    /\ UNCHANGED <<player, saved, save, disk, bounds, ghosts>>

-----------------------------------------------------------------------------
(* crazypod_state_save.                                                    *)

ToSave(hash, time) ==
    [queue |-> hash, index |-> index, setting |-> setting, elapsed |-> time]

(* The locals of a save are gone when it returns.                          *)
Return ==
    /\ pc' = "idle"
    /\ cursor' = 0 /\ copied' = <<>> /\ rec' = Null
    /\ late' = {} /\ moment' = {}

(* state_save_failed, at any disk operation.                               *)
Failed ==
    /\ faults < MaxFaults
    /\ faults' = faults + 1
    /\ Return
    /\ failures' = IF failures <= MaxRetryShift THEN failures + 1 ELSE failures
    /\ UNCHANGED <<player, dirty, savedGen, savedHash, savedElapsed, timers,
                   disk, crashes, unmarked, fileMoment>>

(* The record is filled in, with the hash of the list in queue.m3u8.  If   *)
(* that is no longer the queue, the position belongs to another list.      *)
FillIn(hash, time, stale) ==
    /\ pc' = "state"
    /\ cursor' = 0 /\ copied' = <<>> /\ rec' = ToSave(hash, time)
    /\ moment' = IF stale THEN {} ELSE {<<queue, index>>}

(* Up to the first disk operation.  The play time is read here; the rest   *)
(* of the record is filled in at once when queue.m3u8 is up to date.       *)
BeginSave ==
    /\ sinceTry' = 0
    /\ IF gen = savedGen
       THEN FillIn(savedHash, elapsed, "queue" \in unmarked)
       ELSE /\ pc' = "queue"
            /\ cursor' = 0 /\ copied' = <<>> /\ rec' = [Null EXCEPT !.elapsed = elapsed]
            /\ UNCHANGED moment
    /\ UNCHANGED <<player, saved, sinceSave, disk, bounds, late, unmarked, fileMoment>>

Unchanged == ~dirty /\ gen = savedGen /\ elapsed = savedElapsed

SaveNow(force) ==
    /\ Idle
    /\ IF ~force /\ Unchanged
       THEN /\ sinceSave' = 0
            /\ UNCHANGED <<player, saved, sinceTry, save, disk, bounds, ghosts>>
       ELSE BeginSave

Bug_CopySkips ==
    /\ pc = "queue" /\ cursor < Len(queue)
    /\ copied' = IF index = cursor + 1 THEN copied ELSE Append(copied, queue[cursor + 1])
    /\ cursor' = cursor + 1
    /\ UNCHANGED <<player, saved, timers, pc, rec, disk, bounds, ghosts>>

(* save_queue, one track at a time.                                        *)
CopyTrack ==
    /\ pc = "queue" /\ cursor < Len(queue)
    /\ copied' = Append(copied, queue[cursor + 1])
    /\ cursor' = cursor + 1
    /\ UNCHANGED <<player, saved, timers, pc, rec, disk, bounds, ghosts>>

Bug_QueueNotRenamed ==
    /\ pc = "queue" /\ cursor >= Len(queue)
    /\ savedHash' = copied /\ savedGen' = gen
    /\ unmarked' = (unmarked \ {"queue"}) \cup late
    /\ FillIn(copied, rec.elapsed, "queue" \in late)
    /\ UNCHANGED <<player, dirty, savedElapsed, failures, timers, disk, bounds,
                   late, fileMoment>>

(* The rename of save_queue; the generation is read after it.  A queue     *)
(* that changed while it was copied counts as saved.                       *)
PublishQueue ==
    /\ pc = "queue" /\ cursor >= Len(queue)
    /\ queueFile' = copied
    /\ savedHash' = copied /\ savedGen' = gen
    /\ unmarked' = (unmarked \ {"queue"}) \cup late
    /\ FillIn(copied, rec.elapsed, "queue" \in late)
    /\ UNCHANGED <<player, dirty, savedElapsed, failures, timers, stateFile,
                   present, bounds, late, fileMoment>>

(* The rename of state.bin.  The mark and the generation are taken over as *)
(* they are now, with what has changed since the record was filled in.     *)
PublishState ==
    /\ pc = "state"
    /\ stateFile' = rec /\ fileMoment' = moment
    /\ Return
    /\ failures' = 0 /\ dirty' = FALSE
    /\ savedElapsed' = rec.elapsed
    /\ savedGen' = gen /\ savedHash' = rec.queue
    /\ sinceSave' = 0
    /\ unmarked' = (unmarked \ {"setting"}) \cup late
    /\ UNCHANGED <<player, sinceTry, queueFile, present, bounds>>

SaveFails == pc \in {"queue", "state"} /\ Failed

-----------------------------------------------------------------------------
(* crazypod_state_tick and crazypod_state_wait_ticks, which the UI loop    *)
(* calls and sleeps for.                                                   *)

RetryShift ==
    LET shift == IF failures > 0 THEN failures - 1 ELSE 0
    IN  IF shift > MaxRetryShift THEN MaxRetryShift ELSE shift
RetryInterval == Interval * 2^RetryShift

Due == sinceSave > Interval /\ sinceTry > RetryInterval

Bug_TickIgnoresDirty ==
    /\ Idle /\ Due
    /\ sinceTry' = 0
    /\ UNCHANGED <<player, saved, sinceSave, save, disk, bounds, ghosts>>

StateTick ==
    /\ Idle /\ Due
    /\ \/ SaveNow(FALSE)
       \/ (* the disk sleeps and only the play time is newer               *)
          /\ ~dirty /\ gen = savedGen
          /\ sinceTry' = 0
          /\ UNCHANGED <<player, saved, sinceSave, save, disk, bounds, ghosts>>

Pending == dirty \/ gen # savedGen

Bug_WaitTicksSaveOnly ==
    IF sinceSave > Interval THEN 1 ELSE Interval - sinceSave + 1

(* The UI loop's wait while a save is pending.                             *)
WaitTicks ==
    LET deadline == IF RetryInterval - sinceTry > Interval - sinceSave
                    THEN RetryInterval - sinceTry ELSE Interval - sinceSave
    IN  IF 0 > deadline THEN 1 ELSE deadline + 1

-----------------------------------------------------------------------------
(* crazypod_state_load, after a loss of power.  Lines that name no file    *)
(* are dropped, and the position is used only for the very queue it was    *)
(* saved with.  The generation is only compared with the saved one, so it  *)
(* need not start again at 0.                                              *)

(* The entries of a list that name a file, in order: the n-th is the one   *)
(* with n such places up to its own.                                       *)
OnDisk(list, files) ==
    LET at == {k \in DOMAIN list : list[k] \in files}
        Place(n) == CHOOSE k \in at : Cardinality({j \in at : j <= k}) = n
    IN  [n \in 1 .. Cardinality(at) |-> list[Place(n)]]

RestoredQueue ==
    IF stateFile = Missing \/ queueFile = Missing THEN <<>>
    ELSE OnDisk(queueFile, present)

Bug_SameQueue == stateFile # Missing

SameQueue == stateFile # Missing /\ stateFile.queue = RestoredQueue

(* crazypod_queue_restore_finish replaces an index outside the queue.      *)
RestoredIndex ==
    IF SameQueue /\ stateFile.index \in DOMAIN RestoredQueue
    THEN stateFile.index ELSE 1
RestoredElapsed == IF SameQueue THEN stateFile.elapsed ELSE 0
RestoredSetting == IF stateFile = Missing THEN Default ELSE stateFile.setting

Reboot(files) ==
    /\ crashes < MaxCrashes
    /\ crashes' = crashes + 1
    /\ present' = files
    /\ UNCHANGED <<queueFile, stateFile, faults>>
    /\ queue' = RestoredQueue' /\ index' = RestoredIndex'
    /\ elapsed' = RestoredElapsed' /\ setting' = RestoredSetting'
    /\ gen' = gen /\ savedGen' = gen /\ savedHash' = RestoredQueue'
    /\ savedElapsed' = RestoredElapsed' /\ dirty' = FALSE /\ failures' = 0
    /\ sinceSave' = 0 /\ sinceTry' = 0
    /\ Return /\ UNCHANGED fileMoment
    /\ unmarked' = IF stateFile = Missing /\ queueFile # Missing
                   THEN {"queue"} ELSE {}

Next ==
    \/ \E q \in Queues : \E i \in {1} \cup DOMAIN q : ChangeQueue(q, i)
    \/ \E q \in Queues \cup {queue} : \E i \in {1} \cup DOMAIN q : Reorder(q, i)
    \/ \E k \in DOMAIN queue : DropEntry(k)
    \/ \E i \in DOMAIN queue : MoveIndex(i)
    \/ \E v \in SettingValues : ChangeSetting(v)
    \/ Play \/ ForgetResume \/ TakeResume \/ Tick
    \/ \E force \in BOOLEAN : SaveNow(force)
    \/ CopyTrack \/ PublishQueue \/ PublishState \/ SaveFails
    \/ StateTick
    \/ \E files \in SUBSET Tracks : Reboot(files)

Spec == Init /\ [][Next]_vars

(* Time passes, the UI loop runs state_tick when it is due, and the disk   *)
(* finishes what it was asked.                                             *)
Fairness ==
    /\ WF_vars(Tick) /\ WF_vars(StateTick)
    /\ WF_vars(CopyTrack) /\ WF_vars(PublishQueue) /\ WF_vars(PublishState)
LiveSpec == Spec /\ Fairness

-----------------------------------------------------------------------------
(* No change is forgotten: once there is a record, whenever nothing is     *)
(* marked for saving, a loss of power right now would bring back the same  *)
(* settings and the same queue.  Excepted is, until the next save of its   *)
(* kind, what another thread changed after that save had read it.          *)
NothingForgotten ==
    Idle /\ ~Pending =>
        /\ "setting" \notin unmarked => RestoredSetting = setting
        /\ "queue" \notin unmarked /\ stateFile # Missing => RestoredQueue = queue

(* The same without exception, as the comment in crazypod_state_tick has   *)
(* it: "Dirty settings and queue changes still save immediately".          *)
ChangesSaved ==
    Idle /\ ~Pending /\ stateFile # Missing =>
        RestoredSetting = setting /\ RestoredQueue = queue

(* A save is complete: when nothing is marked for saving, the record on    *)
(* the disk is about the queue on the disk, and a boot would use its       *)
(* position.                                                               *)
PositionKept == Idle /\ ~Pending => SameQueue

(* A resume position is never applied to another queue: a boot brings back *)
(* the queue and the position that the player was in when the record was   *)
(* filled in, or starts its queue from the beginning.  Excepted is a       *)
(* record that was filled in with the list of an earlier moment, after a   *)
(* change that came too late.                                              *)
ResumeSafe ==
    \/ RestoredIndex = 1 /\ RestoredElapsed = 0
    \/ <<RestoredQueue, RestoredIndex>> \in fileMoment
    \/ fileMoment = {}

(* The UI loop does not oversleep or spin: after the wait it was told, the *)
(* pending save is due, and it is not due before.                          *)
WaitMeetsDue ==
    Idle /\ Pending =>
        /\ sinceSave + WaitTicks > Interval
        /\ sinceTry + WaitTicks > RetryInterval
        /\ ~Due => ~ (/\ sinceSave + WaitTicks - 1 > Interval
                      /\ sinceTry + WaitTicks - 1 > RetryInterval)

(* A change that is marked gets its save, however often the disk fails     *)
(* before it recovers.                                                     *)
DirtyIsSaved == dirty ~> ~dirty
=============================================================================
