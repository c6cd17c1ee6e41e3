# CrazyPod in TLA+

CrazyPod is a firmware for the iPod Classic built on Rockbox: one core, a
cooperative scheduler, a hard disk or flash card that can lose power at any
time, and a user interface (`apps/crazypod`) over the playback engine (`apps/playback.c`)
and the kernel (`firmware/kernel`). This directory holds TLA+ models of the
parts whose correctness depends on the order of things, the TLC runs that check them, and
proofs checked by TLAPS.

Paths below are relative to the root of the repository. The mapping of every
definition to source lines, the list of hazards and the findings are in
`PROJECT.json`.

## 1. What the system consists of

**Execution.** There is one core. Threads switch only where they block
(`switch_thread`, a wait, a mutex that is taken, a disk operation); a section
with interrupts disabled is atomic. One action of a model is the code between two such points.

| Part | State it keeps | Operations | Talks to | What is hard |
|---|---|---|---|---|
| Event queues, `kernel/queue.c` | ring of events with free-running counters, sender of each slot, the sender being served, waiting list | post, send, wait with or without timeout, reply, peek/remove, clear, delete | every thread and interrupt handler | wakeups and timeouts that race, messages that vanish before the woken owner runs, overflow, who releases a blocked sender |
| Checkpoint, `crazypod_state.c` | settings, resume time, dirty flag, generation and hash of the queue last saved, failure count, two files | load, save, tick, wait time, mark dirty, forget/take resume | queue (copied track by track), engine (play time), accessory thread (changes settings) | power loss between two files, failing disk, changes during a save, retry timing |
| Mini app installer, `miniapps/installer` | installed, staged and backup directories, package index (disk and memory), catalog | boot recovery, scan step by step, install, skip, publish, roll back | runtime controller of the UI (drives the scan), catalog loader | power loss and failure between the renames, stale index and catalog |
| Play queue, `crazypod_playlist.c` | paths in playing and in original order, position, shuffle, repeat, generation | peek, check, next, skip entry, replace, insert, remove, shuffle, repeat, restore | engine (audio thread), UI, accessory, checkpoint | position and look-ahead in two modes, used by two threads |
| Playback engine, `playback.c`, `audio_thread.c` | buffered tracks and the current one, track in loading, look-ahead offset, pending skip, remembered completion, fill state | play, stop, pause, skip, seek, load, rebuffer, codec complete, track changed, end of playlist | buffering, codec and PCM threads (messages), play queue, UI (synchronous and posted commands) | display, queue, track list and codec are at different tracks during a change; commands in the middle of one; bad files |
| Playback commands, `ui/app/crazypod_playback.c` | command queue, requested position and state, the lock screen's copy of the track | next, previous or restart, select, toggle, stop, asynchronously | UI and accessory (press), command thread (carries out), engine events (take the request back) | a request that outlives what it asked for, two presses under way |
| Locks, `kernel/mutex.c`, `mrsw_lock.c` | owner, recursion, readers, waiting queue | lock, unlock, read and write lock, also nested | scheduler, file system, streams | ownership is handed over before the new owner runs; readers and writers in one queue |
| Semaphore, `kernel/semaphore.c` | count, waiting list | wait with or without timeout, release | drivers, interrupt handlers | a timeout that races a release |
| Priority inheritance, `kernel/thread.c` | priority and histogram of each thread, recorded priority of each object, counts of runnable threads | block, wake with transfer or release, set priority | every lock and synchronous queue | a boost that has to follow a chain of owners, and to be taken back exactly |
| Mini app storage, file system | documents, directory entries | replace with backup, rename | apps, installer, checkpoint | crash between two renames, two names for one file |
| USB and exclusive storage, `firmware/usb.c`, `usbstack/usb_core.c` | sequence number, acknowledgements expected, requested/enabled flags | broadcast, acknowledge, unmount, release | host, prompt of the UI, audio thread, UI, every thread with a queue | acknowledgements of an older broadcast, queues cleared with a broadcast in them |
| Buffering, PCM, codec thread | ring of handles, chunks of PCM, the codec | fill, rebuffer, decode, mark the end of a track | engine | space arithmetic, notifications that arrive after a stop |
| UI, library, books, photos, videos, Game Boy, drivers | screens, caches, decoders | | | data and layout rather than order |

What makes each of them correct:

- *Queues*: messages arrive in order and at most once; a blocked sender returns
  exactly when its own message is over; no wakeup is lost; a timeout is not early.
- *Checkpoint*: what is not marked for saving is on the disk; a resume position
  belongs to the queue it is used with; what is dirty is saved in the end.
- *Installer*: at any moment there is one complete copy of the app, old or new; versions do not go down;
  nothing is left behind; the catalog tells the truth; a scan ends.
- *Locks and semaphore*: a writer is alone; who waits is served in order and in the end; no thread
  sleeps at an open lock; a signal is neither lost nor counted twice.
- *Priorities*: nobody waits for a thread of lower priority; no boost is left behind.
- *USB*: while the host has the disk, nobody in the player uses it; a request is granted; after the release everyone goes on.
- *Playback commands*: a request is met or taken back, so that the next press counts from the right
  entry; the lock screen shows what is heard.
- *Queue and engine*: what sounds is the queue's entry; what is buffered comes
  next; the engine neither hangs nor falls silent; a queue comes to its end.

## 2. The models

| Module | Models |
|---|---|
| `KernelQueue` | one event queue with its ring, sender map, waiting list, owner, posters, senders, tick |
| `MessageQueue` | the promise of a queue: a sequence of messages, no ring, no waiting list |
| `KernelQueueProofs` | theorems about `KernelQueue`, last that it implements `MessageQueue` |
| `StateSave` | the checkpoint with its two files, power loss, failing disk, other threads |
| `StateSaveProofs` | theorems about `StateSave` |
| `MiniappInstall` | scan, installation and recovery of one app id on three directories |
| `AtomicInstall` | the promise of the installer: the app is replaced in one step and never by a lower version |
| `MiniappInstallProofs` | theorems about `MiniappInstall` |
| `PlayQueue` | the play queue as operators on a record |
| `TrackEngine` | the audio thread's handlers over `PlayQueue`, the threads that report to it, and the UI |
| `TrackEngineProofs` | theorems about `TrackEngine`, after lemmas about what the operators of `PlayQueue` return |
| `PlaybackCommands` | presses, command thread and the lock screen's copy, composed with `TrackEngine` |
| `PlaybackCommandsProofs` | theorems about `PlaybackCommands`, over `TrackEngineProofs` |
| `KernelLock` | mutexes and readers/writer locks, any number of them, nested |
| `FairLock` | the promise of such a lock: a line that nobody passes |
| `KernelLockProofs` | theorems about `KernelLock`, last that it implements `FairLock` |
| `KernelSemaphore` | a semaphore used by threads that also take `KernelLock`'s locks |
| `CountedSignals` | the promise of a semaphore: signals are kept or given to the first in line |
| `KernelSemaphoreProofs` | theorems about `KernelSemaphore`, over those of `KernelLockProofs` |
| `PriorityInherit` | the priority records of `thread.c` over `KernelLock` and synchronous queues |
| `UsbExclusive` | the hand-over of the disk: USB thread, host, cable, user, audio thread, UI, photo worker |
| `UsbExclusiveProofs` | theorems about `UsbExclusive` |
| `MC...` | values of the constants for TLC |

### KernelQueue

`rd`, `wr`, `events`, `senders`, `currSender`, `send` are the fields of `struct
event_queue` and its `queue_sender_list`. `pc` and `linked` are the owner's
scheduling state: *blocked* or *ready* in a wait, and whether it is on the
queue's waiting list; a thread whose timeout has expired is ready and still
linked, which is how the code tells a timeout from a wakeup. A wait is
`WaitStart` (up to `switch_thread`) and `WaitResume` (after it, possibly back to
blocking); `Tick` and `Expire` are the tick and the scheduler's check of
timeouts. `QueuePeekEx` has a parameter for the filter, the event found and
whether it is returned. The payload of an event is its own number, so that the
receiver can be compared with the sender; the ghost `sent` is the number of the
event a thread sent last.

Three constants say how a queue is used: `Overflow` (a writer writes
to a full ring, as a release build lets it), `MidRemoval` (an event is removed from behind the
head) and `ForeignPeek` (another thread removes events). Counters are unbounded
in the model; the ring's length divides 2^32, so a slot does not notice the wrap.

### StateSave

Every action of a save is the code between two disk operations: `BeginSave`,
one `CopyTrack` per queue entry, `PublishQueue` (the rename of `queue.m3u8`),
`PublishState` (the rename of `state.bin`), and `SaveFails` at each of them. Between them other threads
run: the engine goes on (`MoveIndex`, `Play`) and drops entries that do not open (`DropEntry`, `playlist_skip_entry`), an
accessory sets volume, shuffle and repeat (`ChangeSetting`, `Reorder`), the command thread forgets the resume
time. A list is replaced (`ChangeQueue`) and a restored time handed over (`TakeResume`) only by the UI thread, and so not in a save. `Reboot` is the loss of power and the next load, with any subset of the music
files still there; a player starts without files or with those of an earlier save. A temporary file is never read, so only what a rename has published is
state. The hash of the queue is the queue itself (no collisions). All settings are one value. Time is counted
in units of the save interval, with the two distances the code compares.

A change that comes after a save has read what it is about is taken for saved when the save ends (section 4). The properties
are to say what is kept all the same, and for this there are ghosts: `late` has the kinds of state
that have changed too late for the save under way, `unmarked` those that a finished save has
missed, until the next save of that kind; `moment` and `fileMoment` are queue and position of the player
when the record (and the one on the disk) was filled in, or nothing if the list it names was not the queue then.

### MiniappInstall

One action per disk operation of `crazypod_miniapp_stage.c`, one per
decision of the scan. `final`, `stage` and `backup` are the three directories;
each is absent, whole or partial (half filled or half removed, since a tree is removed
in several operations). `task` says which pass of the recovery runs.
`Fault` is a failing operation, `Crash` the loss of power in any state. The checks of a
package before it is unpacked are one choice, `Reject`; one that turns out bad while it is unpacked is
`BadPackage`, which costs no fault. `rename` is atomic. The limits of the code on
leftovers in one recovery (64) and entries in a removed directory (32) are not reached with one app; a
directory that cannot be opened in a recovery is one of the faults.

### PlayQueue and TrackEngine

The engine's variables are one record, and a handler of the audio thread is a
function of records: `OnPlay` is `audio_start_playback`, `OnSkip` is
`audio_on_skip`, and so on, down to `LoadTrack`, `FinishLoad`, `Rebuffer`,
`Halt` and `Finalise`. `Handle` is the set of records that the handler of a
message may leave, and one action, `TakeMessage`, applies it to the first
message. The others are the notifications of the buffering, codec and PCM
threads and the UI thread's commands, synchronous ones with a state `ui` in which it waits. A
track is one entry of the buffer, whose metadata is read by another thread
first; files are fine, missing, or there and unreadable.

`Replaced` is `queue_replace`, with and without the forced shuffle.

Approximations that add behaviour: the notifications *buffer
low* and *last handle finished* may take effect whenever their handlers would accept
them, without a message in between; the room in the buffer is a choice for each
track, above a fixed maximum of entries; a codec that fails to start is one
that completes at once, whichever of the three places starts it; where the loader finds out by itself that the last track is
completely in the buffer (`playback.c:2262`), the model says "end" and lets *last handle finished* follow.

Approximations that leave something out: a handler is one step, also `OnPlay`, which replies to the UI thread
before it fills the buffer (`playback.c:3177`), so that what the UI thread does during its waits for the disk comes before
or after the handler; and the only track of the buffer always has room for its cue sheet and album art (`playback.c:2375`).

`RoughSpots` names three things the engine is not built for and lets a run
include them: `"reorder"` (shuffle or repeat change while it runs), `"wrap"` (a
repeating queue with broken files) and `"seek"` (a seek when files are broken).
With any of them some property below fails. `engine_plays` leaves them out and
so shows what holds without them; `engine_wrap` shows the second.

### PlaybackCommands

It extends `TrackEngine`; the engine's handlers are used as they are, and the variables of
`crazypod_playback.c` are added: `asked` is the command queue, `request` and `wanted` are
`requested_queue_index` and `requested_playing`, `shown` is the copy the lock screen
draws. A press is one action (what the calling thread does under its lock and then
posts); `TakeCommand` is the command thread, which is in the place of `TrackEngine`'s UI thread
(`ui`, `doing`); the handlers of the engine's events run in the step that sends them. Time is not
kept: whether a track is past the five seconds after which *previous* restarts it is a choice at the two places
that look, the press (by the clock of the lock screen's copy) and the command (by the engine's time).
`overtaken` is a ghost: it records that one of six things came between a request and
its track, and is forgotten when everything is quiet and the request is gone.

### KernelLock and FairLock

A call up to its `switch_thread` is one step, since no other thread runs before. `owner`,
`mask`, `count`, `depth` and `queue` are the fields of the two structures; `held` is what the
calls have told their callers, and so what a critical section relies on: it is the ghost that
mutual exclusion is about. The callers' discipline is in `MayAsk`: locks are
nested in one order (`Rank`) and a thread that has a lock for reading does not ask to write.
`state` has *sleeping*, so that a critical section may be interrupted by other threads, and
*parked* for a thread that waits on something that is not a lock. A reader's release that wakes
several readers is one step, as in the code. `FairLock` has a set of those inside and a
line, nothing else, and `FairLocks` maps the structures to it.

### KernelSemaphore and CountedSignals

`call` says where a thread is in `semaphore_wait`; *late* is the point between the look at the list
(`semaphore.c:72`) and `disable_irq` (line 75). No other thread runs there, but an interrupt handler may, and so
`SemaphoreRelease` can come at any moment. A thread that is taken off the list just there answers that it timed out and its
signal is wasted; `CountedSignals` has this as a step of its own, `TooLate`, so that everything else is still held
to the promise. A thread in possession of a lock waits with a timeout, as the
disk drivers do.

### PriorityInherit

The records of `thread.c` are passed through the operators as one record `S` and written back with
`Become`, one operator for each function (`Inherit`, `Disinherit`, `Walk` = `inherit_priority`, and the four ways
to block or wake). `Walk` goes from owner to owner and is recursive. The ports are queues
with `queue_enable_queue_send`, whose sender lends its priority to the owner until the reply.
`MaxChanged` bounds how many threads have been given another priority at a time.

### UsbExclusive

One action is one message taken by one thread. The listeners of the broadcast are the audio thread, the
UI and the backlight thread (for all that answer at once); the photo worker has no queue
and is stopped by the UI. A video is opened with a hard stop of the music, a synchronous message behind what is in the audio
thread's queue, which clears the queue like the stop for the host (`AudioCleared`); the Game Boy does the same and is not
modelled apart. The user's answer to the prompt may come in time or too late. `cleared` is a ghost: some thread has cleared its queue
with a broadcast in it. `MaxPlugs` bounds how often the cable goes in, `MaxConfigs` how
often the host sets a configuration.

## 3. Runs

Bounds are the constants of the `.cfg` files.

| Run | Question | Result |
|---|---|---|
| `queue_owned` | two senders, two ids, a ring of two, four writes, timeouts up to two ticks, used by the owner and removed from at the head | no lost wakeup, no early timeout, no sender lost track of, every send returns; implements `MessageQueue`, where a sender returns only when its message is over |
| `state_kept` | two tracks, three queues, two changes of the queue and any of the settings between saves and during one, one failure, one power loss, with and without files of an earlier save | nothing is forgotten and a position is never used with another queue, but for what changed too late for a save |
| `state_live` | two failures with backoff | the UI loop wakes exactly when the save is due; what is dirty is saved |
| `install_kept` | three packages (versions 1, 2 and another build of 2), three scans, one failure, two power losses | atomic replacement, nothing left, catalog true, what was scanned is delivered, every scan ends |
| `engine_plays` | three tracks, one of them possibly missing or unreadable, room for two, repeat off and all, two commands at any moment | what is heard is the queue's entry, the buffer is in order, the engine is never comatose, a queue that does not repeat ends |
| `engine_wrap` | Repeat All with a missing file | **violated**: the loading loop does not end |
| `commands_run` | two presses of any kind at any moment on a queue of three tracks, stopped or just started | the lock screen tells the truth when all is quiet; a request is met unless it was overtaken in one of the six ways |
| `locks_live` | three threads, the file system's readers/writer lock, a semaphore two of them wait on, with timeouts, released by threads and interrupts at any moment | the lock implements `FairLock`, the semaphore `CountedSignals`; nobody is forgotten or parked for ever; who waits for the lock gets it; a wait with a timeout ends |
| `priority_boost` | three threads of different priority, a readers/writer lock with a mutex under it, a synchronous queue, one changed priority | writers are alone, the assertions of both lock files hold, boosts and the scheduler's counts are exact |
| `priority_chain` | a fourth thread, the two locks | **violated**: a thread is waited for by one of higher priority |
| `usb_lent` | the cable in twice, two configurations, music, video (with its hard stop) and photos at any moment | the host is alone with the disk; acknowledgements are never undercounted; a request is granted unless a queue was cleared under it |
| `usb_back` | the cable in once | **violated**: the audio thread is not told that the disk is back |

Why the bounds are enough: a ring of two slots has a head, a slot behind it, a
full state and reuse of every slot within four writes. Two queues that
share a track at different positions are what it takes to apply a position wrongly, and one
failure or power loss separates the two files; two changes put one before a save and one into it, or both into two copies. Two packages make an update or a downgrade, and a third
with the same version tells contents from version; two power losses let one
strike during the recovery from the other. Room for two tracks out of three
makes the buffer full, refilled and left behind; two commands fit a second skip, or a pause and
a skip, into the middle of a change. The same model has also been checked with three commands
(`MaxCommands = 3`, 1,921,477 states), with the same result.

Three threads make a line behind an owner, and a reader behind a writer behind a reader; one nested pair and one port
give an owner that waits itself; the chain that loses a boost needs four. Two configurations are what it takes for an
acknowledgement to be of an older broadcast, two plugs for a broadcast to be left over from an
earlier session. Two presses are enough for each of the six ways to overtake a request: without any one of them
`RequestMet` fails in this run. `PressesServed` (every press is carried out) was checked apart, under
`CommandsLive`.

The runs with `CHECK_DEADLOCK FALSE` are of systems that may stop: a deleted queue
or one whose bound on writes is used up, an installer without further scans, an engine that has
been stopped, a device whose listener has no presses left, a host that is done. In `StateSave` the time always goes on or a step is possible, and deadlock is checked.

### Fairness

- `KernelQueue`: the owner keeps coming back to its wait and is scheduled when
  ready; that is the loop every queue owner in the firmware is. Nothing is
  assumed of posters, senders, or replies: `SendReturns` relies on the wait's automatic reply.
- `StateSave`: time passes, the UI loop calls `crazypod_state_tick` when it is due (its wait
  is bounded by `crazypod_state_wait_ticks`), and the disk finishes what it is asked. Nothing is assumed
  of failures: their number is bounded.
- `MiniappInstall`: the installer goes on, and `remove_tree`, which removes something with
  every step, comes to an end.
- `KernelSemaphore`: sleeps and timeouts end with the tick (weak fairness of `Wake`, `Expire`); the scheduler ages the threads
  it passes over, so that a thread which can run again and again does run and
  comes to the end of its critical section (strong fairness of `Resume` and of giving back). Nobody has to
  release the semaphore: `WaitEnds` is about the timeout.
- `UsbExclusive`: every thread takes its messages and ends what it does with one, the prompt is answered or times out.
  Nothing is assumed of the host, the cable, the user, or how long a picture takes to be asked for.
- `PlaybackCommands`: the engine's, and that the command thread runs (`CommandsLive`; `commands_run` is about safety and
  has none).
- `TrackEngine`: the audio thread takes its messages, buffering and codec come to the end of
  what they do, PCM plays out while not paused. Nothing is assumed of
  the listener, of *buffer low* or of rebuffering requests. The first of these is written as
  `[]<>` formulas because TLC is slow at `ENABLED` of the handlers.

## 4. Findings

With a run that shows them:

1. `playback.c:2218`: the loop over missing files does not end under Repeat All (`engine_wrap`).
2. `thread.c:596`: a boost that is passed on past a thread which already has a higher priority replaces the record of the
   next object, and the thread at the end of the chain drops below one that waits for it (`priority_chain`).
3. `playback.c:3677`: the end of the fade-out clears the audio queue, the announcement that the disk is back
   with it (`usb_back`).

The rest are places where a property of this directory stops holding when a constant or a bound of the run is changed as
given:

| Source | What happens | Change |
|---|---|---|
| `queue.c:617` | removal from behind the head copies a sender reference and leaves the original: a sender returns while its message is pending | `MidRemoval = TRUE`, `ImplementsPromise` |
| `queue.c:608` | another thread removes an event: a blocked sender nobody can release | `ForeignPeek = TRUE`, `SenderTracked` |
| `semaphore.c:72-89` | a release by an interrupt handler between the look and `disable_irq` is lost | in the models: without `TooLate` in `CountedSignals`, `SignalsKept` fails |
| `crazypod_state.c:1570` | the queue counts as saved before `state.bin` is | `PositionKept` as an invariant of `state_kept` |
| `crazypod_state.c:1647` | the mark is cleared and the generation taken over with the changes made since the record was filled in, against "Dirty settings and queue changes still save immediately" (`crazypod_state.c:1664`); they stay unsaved until the next change of that kind | `ChangesSaved` in place of `NothingForgotten`: a setting changed between the record and its rename |
| `crazypod_state.c:1511` | a queue that changes while it is copied is saved as a mixture, with a position of its own, and counts as saved | `ResumeSafe` without its last disjunct |
| `crazypod_state.c:1549` | the play time is read before the queue is copied, the position after it: the record may have the time of one track with the position of another | read in `BeginSave` and `FillIn`; no property of it |
| `crazypod_state.c:1360` | power lost in the very first save leaves a queue that no boot reads | `NothingForgotten` without `stateFile # Missing` |
| `crazypod_miniapp_stage.c:244` | with two failing operations an app may be downgraded, against "`versionCode` only increases" (`docs/CRAZYPOD_MINIAPP_NATIVE_AOT_DEVELOPMENT.zh-CN.md:219`) | `MaxFaults = 2`, `ImplementsAtomic` |
| `crazypod_playlist.c:226` | the look-ahead does not know Repeat One, the following track is played | `Modes = {"one"}`, `HeardIsCurrent` |
| `crazypod_now_playing_overlay.c:1423` | shuffle or repeat changed during playback leaves the buffered tracks of the old order | `RoughSpots = {"reorder"}` |
| `playback.c:1287` | a seek takes back the only message that would have ended a queue whose last file is bad | `RoughSpots = {"seek"}` |
| `crazypod_playlist.c:246` | *next* on the last track under Repeat All is dropped: the check does not wrap, the request (`crazypod_playback.c:599`) does, and stays | `Modes = {"all"}`, `RequestMet` |
| `crazypod_playlist.c:335` | a selection moves the position before the audio thread has handled a skip: it plays one too far | one of the six ways of `Overtaking` |
| `crazypod_playback.c:242` | a request that was overtaken stays, and *previous* counts from it and is ignored at the start of the queue | `PreviousHonoured` |
| `crazypod_playback.c:640` | *play* from the remote control of a device that is stopped posts a resume, which a stopped engine ignores | read in `TakeCommand` |

## 5. Proofs

`KernelQueueProofs` proves, for any number of senders and ids, any ring length, any
timeout and any number of events:

- `TypeCorrect`: `Spec => []TypeOK`. The lemmas follow the structure of the model: one
  for each helper that ends a wait or writes an event, one for each action, then `TypeStep`.
- `WakeupNotLost`: `Spec => []NoLostWakeup`. Inductive with `TypeOK`. The point is that every writer
  unlinks the owner in the very step that makes the queue non-empty, and the owner links itself
  only when it has found the queue empty with interrupts disabled.
- `WaitsItsTime`: `Spec => TimeoutNotEarly`. An owner that is ready and *linked* was made so by
  `Expire`, so that its time is over; one that is ready and unlinked was woken, and `WaitResume`
  compares the time itself before it gives up. This is the strengthening (`TimedOutStep`)
  that makes the action property inductive.
- `NobodyLeftBehind`: `Spec => []SenderTracked`, assuming `~MidRemoval` and `~ForeignPeek`; `Overflow`
  is allowed. `SenderTracked` alone is not inductive: a wait that resumes overwrites `currSender`. The
  strengthening `TrackInv` adds that there is no current sender while the owner is inside a
  wait. The two assumptions cannot be dropped: with `ForeignPeek` there is a counterexample without the second,
  and the first excludes the doubled references of `MidRemoval`.

It proves two more, assuming `~Overflow`, `~MidRemoval` and `~ForeignPeek`:

- `QueueKeepsPromise`: `Spec => ImplementsPromise`. Each action is one step of `MessageQueue` or a stutter. `SlotsApart` (two
  counters less than a round apart name two slots) gives `ContentsGrow` and `ContentsShrink`: a write is an append to
  the pending messages, the end of a wait is their tail. The invariant `RingInv` says that the ring is not overrun, that a free
  slot keeps no sender, and that there is none before sending is enabled; without the second a post would release somebody
  whose message is not in the ring.
- `SendersWaitTheirTurn`: `Spec => []HandledBeforeReturn`. The strengthening `SentInv` ties an event's number to its place, a pending
  message to the one slot that holds its blocked sender, and puts the message that is being served before the read counter.

`KernelLockProofs` proves, for any threads, any locks of both kinds, any order of nesting and any depth of recursion:

- `LocksTyped`: `Spec => []TypeOK`.
- `WritersAlone`: a thread that was told it may write is alone (`Exclusion`).
- `AssertionsHold`: the assertions of `mutex.c`, `mrsw_lock.c` and `wakeup_thread_transfer` never fire (`AssertsHold`).
- `NobodyLeftInLine`: a thread is blocked exactly if it stands in one queue, once; no queue is left at an
  open lock; behind readers the first to wait is a writer (`NobodyForgotten`).

All four follow from one invariant, `LockInv`: the types; for every lock, that its
fields and what the callers were told say the same (`MutexKept` for a mutex; `WriterKept`, `ReadersKept` and `WaitersKept`
for the other kind); and `QueuesKept`, that a queue holds blocked threads only, each once and in
one queue. None of the four is inductive alone: `Exclusion` is about `held`, which only the fields constrain, and a
transfer is right only because the head of the queue is a blocked thread that holds
nothing there. The proof has a lemma for each action and one for each way a
lock changes hands; an action of one lock leaves the invariant of the others alone (a frame lemma), so that
only the lock it is about is looked at.

It also proves `LocksAreFair`: `Spec => FairLocks`, with the same generality. `FairLocks` maps a lock to the set of those inside
and the line, each with what it asks for. Joining the line, getting in and leaving are then single steps of `FairLock`; a recursive call and
a sleep are stutters. The hard case is a release: `FairLock` lets in exactly the longest front of the line that fits, and the
code finds it by looking at the head and, behind a writer that leaves, waking readers up to the first writer. The lemma `FrontIs` says
that this front is determined by whom it lets in and whom it stops at; one lemma for each way a lock changes hands
(`NobodyMovedIn`, `FirstMovedIn`, `ReadersMovedIn`) then shows that the code's choice is that front. `LockInv` is needed for it: what is inside
follows from the fields only by `MutexKept`, `WriterKept`, `ReadersKept` and `WaitersKept`.

`KernelSemaphoreProofs` proves, for any threads and locks and any limit of the count:

- `SemaTyped`: `SemaSpec => []SemaTypeOK`.
- `NobodyLeftParked`: no thread sleeps on a semaphore that has a signal (`NobodyParked`).
- `SemaLocksRemember`: `NobodyForgotten` also holds of locks whose users park, time out and sleep inside critical sections.
- `SemaLocksFair`: so does `FairLocks`, because only a step of a lock touches what it is about.
- `SignalsCounted`: the semaphore implements `CountedSignals` (`SignalsKept`), whoever releases it and when. A thread that is late is the one
  that `CountedSignals` calls expired: still in line it gives up or is too late, and no other signal is lost.

The invariant `SemaInv` is `LockInv` and `WaitKept`: the list holds each waiting thread once, its members are those whose `call` says
so, and it is empty unless the count is zero. A step of the semaphore keeps `LockInv` because a parked thread stands in no lock's queue.

`MiniappInstallProofs` proves, for any packages and versions and any number of scans and power losses:

- `InstallTyped`, `NeverHalfInstalled` (what is installed is complete) and `NothingLeftOver` (`NoLeftovers`), for any number of failing
  operations.
- `WhatWasSeenIsDelivered` (`Delivered`), `CatalogIsTold` (`CatalogTrue`) and `InstallIsAtomic` (`ImplementsAtomic`), assuming that at
  most one operation fails. With two they do not hold (section 4). Bad packages are not counted.

`InstallInv` says where the whole copy of the app is at each `pc` (`DirsKept`), and how many operations must have failed for it to be
in the backup where nothing looks for it (`FaultsKept`): that is what makes one failure harmless. `AtomicInv` adds
that the catalog agrees with the app wherever the installer decides by it, that the package in hand is at least as new as the app, and that
the index never knows a package by less than its own version. Every action but `Publish` leaves the app as it is (`AppStays`), and
`Publish` is a step of `AtomicInstall`.

`UsbExclusiveProofs` proves `HostIsAlone`: `Spec => []HostAlone`, for any number of plugs and configurations. A message counts
neither for whom it speaks nor whether it is late, so the count alone proves nothing. `HandInv` says that what is expected covers the
answers to the current request still in the queue and everybody who is not done with it (`CallCounted`); that the current broadcast is
the last in a thread's queue and no release follows it, so that nobody answers twice or comes back (`CallLast`); that no message
carries a number ahead of `seqnum`, which keeps late answers apart (`NumbersPast`); that the disk is away exactly from the last answer
to the mount (`DiskKept`); and that nobody has come back, or been called back, while it is (`AllAway`). A step of a listener keeps the count because its
answer moves from one side of the sum to the other; one lemma (`MineKeeps`) does this for all of them.

`HandTyped` (`Spec => []TypeOK`) and `Undercounted` (`Spec => []NeverUndercounted`) come from the same module. `AnswersInv`
(theorem `AnswersKept`) makes the count explicit where `HandInv` only says that it covers: the copies of the current
broadcast that still wait in queues, the listeners at work on one, and the answers on the way to the USB thread are together at
most what is expected. Each listener's step moves one unit from one summand to the next.

`StateSaveProofs` proves, for any queues and settings, any number of changes between saves and during them, failing disk operations and power
losses, and also of a new player:

- `CheckpointTyped`: `Spec => []TypeOK`.
- `NothingIsForgotten`: `Spec => []NothingForgotten`.
- `ResumesRightly`: `Spec => []ResumeSafe`.
- `WaitIsExact`: `Spec => []WaitMeetsDue`.

The properties speak of the moments between two saves; `SaveInv` says what is true inside one. Unless the queue has changed too late, the copy is the beginning
of the queue (`CopyKept`), and once the record is filled in the generation is still the one taken over. The record that is about to be published is about the list that was just published and the
position that the player had in it, if that list was the queue then (`RecordKept`, `Taken`). Equal generations mean that the remembered hash is the
queue's, unless a queue was missed (`HashKept`); this is where the exceptions come from, and `unmarked` is needed because a save that finds the generations equal writes no
queue at all. `FilesKept` is about the disk alone. Two lemmas about `OnDisk` carry the boot: what it returns is a list of tracks that are
there (`PlaceExists`: the ranks of n places are exactly 1 to n, by counting), and it is the whole list when none is
missing. This is why `OnDisk` counts places where it could select recursively.

The first part of `TrackEngineProofs` are lemmas about the queue's operators: a position stays in the queue, both orders stay equally long, an entry that is
removed moves nothing in front of it, shuffling finds the current entry again, and what `Peek` finds: `PeekShift` says that moving the
position by n moves what is seen from it by n, and `SkipEntryPeek` that taking out a missing file ahead leaves everything in front of it where it is.

With these `TrackEngineProofs` proves `EngineTyped`: `Spec => []TypeOK`, for any queues, files and modes, for every set of `RoughSpots` and any number of
commands; and, assuming `Calm` (`RoughSpots = {}` and no mode but "off" and "all", as in `engine_plays`):

- `EngineHeard`: `Spec => []HeardIsCurrent`.
- `EngineBuffered`: `Spec => []BufferedInOrder`.
- `EngineAwake`: `Spec => []NotComatose`.
- `EngineLoads`: `Spec => []LoadEnds`, the property that `engine_wrap` refutes where a queue with broken files repeats.

`Calm` cannot be dropped: every rough spot breaks one of these, and so does Repeat One (section 4).

The inductive invariant `Inv` has three layers.

- `Sound` holds in every state. `Fit` are the types, tied together: the current track is one of the list, a track in loading is the last of
  it, a stopped engine holds nothing. `Mailed` says that the message that a track's metadata are there is sent once and
  is in the inbox only while the track waits for it; `Tame` that a queue whose files are all there is not empty and does not hang the engine, and, with `Calm`, that a
  queue with broken files neither repeats nor is sought in, and that the engine does not hang.
- `Good` is what holds of an engine that runs, with `Calm`. `Buffer` is about the list: its tracks are those that `Peek` finds around the
  position (`Order`), the one that is heard is the position's (`Heard`), at most the last is without audio (`Alone`), and
  only a full buffer keeps a track out (`Roomy`). `Told` says that a track whose metadata are there waits for its message
  or for room; `Steady` how far a change of tracks has come, which the fields `skip`, `mark`, `late` and the codec's
  reports must agree on; `Awake` that something is under way. `HeardIsCurrent` alone is not inductive: the track that a change
  will announce is right because the list is, and the list stays right in a halted change only because of `Steady`.
- Inside a handler `Good` is broken and mended. `Sound` takes a parameter for the stretch in which the engine does not run or is about to
  be started anew, and the lemmas about `Good` name the parts that a helper needs and those that it restores.

There are two lemmas for each handler, one for `Sound` and one for `Good`, in the order in which handlers call each other. A helper
that touches few fields has its result described by `Alike` (which fields stay) and one lemma per part of
the invariant says which fields the part looks at, so that the rest is carried over without expanding the record. The loop over missing
files is a recursive function of the turns taken. `PassingIs` shows that it has the values its definition asks for and `Turns` what
they are, both by induction on a set of numbers (`Induction`, from `Least`) and not by the library's schemes, which need a higher-order
instance. With `Calm` each turn but the last makes a queue that does not repeat shorter by an entry that has one behind it,
so the loop ends; without, it may not (section 4), and its result is the hung engine, which is typed as well.

`PlaybackCommandsProofs` is about the presses over the whole engine: for any tracks, queues and size of the buffer and any number
of presses and other commands, on files that are all there (`CommandsInit`). It has three theorems; the invariant of the first is part of those of the other two.

- `CommandsTyped`: `CommandsSpec => []CommandsTypeOK`, for every mode and every set of `RoughSpots`. The invariant `Ruled` has the
  engine's (`Sound`, in `Kept`) and says that the command thread waits for a message exactly as long as it is in the inbox,
  once (`Waited`), and that the presses and the request name entries of the queue. For it, every handler of the engine has a lemma on what it leaves alone:
  the queue's length, the commands in the inbox, the skip that is counted.
- `CommandsShown`: `CommandsSpec => []LockScreenTrue`, assuming `Calm`. `Wished` says that the last press of play or pause decides `wanted`, and
  that once none of them is left to be carried out the state that is wanted is on its way: in the engine, in the inbox or in the thread's hands.
  `Announced` says that the cache holds what is heard, or that the track that will be heard has its
  metadata still to come and will be announced.
- `CommandsMet`: `CommandsSpec => []RequestMet`, assuming `RoughSpots = {}` and queues that do not repeat. This cannot be dropped:
  under Repeat All the property fails (section 4), and under Repeat One as well. The invariant `Asking` has two parts. `Pending`: a skip that is counted
  is a skip in the inbox. `Requested`, unless the request was overtaken: the
  presses that are still asked for lead from the position, with the skip that is posted, to the
  entry that is requested (`Way`); the engine does not go on by itself; and when no press that moves is left, the track is still
  `Expected`: a start or a skip is in the inbox or there is no audio of it yet, so an event will name it and take the request back. That the engine
  rests before this has happened is impossible: by `Steady` an engine that runs has a current track, and when nothing is being loaded
  its audio is there.

`Way` says that there are positions, one between any two presses, that each press moves as it should. This takes the place of a
recursion over the presses and can be proved about: `WayNone` (no press that moves), `WayMore` (a press is added), `WayLess` (the
first is taken) and `WayEnds` (the way does not lead out of the queue).

The proofs use the named assumptions of the modules and those stated in the theorems, nothing else.

Only model-checked: liveness (`SendReturns`, `DirtyIsSaved`, `ScanEnds`, `QueueEnds`, `Granted`, `WaitEnds`, `RequestGranted`,
`PressesServed`), which is beyond the prover; and `BoostExact` and `ReadyExact` of `PriorityInherit`, whose `Walk` is recursive.
Every other invariant that a run finds to hold is proved.

## 6. Not modelled

Parsing, verification and native code of mini apps; decoders, fonts, images,
books and the Game Boy; navigation and rendering; the USB stack below the exclusive-storage protocol; drivers;
the choice of the next thread by the scheduler; in the engine: time within a track,
crossfade, cue sheets, single mode, automatic sample rate, atomic formats, voice and
recording. They are computation on data, hardware access, or features that do not change which
track follows which. Other targets and plugins in the tree are not part of this firmware.

## 7. Plan

Order of work, the most important behaviour first; items 1 to 7 are done.

1. Kernel queue: `KernelQueue`, `MessageQueue`, first proofs.
2. Checkpoint: `StateSave`.
3. Installer: `MiniappInstall` refining `AtomicInstall`.
4. Play queue and engine: `PlayQueue`, `TrackEngine`.
5. Playback commands: `PlaybackCommands` over the engine.
6. Locks and semaphore: `KernelLock` refining `FairLock`, `KernelSemaphore` refining `CountedSignals`, `PriorityInherit` over
   both, proofs.
7. `UsbExclusive`: broadcast, acknowledgements by sequence number, late answers.
8. `FileRename` and `MiniappStorage`: rename as two directory writes, the backup protocol of documents over it, and the
   checkpoint's files re-checked against it.
9. Editing the queue (insert, remove, move) in `PlayQueue`, with a ghost of what the listener queued to compare with.
10. Buffering: the ring's `next`/`full` arithmetic as functions, and which handles a rebuffer drops.

Theorems: those of items 1 to 7 are done but for `PriorityInherit`, for which `Walk` has to become a recursive function first. Then `FileRename` under `StateSave` and `MiniappInstall`, as a refinement
of the atomic rename they assume.
