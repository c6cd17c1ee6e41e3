----------------------------- MODULE TrackEngine -----------------------------
(***************************************************************************)
(* The playback engine (apps/playback.c, the audio thread) over the play   *)
(* queue: tracks are loaded into the buffer ahead of the one that sounds,  *)
(* the codec decodes the current one, and when it is done the engine goes  *)
(* on to the next entry of the buffer at once, while the PCM of the old    *)
(* track still plays; queue and display follow when that PCM has run out.  *)
(*                                                                         *)
(* The audio thread takes one message at a time; each handler is a         *)
(* function from engine states to engine states, and one action applies    *)
(* it.  The buffering thread, the codec thread and the PCM driver report   *)
(* to it; the UI thread sends it commands and waits for those it sends     *)
(* synchronously.  The queue is read and changed by handlers and UI alike. *)
(*                                                                         *)
(* Some handlers wait for the disk or reply to the UI thread half-way; no  *)
(* other handler runs meanwhile, and what the UI thread does then is taken *)
(* before or after the whole handler.                                      *)
(* That the buffer is full of the last track of the queue is one step,     *)
(* LastBuffered, also where the loader finds it out by itself; a codec     *)
(* that does not start for a file that is readable, and a buffer that has  *)
(* no room for the cue sheet of its only track, are left out.              *)
(*                                                                         *)
(* A track is its path; the handles of one track (metadata, album art,     *)
(* codec, audio) are one entry of the buffer, whose metadata is read by    *)
(* the buffering thread first.  Time, volume, fades and crossfades, cue    *)
(* sheets, single mode, the automatic change of the sample rate, atomic    *)
(* audio formats and the recorder are left out.                            *)
(***************************************************************************)
EXTENDS PlayQueue, FiniteSets

CONSTANTS
    Queues,        \* what the listener queues
    Modes,         \* the repeat modes in use
    MaxBuffered,   \* tracks that fit in the buffer
    MaxBroken,     \* bound: files that are missing or unreadable
    MaxCommands,   \* bound: commands of the listener
    RoughSpots     \* what the engine is not built for and a run lets happen

ASSUME QueuesAssumption == Queues \subseteq Seq(Tracks) \ {<<>>}
ASSUME ModesAssumption == Modes \subseteq RepeatModes
(* "reorder": shuffle and repeat change while the engine runs; "wrap": a   *)
(* queue with broken files repeats; "seek": a seek with broken files.      *)
ASSUME RoughAssumption == RoughSpots \subseteq {"reorder", "wrap", "seek"}
ASSUME BoundAssumption ==
    MaxBuffered \in Nat \ {0} /\ MaxBroken \in Nat /\ MaxCommands \in Nat

VARIABLES
    engine,    \* the engine and the play queue, see Engine
    ui,        \* what the UI thread does: it is "free" or in a command
    commands,  \* counter for the bound
    file       \* file[t]: "ok", "missing" or "unreadable"

vars == <<engine, ui, commands, file>>

Messages == {"fill", "finish", "complete", "rebuffer", "skip", "seek",
             "play", "stop", "pause", "resume"}

Engine == [
    q       : Queue,
    inbox   : Seq(Messages),  \* audio_queue
    status  : {"stopped", "playing", "paused"},          \* play_status
    list    : Seq(Tracks),    \* track_list, the buffered tracks
    cur     : Nat,            \* track_list.current_hid, 0 without tracks
    loading : {"no", "reading", "read"},  \* in_progress_hid: the last track
    peek    : Int,            \* playlist_peek_offset
    filling : {"idle", "filling", "full", "end", "finished", "ending", "ended"},
    skip    : {"none", "auto", "newlist", "endlist"},    \* skip_pending
    late    : BOOLEAN,        \* codec_skip_pending
    codec   : {"idle", "decoding"},
    mark    : {"none", "buffered", "played"},  \* the PCM's end-of-track mark
    playing : Tracks \cup {None},   \* PLAYING_ID3
    skipBy  : Int,            \* skip_offset
    stat    : {"ok", "ready", "busy", "failed", "nomore"},  \* trackstat
    hung    : BOOLEAN ]       \* audio_load_track never leaves its loop

Stopped(q) == [
    q |-> q, inbox |-> <<>>, status |-> "stopped", list |-> <<>>, cur |-> 0,
    loading |-> "no", peek |-> 0, filling |-> "idle", skip |-> "none",
    late |-> FALSE, codec |-> "idle", mark |-> "none", playing |-> None,
    skipBy |-> 0, stat |-> "ok", hung |-> FALSE ]

(* A queue that is there when playback begins, for instance restored.      *)
Queued(paths, mode, i) ==
    [Empty(mode) EXCEPT !.paths = paths, !.original = paths, !.index = i]

Broken == {t \in Tracks : file[t] # "ok"}

MayRepeat(mode) == Broken = {} \/ mode = "off" \/ "wrap" \in RoughSpots

Init ==
    /\ file \in [Tracks -> {"ok", "missing", "unreadable"}]
    /\ Cardinality(Broken) <= MaxBroken
    /\ \E paths \in Queues, mode \in Modes : \E i \in 0 .. Len(paths) - 1 :
          /\ MayRepeat(mode)
          /\ engine = Stopped(Queued(paths, mode, i))
    /\ ui = "free"
    /\ commands = 0

-----------------------------------------------------------------------------
(* The track list.                                                         *)

(* The messages of an inbox but m, in order: the n-th is the one with n of *)
(* them up to its own place.                                               *)
Others(inbox, m) ==
    LET at == {k \in DOMAIN inbox : inbox[k] # m}
        Place(n) == CHOOSE k \in at : Cardinality({j \in at : j <= k}) = n
    IN  [n \in 1 .. Cardinality(at) |-> inbox[Place(n)]]

Post(e, m) == [e EXCEPT !.inbox = Append(@, m)]
Drop(e, m) == [e EXCEPT !.inbox = Others(@, m)]

Buffered(e, k) == e.cur # 0 /\ e.cur + k \in 1 .. Len(e.list)
InLoad(e, i) == e.loading # "no" /\ i = Len(e.list)
HasAudio(e, i) == ~InLoad(e, i)

(* track_list_user_current is this far from the track being decoded.       *)
Lead(e) == IF e.skip \in {"auto", "newlist"} THEN -1 ELSE 0

(* The metadata of an entry: none while it is read or if it is no good.    *)
Id3(e, i) ==
    IF (InLoad(e, i) /\ e.loading = "reading") \/ file[e.list[i]] # "ok"
    THEN None ELSE e.list[i]

(* The message about a track that is freed finds no handle.                *)
ForgetLoad(e) == [Drop(e, "finish") EXCEPT !.loading = "no"]

FreeLast(e) ==
    LET n == Len(e.list) - 1
    IN  [ForgetLoad(e) EXCEPT !.list = SubSeq(@, 1, n),
                              !.cur = IF @ > n THEN n ELSE @]

(* track_list_clear; "all" is also what is done without a current track.   *)
Clear(e, keep) ==
    IF keep = "none" \/ e.cur = 0
    THEN [ForgetLoad(e) EXCEPT !.list = <<>>, !.cur = 0]
    ELSE IF keep = "new"
    THEN [e EXCEPT !.list = SubSeq(@, e.cur, Len(@)), !.cur = 1]
    ELSE LET kept == IF e.cur = Len(e.list) THEN e ELSE ForgetLoad(e)
         IN  [kept EXCEPT !.list = <<e.list[e.cur]>>, !.cur = 1]

-----------------------------------------------------------------------------
(* Loading.                                                                *)

(* The loop of audio_load_track that passes over missing files: After(n)   *)
(* is the queue after n turns, and the loop ends at a file that is there,  *)
(* at the end of the queue, or at the last entry.                          *)
Present(e) ==
    LET After[n \in 0 .. Length(e.q)] ==
            IF n = 0 THEN e.q ELSE SkipEntry(After[n - 1], e.peek)
        Ends(q) ==
            \/ Peek(q, e.peek) = None
            \/ file[Peek(q, e.peek)] # "missing"
            \/ Peek(q, e.peek + 1) = None
        turns == {n \in 0 .. Length(e.q) : Ends(After[n])}
    IN  IF turns = {} THEN [e EXCEPT !.hung = TRUE]
        ELSE [e EXCEPT !.q = After[CHOOSE n \in turns : \A m \in turns : n <= m]]

(* audio_load_track.                                                       *)
LoadTrack(e) ==
    IF e.loading # "no"
    THEN CASE e.filling = "filling" -> [e EXCEPT !.stat = "ok"]
           [] e.filling = "full" ->
                [Post(e, "finish") EXCEPT !.filling = "filling", !.stat = "ok"]
           [] OTHER -> [e EXCEPT !.stat = "busy"]
    ELSE LET full == Len(e.list) >= MaxBuffered
             next == Present([e EXCEPT !.peek = @ + 1])
             path == Peek(next.q, next.peek)
         IN  IF path = None
             THEN [next EXCEPT !.peek = @ - 1, !.filling = "end",
                               !.stat = "nomore"]
             ELSE IF full
             THEN [next EXCEPT !.peek = @ - 1, !.filling = "full", !.stat = "ok"]
             ELSE [next EXCEPT !.list = Append(@, path),
                               !.cur = IF @ = 0 THEN 1 ELSE @,
                               !.loading = "reading", !.filling = "filling",
                               !.stat = "ok"]

(* audio_fill_file_buffer; its playlist_next(0) moves nothing.             *)
Fill(e) ==
    IF e.status = "stopped" THEN [e EXCEPT !.stat = "failed"] ELSE LoadTrack(e)

(* audio_reset_and_rebuffer.                                               *)
Rebuffer(e, keep, offset) == Fill([Clear(e, keep) EXCEPT !.peek = offset])

(* audio_handle_track_load_status.                                         *)
StartCodecFailed(e) == Post(e, "complete")
LoadFailed(e) ==
    IF e.stat = "nomore" /\ e.list = <<>> THEN Post(e, "complete") ELSE e

(* A bad track: out of the buffer and out of the queue.                    *)
Discard(e) ==
    [FreeLast(e) EXCEPT !.q = SkipEntry(@, e.peek), !.peek = @ - 1,
                        !.stat = "failed"]

(* audio_finish_load_track; full: the buffer has no room for the audio.    *)
FinishLoad(e, full) ==
    IF Id3(e, Len(e.list)) = None THEN Post(Discard(e), "fill")
    ELSE IF full /\ Len(e.list) > 1
    THEN [e EXCEPT !.filling = "full", !.stat = "failed"]
    ELSE Post([e EXCEPT !.loading = "no",
                 !.stat = IF e.cur = Len(e.list) THEN "ready" ELSE "ok"], "fill")

(* audio_on_finish_load_track.                                             *)
OnFinishLoad(e, full) ==
    IF e.loading = "no" THEN e
    ELSE LET done == FinishLoad(e, full)
         IN  IF done.stat # "ready" THEN done
             ELSE [done EXCEPT !.codec = "decoding",
                     !.playing = IF Lead(e) = 0 THEN Id3(done, done.cur) ELSE @]

-----------------------------------------------------------------------------
(* Stopping and changing tracks.                                           *)

(* halt_decoding_track: the codec is stopped, and what it and the PCM      *)
(* buffer have reported of this track is taken back.                       *)
Halt(e) ==
    [Drop(e, "complete") EXCEPT !.codec = "idle", !.mark = "none",
                                !.late = FALSE]

(* audio_stop_playback.                                                    *)
StopPlayback(e) ==
    IF e.status = "stopped" THEN e
    ELSE [Clear(Halt(e), "none") EXCEPT !.skip = "none", !.playing = None,
                                        !.status = "stopped", !.filling = "idle"]

End(e) == StopPlayback([e EXCEPT !.filling = "ended"])

(* audio_finalise_track_change: what the user sees follows what is played. *)
Shown(e) ==
    [e EXCEPT !.skip = "none",
              !.playing = IF e.cur = 0 THEN None ELSE Id3(e, e.cur)]

Bug_ArriveKeepsPeek(e, delta) == [e EXCEPT !.q = GoTo(@, NextIndex(@, delta))]

Arrive(e, delta) ==
    [e EXCEPT !.peek = @ - delta, !.q = GoTo(@, NextIndex(@, delta))]

Finalise(e) ==
    LET delta == IF e.skip = "auto" THEN 1 ELSE 0
    IN  CASE e.skip = "none" -> Shown(e)
          [] e.skip = "endlist" -> End(e)
          [] OTHER -> IF Peek(e.q, delta) # None THEN Shown(Arrive(e, delta))
                      ELSE StartCodecFailed([e EXCEPT !.skip = "none"])

(* audio_begin_track_change once the PCM buffer knows, with status ok or   *)
(* with that of a rebuffer that failed.                                    *)
StartTrack(e, manual) ==
    IF e.stat # "ok" THEN LoadFailed(e)
    ELSE IF e.cur = 0 THEN StartCodecFailed(e)
    ELSE IF ~HasAudio(e, e.cur) THEN e
    ELSE [e EXCEPT !.codec = "decoding",
                   !.playing = IF manual THEN Id3(e, e.cur) ELSE @]

ChangeByHand(e) ==
    LET seen == Finalise(e)
    IN  IF seen.status = "stopped" THEN seen ELSE StartTrack(seen, TRUE)

ChangeByItself(e) == StartTrack([e EXCEPT !.mark = "buffered"], FALSE)

(* audio_monitor_end_of_playlist.                                          *)
MonitorEnd(e) ==
    [e EXCEPT !.skip = "endlist", !.filling = "ending", !.mark = "buffered"]

(* audio_can_change_track and the change it leads to.  advanced: the next  *)
(* track is not in the buffer, and the queue may have to be advanced.      *)
Advance(e) ==
    IF NextIndex(e.q, 1) = -1 THEN MonitorEnd(e)
    ELSE ChangeByItself([e EXCEPT !.q = GoTo(@, NextIndex(@, 1))])

Reload(e, offset) ==
    LET r == Rebuffer(e, "none", offset)
    IN  IF r.stat # "nomore" THEN ChangeByItself(r)
        ELSE Advance([r EXCEPT !.skip = "newlist"])

NextTrack(e) ==
    IF Buffered(e, 1)
    THEN LET at == [e EXCEPT !.cur = @ + 1, !.stat = "ok"]
         IN  IF HasAudio(at, at.cur) THEN ChangeByItself(at)
             ELSE IF at.loading = "read"
             THEN ChangeByItself([Rebuffer(at, "current", 1) EXCEPT !.stat = "ok"])
             ELSE Reload(at, 0)
    ELSE IF Peek(e.q, 1) # None THEN Reload(e, 0)
    ELSE LET after == NextIndex(e.q, 1)
             list == [e EXCEPT !.skip = "newlist"]
         IN  IF after = -1 THEN MonitorEnd(list)
             ELSE Reload([list EXCEPT !.q = GoTo(@, after)], -1)

Bug_ForgetComplete(e) == e

RememberComplete(e) == [e EXCEPT !.late = TRUE]

(* audio_on_codec_complete.                                                *)
OnCodecComplete(e) ==
    IF e.status = "stopped" THEN e
    ELSE IF e.status = "paused" \/ e.skip # "none" THEN RememberComplete(e)
    ELSE NextTrack([e EXCEPT !.late = FALSE, !.skip = "auto"])

(* audio_on_track_changed.                                                 *)
OnTrackChanged(e) ==
    LET seen == Finalise([e EXCEPT !.mark = "none"])
    IN  IF seen.late THEN OnCodecComplete([seen EXCEPT !.late = FALSE]) ELSE seen

-----------------------------------------------------------------------------
(* The listener's commands, on the audio thread.                           *)

(* audio_start_playback.                                                   *)
OnPlay(e) ==
    LET idle == IF e.status = "stopped" THEN [e EXCEPT !.status = "playing"]
                ELSE [Clear(Halt(e), "none") EXCEPT !.playing = None,
                                                    !.skip = "none"]
        r == Fill([idle EXCEPT !.peek = -1])
    IN  IF r.stat = "ok" THEN [r EXCEPT !.playing = Id3(r, r.cur)]
        ELSE LoadFailed(r)

OnPause(e, pause) ==
    IF e.status = "stopped" \/ pause = (e.status = "paused") THEN e
    ELSE LET now == [e EXCEPT !.status = IF pause THEN "paused" ELSE "playing"]
         IN  IF ~pause /\ e.late THEN OnCodecComplete(now) ELSE now

(* What n steps come to in the track list and in the queue: an automatic   *)
(* change that has begun has moved the first, and the second too if the    *)
(* queue was advanced.                                                     *)
Bug_ListStepsIgnorePending(e, n) == n

ListSteps(e, n) == IF e.skip \in {"auto", "newlist"} THEN n - 1 ELSE n
QueueSteps(e, n) == IF e.skip = "newlist" THEN n - 1 ELSE n

(* Steps that leave the queue are taken back one by one; needing one in    *)
(* the other direction is the end.                                         *)
Corrections(q, steps, toward) ==
    {k \in 0 .. Length(q) + 2 :
        /\ Check(q, steps + k * toward)
        /\ \A j \in 0 .. k - 1 : steps + j * toward # toward}

Corrected(q, steps, toward) ==
    IF NextIndex(q, steps) # -1 THEN {0}
    ELSE {k * toward : k \in Corrections(q, steps, toward)}

(* The track d entries on, from the buffer if its audio is there.          *)
Land(e, d) ==
    IF Buffered(e, d) /\ HasAudio(e, e.cur + d) THEN [e EXCEPT !.cur = @ + d]
    ELSE Rebuffer(e, "none", -1)

(* audio_on_skip.                                                          *)
OnSkip(e) ==
    LET n == e.skipBy
        halted == Halt([e EXCEPT !.skipBy = 0])
        start == IF n = 1 /\ e.q.repeat = "one"
                 THEN Rebuffer(halted, "current", 1) ELSE halted
        steps == QueueSteps(e, n)
        back == Corrected(start.q, steps, IF n < 0 THEN 1 ELSE -1)
        by == CHOOSE k \in back : \A j \in back : (IF k < 0 THEN -k ELSE k)
                                                <= (IF j < 0 THEN -j ELSE j)
        moved == Arrive([start EXCEPT !.skip = "none", !.stat = "ok"], steps + by)
    IN  IF e.status = "stopped" THEN {[e EXCEPT !.skipBy = 0]}
        ELSE IF back = {} THEN {End([start EXCEPT !.skip = "none"])}
        ELSE {ChangeByHand(at) : at \in {Land(moved, ListSteps(e, n) + by)}}

(* audio_on_ff_rewind: a seek takes an automatic change back.              *)
OnSeek(e) ==
    LET idle == Halt(e)
        back == IF e.skip # "auto" THEN [idle EXCEPT !.stat = "ok"]
                ELSE IF Buffered(idle, -1) THEN [idle EXCEPT !.cur = @ - 1, !.stat = "ok"]
                ELSE Rebuffer(idle, "none", -1)
        now == [back EXCEPT !.skip = "none"]
    IN  IF e.status = "stopped" \/ e.skip = "newlist" THEN e
        ELSE IF back.stat # "ok" THEN StartCodecFailed(back)
        ELSE IF now.cur = 0 THEN [now EXCEPT !.playing = None]
        ELSE IF ~HasAudio(now, now.cur) THEN [now EXCEPT !.playing = Id3(now, now.cur)]
        ELSE [now EXCEPT !.codec = "decoding"]

(* audio_on_buffering.                                                     *)
OnRebuffer(e) ==
    IF e.list = <<>> \/ e.skip = "endlist" THEN e
    ELSE Rebuffer(e, "current", IF e.skip = "auto" THEN 1 ELSE 0)

(* The states the handler of m may leave behind: the audio of a track may  *)
(* find the buffer full.                                                   *)
Handle(e, m) ==
    CASE m = "fill" -> {LoadFailed(Fill(e))}
      [] m = "finish" -> {OnFinishLoad(e, full) : full \in BOOLEAN}
      [] m = "complete" -> {OnCodecComplete(e)}
      [] m = "rebuffer" -> {OnRebuffer(e)}
      [] m = "skip" -> OnSkip(e)
      [] m = "seek" -> {OnSeek(e)}
      [] m = "play" -> {OnPlay(e)}
      [] m = "stop" -> {StopPlayback(e)}
      [] m = "pause" -> {OnPause(e, TRUE)}
      [] m = "resume" -> {OnPause(e, FALSE)}

-----------------------------------------------------------------------------
(* The actions: first the audio thread.  A thread that hangs stays there.  *)

Settle(e) == engine' = [IF e.hung THEN [engine EXCEPT !.hung = TRUE] ELSE e
                          EXCEPT !.stat = "ok"]

(* A reply ends the command the UI thread waits for.                       *)
Replied(m) ==
    ui' = CASE ui = "playing" /\ m = "play" -> "resume"
            [] ui = "stopping" /\ m = "stop" -> "replace"
            [] ui = "waiting" /\ m \in {"pause", "resume", "stop"} -> "free"
            [] OTHER -> ui

TakeMessage ==
    /\ ~engine.hung /\ engine.inbox # <<>>
    /\ \E e \in Handle([engine EXCEPT !.inbox = Tail(@)], Head(engine.inbox)) :
          Settle(e)
    /\ Replied(Head(engine.inbox))
    /\ UNCHANGED <<commands, file>>

TrackChanged ==
    /\ ~engine.hung /\ engine.mark = "played"
    /\ Settle(OnTrackChanged(engine))
    /\ UNCHANGED <<ui, commands, file>>

(* BUFFER_EVENT_BUFFER_LOW: finished tracks make room for further ones.    *)
BufferLow ==
    /\ ~engine.hung /\ engine.filling \in {"full", "end"}
    /\ engine.list # <<>> /\ engine.skip # "endlist"
    /\ Settle(Rebuffer(engine, "new", engine.peek))
    /\ UNCHANGED <<ui, commands, file>>

(* audio_on_handle_finished.                                               *)
LastBuffered ==
    /\ engine.filling = "end" /\ engine.list # <<>>
    /\ engine' = [engine EXCEPT !.filling = "finished"]
    /\ UNCHANGED <<ui, commands, file>>

(* The buffering thread, the codec thread and the PCM driver.              *)
MetadataRead ==
    /\ engine.loading = "reading"
    /\ engine' = [Post(engine, "finish") EXCEPT !.loading = "read"]
    /\ UNCHANGED <<ui, commands, file>>

AskRebuffer ==
    /\ engine.codec = "decoding" /\ Buffered(engine, 1)
    /\ \A i \in DOMAIN engine.inbox : engine.inbox[i] # "rebuffer"
    /\ engine' = Post(engine, "rebuffer")
    /\ UNCHANGED <<ui, commands, file>>

CodecDone ==
    /\ engine.codec = "decoding"
    /\ engine' = [Post(engine, "complete") EXCEPT !.codec = "idle"]
    /\ UNCHANGED <<ui, commands, file>>

MarkPlayed ==
    /\ engine.mark = "buffered" /\ engine.status = "playing"
    /\ engine' = [engine EXCEPT !.mark = "played"]
    /\ UNCHANGED <<ui, commands, file>>

-----------------------------------------------------------------------------
(* The UI thread.                                                          *)

Command ==
    /\ ui = "free" /\ commands < MaxCommands
    /\ commands' = commands + 1
    /\ UNCHANGED file

(* playlist_start: the position is set before the engine is told.          *)
PlaylistStart(i) ==
    /\ Command
    /\ engine' = Post([engine EXCEPT !.q = GoTo(@, i)], "play")
    /\ ui' = "playing"

Resume ==
    /\ ui = "resume"
    /\ engine' = Post(engine, "resume")
    /\ ui' = "waiting"
    /\ UNCHANGED <<commands, file>>

(* queue_replace: stop, replace, play.                                     *)
QueueReplace ==
    /\ Command
    /\ engine' = Post(engine, "stop")
    /\ ui' = "stopping"

Replaced(paths, start, perm) ==
    /\ ui = "replace"
    /\ \E q \in {Replace(engine.q, paths, start, perm),
                 ReplaceShuffled(engine.q, paths, perm)} :
          engine' = Post([engine EXCEPT !.q = q], "play")
    /\ ui' = "playing"
    /\ UNCHANGED <<commands, file>>

PlayPause ==
    /\ Command
    /\ engine.status # "stopped"
    /\ engine' = Post(engine, IF engine.status = "paused" THEN "resume" ELSE "pause")
    /\ ui' = "waiting"

(* audio_skip by one: the steps not yet taken are counted in, and a skip   *)
(* at the head of the inbox is replaced.                                   *)
CanSkip(n) == Check(engine.q, engine.skipBy + n)

Bug_SkippedForgets(n) == Post([engine EXCEPT !.skipBy = n], "skip")

Skipped(n) ==
    LET news == {i \in DOMAIN engine.inbox : engine.inbox[i] # "skip"}
        from == IF news = {} THEN Len(engine.inbox) + 1
                ELSE CHOOSE i \in news : \A j \in news : i <= j
    IN  Post([engine EXCEPT !.inbox = SubSeq(@, from, Len(@)),
                            !.skipBy = @ + n], "skip")

Skip(n) ==
    /\ Command
    /\ engine.status # "stopped"
    /\ CanSkip(n)
    /\ engine' = Skipped(n)
    /\ UNCHANGED ui

Seek ==
    /\ Command
    /\ engine.status # "stopped"
    /\ Broken = {} \/ "seek" \in RoughSpots
    /\ engine' = Post(engine, "seek")
    /\ UNCHANGED ui

Shuffle(on, perm) ==
    /\ Command
    /\ engine.status = "stopped" \/ "reorder" \in RoughSpots
    /\ engine' = [engine EXCEPT !.q = SetShuffle(@, on, perm)]
    /\ UNCHANGED ui

Repeat(mode) ==
    /\ Command
    /\ engine.status = "stopped" \/ "reorder" \in RoughSpots
    /\ mode # engine.q.repeat
    /\ MayRepeat(mode)
    /\ engine' = [engine EXCEPT !.q = SetRepeat(@, mode)]
    /\ UNCHANGED ui

UserNext ==
    \/ \E i \in 0 .. Length(engine.q) - 1 : PlaylistStart(i)
    \/ Resume \/ QueueReplace \/ PlayPause \/ Seek
    \/ \E paths \in Queues : \E start \in 0 .. Len(paths) - 1,
          perm \in Orders(Len(paths)) : Replaced(paths, start, perm)
    \/ \E n \in {-1, 1} : Skip(n)
    \/ \E on \in BOOLEAN, perm \in Orders(Length(engine.q)) : Shuffle(on, perm)
    \/ \E mode \in Modes : Repeat(mode)

EngineNext ==
    \/ TakeMessage
    \/ TrackChanged \/ BufferLow \/ LastBuffered
    \/ MetadataRead \/ AskRebuffer \/ CodecDone \/ MarkPlayed

Next == UserNext \/ EngineNext

Spec == Init /\ [][Next]_vars

(* The kernel runs the audio thread while it has messages (a message and a *)
(* track change always change the state, so that this is weak fairness;    *)
(* written out because TLC is slow at ENABLED of the handlers), buffering  *)
(* thread and codec come to the end of what they do, and the PCM plays.    *)
(* Nothing is assumed of the listener, nor of BUFFER_LOW and rebuffering.  *)
Fairness ==
    /\ \/ []<>(engine.hung \/ engine.inbox = <<>>)
       \/ []<><<TakeMessage>>_vars
    /\ \/ []<>(engine.hung \/ engine.mark # "played")
       \/ []<><<TrackChanged>>_vars
    /\ WF_vars(MetadataRead) /\ WF_vars(CodecDone) /\ WF_vars(MarkPlayed)
    /\ WF_vars(Resume)

LiveSpec == Spec /\ Fairness
-----------------------------------------------------------------------------
(* The types, and what ties the fields of the engine to each other: the    *)
(* position is in the queue, the current track in the list, a track that   *)
(* is loaded is the last of the list, and a stopped engine holds nothing.  *)
TypeOK ==
    /\ engine \in Engine
    /\ engine.q.index < Length(engine.q) \/ Length(engine.q) = 0
    /\ engine.cur <= Len(engine.list) /\ (engine.cur = 0 <=> engine.list = <<>>)
    /\ engine.loading # "no" => engine.list # <<>>
    /\ engine.status = "stopped" =>
          engine.list = <<>> /\ engine.mark = "none" /\ ~engine.late
    /\ ui \in {"free", "playing", "resume", "stopping", "replace", "waiting"}
    /\ commands \in 0 .. MaxCommands
    /\ file \in [Tracks -> {"ok", "missing", "unreadable"}]

(* The engine runs, and is not about to be started anew: playlist_start    *)
(* moves the position before the audio thread knows.                       *)
Has(e, m) == \E i \in DOMAIN e.inbox : e.inbox[i] = m
Runs(e) == e.status # "stopped" /\ ~Has(e, "play")

(* How far the display is behind the track that is decoded, in the queue.  *)
Behind(e) == IF e.skip = "auto" THEN 1 ELSE 0

(* What is heard and shown is the entry of the queue at its position,      *)
(* through automatic changes, skips in the middle of them, and bad tracks  *)
(* that are dropped from the queue.                                        *)
HeardIsCurrent ==
    Runs(engine) /\ engine.playing # None
    => engine.playing = At(engine.q, engine.q.index)

(* The buffer holds the tracks in the order in which they will be played:  *)
(* the current one, those after it and those before it are the queue's     *)
(* around its position, or around the next one while the display is a      *)
(* track behind; and the codec only runs on a track whose audio is there.  *)
BufferedInOrder ==
    Runs(engine)
    => /\ \A i \in DOMAIN engine.list :
             engine.list[i] = Peek(engine.q, i - engine.cur + Behind(engine))
       /\ engine.codec = "decoding" =>
             engine.cur # 0 /\ HasAudio(engine, engine.cur)

(* While the engine plays, something is under way that it will be told of: *)
(* it does not sit there "looking stupid and comatose" (playback.c:357),   *)
(* whichever notifications a halt of the codec has taken back.             *)
NotComatose ==
    engine.status = "playing" =>
        \/ engine.codec = "decoding" \/ engine.loading = "reading"
        \/ engine.inbox # <<>> \/ engine.mark # "none"

(* The search for a file that is there comes to an end ("only skip if      *)
(* failed track has a successor in playlist", playback.c:2236).            *)
LoadEnds == ~engine.hung

(* A queue that does not repeat plays to its end, unless it is stopped or  *)
(* paused before.                                                          *)
QueueEnds ==
    engine.status = "playing" /\ engine.q.repeat = "off"
    ~> engine.status # "playing"
=============================================================================
