-------------------------- MODULE PlaybackCommands --------------------------
(***************************************************************************)
(* The commands of the lock screen, the remote control and the accessory   *)
(* (apps/crazypod/ui/app/crazypod_playback.c) over the playback engine.    *)
(* Their threads must not wait for the audio thread: a press writes down   *)
(* what it asks for (the requested entry of the queue, playing or not),    *)
(* posts a command and returns; the command thread carries it out with the *)
(* synchronous calls of the engine.  The next press counts from what has   *)
(* been asked for, and the lock screen shows it, until an event of the     *)
(* engine or the end of a command takes the request back.                  *)
(*                                                                         *)
(* `ui` of TrackEngine is the command thread here, and `commands` counts   *)
(* presses.  The buttons of an unlocked device, which call the engine from *)
(* the UI thread, are the actions of TrackEngine and not repeated here.    *)
(* Time within a track is not kept: whether it is past the five seconds    *)
(* after which "previous" restarts the track is a choice wherever the code *)
(* looks, and the engine's time and the lock screen's may differ.  All     *)
(* files are there.                                                        *)
(***************************************************************************)
EXTENDS TrackEngine, Functions

VARIABLES
    asked,      \* playback_command_queue
    doing,      \* a synchronous command is under way
    request,    \* requested_queue_index, -1 for none
    wanted,     \* requested_playing: "none", "play" or "pause"
    shown,      \* the track in the cache of the lock screen
    overtaken   \* ghost: something came between a request and its track

Presses ==
    [id : {"next", "previous", "play", "pause", "stop"}]
        \cup [id : {"select"}, at : Nat]

pressVars == <<asked, doing, request, wanted, shown>>
codeVars == <<vars, pressVars>>
allVars == <<codeVars, overtaken>>

(* The queue is restored and the engine stopped, or it has just been       *)
(* started from the interface.                                             *)
CommandsInit ==
    /\ file \in [Tracks -> {"ok"}]
    /\ \E paths \in Queues, mode \in Modes : \E i \in 0 .. Len(paths) - 1 :
          LET idle == Stopped(Queued(paths, mode, i))
          IN  engine \in {idle, OnPlay(idle)}
    /\ ui = "free" /\ commands = 0
    /\ asked = <<>> /\ doing = FALSE
    /\ request = -1 /\ wanted = "none"
    /\ shown = None /\ overtaken = FALSE

-----------------------------------------------------------------------------
(* The presses.                                                            *)

(* AUDIO_STATUS_PLAY without AUDIO_STATUS_PAUSE.                           *)
Now == IF engine.status = "playing" THEN "play" ELSE "pause"
Other(state) == IF state = "play" THEN "pause" ELSE "play"

Bug_AdjacentPastEnd(i, n) ==
    IF i + n \in 0 .. Length(engine.q) THEN i + n ELSE -1

(* adjacent_queue_index.                                                   *)
Adjacent(i, n) ==
    IF engine.q.repeat = "one" THEN i
    ELSE IF i + n \in 0 .. Length(engine.q) - 1 THEN i + n
    ELSE IF engine.q.repeat # "all" THEN -1
    ELSE IF n < 0 THEN Length(engine.q) - 1 ELSE 0

(* The entry a press counts from.                                          *)
From == IF request # -1 THEN request ELSE engine.q.index

Press(command) ==
    /\ commands < MaxCommands
    /\ commands' = commands + 1
    /\ asked' = Append(asked, command)
    /\ UNCHANGED <<engine, ui, file, doing, shown>>

StepTo(id, to) ==
    /\ to # -1
    /\ Press([id |-> id])
    /\ request' = to
    /\ UNCHANGED wanted

(* crazypod_playback_next_async.                                           *)
PressNext == StepTo("next", Adjacent(From, 1))

(* crazypod_playback_previous_or_restart_async: the time is the cache's,   *)
(* and there is one if the cache holds the track.                          *)
MayRestart == shown = At(engine.q, From)

PressPrevious ==
    \E i \in {Adjacent(From, -1)} \cup (IF MayRestart THEN {From} ELSE {}) :
        StepTo("previous", i)

(* crazypod_playback_toggle_async.                                         *)
PressToggle ==
    /\ wanted' = Other(IF wanted # "none" THEN wanted ELSE Now)
    /\ Press([id |-> wanted'])
    /\ UNCHANGED request

(* crazypod_playback_stop_async.                                           *)
PressStop ==
    /\ wanted' = "pause"
    /\ Press([id |-> "stop"])
    /\ UNCHANGED request

(* crazypod_playback_select_async.                                         *)
PressSelect(i) ==
    /\ wanted' = "play"
    /\ Press([id |-> "select", at |-> i])
    /\ request' = i

-----------------------------------------------------------------------------
(* The command thread.                                                     *)

(* The end of a command: a state that has been reached is no longer asked. *)
Met(state) == IF wanted = state THEN "none" ELSE wanted

(* A command that only posts, or does nothing, ends before the audio       *)
(* thread runs; the others wait for it.                                    *)
Ends(e) ==
    /\ engine' = e
    /\ wanted' = Met(Now)
    /\ UNCHANGED <<ui, doing>>

Waits(e, state) ==
    /\ engine' = e
    /\ ui' = state
    /\ doing' = TRUE
    /\ UNCHANGED wanted

(* playlist_start.                                                         *)
Starts(i) == Waits(Post([engine EXCEPT !.q = GoTo(@, i)], "play"), "playing")

(* start_adjacent_from_restored_queue.                                     *)
StartsAdjacent(n) ==
    LET i == NextIndex(engine.q, n)
    IN  IF i = -1 THEN Ends(engine) ELSE Starts(i)

SkipsBy(n) == Ends(IF CanSkip(n) THEN Skipped(n) ELSE engine)

(* audio_current_track looks ahead while a skip is pending, and the track  *)
(* found there has not played yet.                                         *)
MayRewind == engine.playing # None /\ engine.skipBy = 0

(* crazypod_playback_next, crazypod_playback_previous_or_restart.          *)
Moves(n) ==
    \/ engine.status = "stopped" /\ StartsAdjacent(n)
    \/ engine.status # "stopped" /\ SkipsBy(n)
    \/ n < 0 /\ engine.status # "stopped" /\ MayRewind
       /\ Ends(Post(engine, "seek"))

TakeCommand ==
    /\ ui = "free" /\ ~doing /\ asked # <<>>
    /\ asked' = Tail(asked)
    /\ LET command == Head(asked)
       IN  CASE command.id = "pause" -> Waits(Post(engine, "pause"), "waiting")
             [] command.id = "play" -> Waits(Post(engine, "resume"), "waiting")
             [] command.id = "stop" -> Waits(Post(engine, "stop"), "waiting")
             [] command.id = "select" -> Starts(command.at)
             [] command.id = "next" -> Moves(1)
             [] command.id = "previous" -> Moves(-1)
    /\ UNCHANGED <<commands, file, request, shown>>

EndCommand ==
    /\ ui = "free" /\ doing
    /\ doing' = FALSE
    /\ wanted' = Met(Now)
    /\ UNCHANGED <<vars, asked, request, shown>>

-----------------------------------------------------------------------------
(* The engine.  The handler of its events runs in the step that sends      *)
(* them: PLAYBACK_EVENT_CUR_TRACK_READY when the metadata of the track     *)
(* the listener is at have been read after it began, and otherwise         *)
(* PLAYBACK_EVENT_TRACK_CHANGE at the end of every change.                 *)

Bug_ReadySilent(e, m) == FALSE

TrackReady(e, m) ==
    /\ m = "finish" /\ e.loading # "no"
    /\ Lead(e) = 0 /\ e.cur = Len(e.list) /\ Id3(e, e.cur) # None

ChangeEnds(e, m) ==
    /\ m \in {"skip", "track changed"}
    /\ engine'.status # "stopped" /\ engine'.playing # None
    /\ e.skip \in {"auto", "newlist"} /\ m = "track changed"
       => Peek(e.q, IF e.skip = "auto" THEN 1 ELSE 0) # None

(* lock_playback_track_event: a request for this track has been met.       *)
TrackEvent ==
    LET met == /\ request \in 0 .. Length(engine'.q) - 1
               /\ At(engine'.q, request) = engine'.playing
    IN  /\ shown' = engine'.playing
        /\ request' = IF met THEN -1 ELSE request

Handled(e, m) ==
    /\ IF TrackReady(e, m) \/ ChangeEnds(e, m) THEN TrackEvent
       ELSE UNCHANGED <<shown, request>>
    /\ UNCHANGED <<asked, doing, wanted>>

HandleMessage ==
    /\ TakeMessage
    /\ Handled([engine EXCEPT !.inbox = Tail(@)], Head(engine.inbox))

HandleChange == TrackChanged /\ Handled(engine, "track changed")

(* What goes on without the listener and the lock screen.  Refilling the   *)
(* buffer (BufferLow, AskRebuffer), which decides what is held and not     *)
(* what is heard, is left to TrackEngine.                                  *)
Background ==
    /\ MetadataRead \/ CodecDone \/ MarkPlayed \/ Resume
    /\ UNCHANGED pressVars

-----------------------------------------------------------------------------
(* Nothing is on its way to the engine or within it.                       *)
Quiet ==
    /\ asked = <<>> /\ ~doing
    /\ engine.inbox = <<>> /\ engine.skip = "none" /\ engine.mark = "none"
    /\ engine.loading = "no"

Pressed(id) == Len(asked') > Len(asked) /\ asked'[Len(asked')].id = id
Taken(id) == Len(asked') < Len(asked) /\ Head(asked).id = id

ChangesByItself ==
    \/ "complete" \in Range(engine.inbox) \/ engine.late
    \/ engine.skip # "none" \/ engine.mark # "none"

(* What can come between a request and its track: the engine goes on to    *)
(* another one by itself, or stops; "previous" is taken for a restart when *)
(* it is pressed, or is one when it is carried out; a selection starts     *)
(* before a skip has been handled; the request is met too early, by a      *)
(* track that was on the way.                                              *)
Overtaking ==
    \/ request' # -1 /\ ChangesByItself'
    \/ request' # -1 /\ engine'.status = "stopped" /\ engine.status # "stopped"
    \/ Pressed("previous") /\ request' = From
    \/ Taken("previous") /\ "seek" \in Range(engine'.inbox)
    \/ Taken("select") /\ "skip" \in Range(engine.inbox)
    \/ request # -1 /\ request' = -1 /\ (asked' # <<>> \/ engine'.skipBy # 0)

Watch ==
    overtaken' = /\ ~(Quiet' /\ request' = -1)
                 /\ overtaken \/ Overtaking

CommandsNext ==
    \/ PressNext /\ Watch
    \/ PressPrevious /\ Watch
    \/ PressToggle /\ Watch
    \/ PressStop /\ Watch
    \/ \E i \in 0 .. Length(engine.q) - 1 : PressSelect(i) /\ Watch
    \/ TakeCommand /\ Watch
    \/ EndCommand /\ Watch
    \/ HandleMessage /\ Watch
    \/ HandleChange /\ Watch
    \/ Background /\ Watch

CommandsSpec == CommandsInit /\ [][CommandsNext]_allVars

(* The fairness of the engine, and a command thread that the kernel runs.  *)
CommandsFairness ==
    /\ \/ []<>(engine.hung \/ engine.inbox = <<>>)
       \/ []<><<HandleMessage>>_vars
    /\ WF_vars(Resume)
    /\ WF_codeVars(TakeCommand) /\ WF_codeVars(EndCommand)

CommandsLive == CommandsSpec /\ CommandsFairness
-----------------------------------------------------------------------------
(* The types; a request is an entry of the queue; and the command thread   *)
(* waits only for a message that is still to be handled.                   *)
CommandsTypeOK ==
    /\ asked \in Seq(Presses)
    /\ request \in -1 .. Length(engine.q) - 1
    /\ wanted \in {"none", "play", "pause"}
    /\ shown \in Tracks \cup {None}
    /\ {doing, overtaken} \subseteq BOOLEAN
    /\ ui # "free" => doing
    /\ ui = "playing" => "play" \in Range(engine.inbox)
    /\ ui = "waiting" =>
          {"pause", "resume", "stop"} \cap Range(engine.inbox) # {}

(* When all is quiet, the lock screen shows the truth: the track that is   *)
(* heard, whichever of the engine's events announced it, and whether it    *)
(* plays, however often play and pause were pressed before.                *)
LockScreenTrue ==
    Quiet /\ engine.status # "stopped"
    => /\ wanted = "none"
       /\ engine.playing # None => shown = engine.playing

(* When all is quiet, a request has been met, so that the next press does  *)
(* not count from an entry that is no longer asked for: unless it has been *)
(* overtaken, in one of the ways that Overtaking lists and no other.       *)
RequestMet == Quiet /\ ~overtaken => request = -1

(* Every press is carried out.                                             *)
PressesServed == asked # <<>> ~> asked = <<>>

(* What the listener may expect, and the code does not do: a press of      *)
(* previous is not ignored when there is an entry before the current one.  *)
PreviousHonoured ==
    Quiet /\ engine.status = "playing" /\ Adjacent(From, -1) = -1
    => engine.q.index = 0
=============================================================================
