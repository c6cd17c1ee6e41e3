----------------------------- MODULE UsbExclusive -----------------------------
(***************************************************************************)
(* How the disk is handed to the host and taken back.  The USB thread      *)
(* (firmware/usb.c) broadcasts SYS_USB_CONNECTED with a sequence number to *)
(* every registered queue and counts the acknowledgements; with the last   *)
(* of them it unmounts the disk and the host owns it.  To take it back it  *)
(* mounts the disk and broadcasts SYS_USB_DISCONNECTED.                    *)
(*                                                                         *)
(* The listeners are the audio thread, the user interface and, for those   *)
(* that acknowledge and have no files, the backlight thread.  The workers  *)
(* that decode pictures have no part in the broadcast: the interface stops *)
(* them.                                                                   *)
(***************************************************************************)
EXTENDS Naturals, Sequences, FiniteSets

CONSTANTS
  MaxPlugs,   \* bound: how often the cable is plugged in
  MaxConfigs  \* bound: how often the host sets a configuration or resets

ASSUME UsbBounds == MaxPlugs \in Nat /\ MaxConfigs \in Nat

Listeners == {"audio", "ui", "backlight"}

VARIABLES
  plugs,      \* [in: is the cable plugged in, times: how often it was]
  configs,    \* how many configurations the host has set
  usbQueue,   \* usb_queue
  usb,        \* the USB thread: "loop", "asking" the user what the cable is
              \* for, "unmounting", "mounting", or "leaving": mounting because
              \* the cable is out
  inserted,   \* usb_state = USB_INSERTED, usb_host_present
  data,       \* ~usb_power_only
  requested,  \* exclusive_storage_requested
  enabled,    \* exclusive_storage_enabled
  seqnum,     \* usb_broadcast_seqnum, less its first value
  expect,     \* usb_num_acks_to_expect
  mounted,    \* the disk is mounted
  box,        \* [listener -> its queue]
  heard,      \* [listener -> the number it has yet to acknowledge, or 0]
  audio,      \* the audio thread: "idle", "playing", "stopping" on its way out
              \* of playback for the host or "halting" for a video, "out" in
              \* usb_wait_for_disconnect
  ui,         \* the user interface: "free", "opening" a video until the music is
              \* stopped, "video" in its loop, "closing" the video, "saving"
              \* before it acknowledges, "out"
  blocker,    \* the prompt's data blocker is up
  suspended,  \* photo_suspended
  worker,     \* the worker: "waiting" or "busy" with a file
  cleared     \* a queue with a broadcast in it has been cleared: not in the code

hostvars == <<plugs, configs>>
usbvars == <<usb, inserted, data, requested, enabled, seqnum, expect, mounted>>
uivars == <<ui, blocker, suspended>>
vars == <<hostvars, usbvars, usbQueue, box, heard, audio, uivars, worker, cleared>>

Init ==
  /\ plugs = [in |-> FALSE, times |-> 0] /\ configs = 0
  /\ usbQueue = <<>> /\ usb = "loop"
  /\ inserted = FALSE /\ data = FALSE
  /\ requested = FALSE /\ enabled = FALSE
  /\ seqnum = 0 /\ expect = 0 /\ mounted = TRUE
  /\ box = [t \in Listeners |-> <<>>]
  /\ heard = [t \in Listeners |-> 0]
  /\ audio = "idle" /\ ui = "free" /\ blocker = FALSE
  /\ suspended = FALSE /\ worker = "waiting" /\ cleared = FALSE

Event(id, arg) == [id |-> id, arg |-> arg]

\* queue_broadcast, to the queues b
Broadcast(event, b) == [t \in Listeners |-> Append(b[t], event)]

-------------------------------------------------------------------------------
\* The cable, after its debounce, and the host.
PlugIn ==
  /\ ~plugs.in /\ plugs.times < MaxPlugs
  /\ plugs' = [in |-> TRUE, times |-> plugs.times + 1]
  /\ usbQueue' = Append(usbQueue, Event("inserted", 0))
  /\ UNCHANGED <<configs, usbvars, box, heard, audio, uivars, worker, cleared>>

PullOut ==
  /\ plugs.in
  /\ plugs' = [plugs EXCEPT !.in = FALSE]
  /\ usbQueue' = Append(usbQueue, Event("extracted", 0))
  /\ UNCHANGED <<configs, usbvars, box, heard, audio, uivars, worker, cleared>>

\* SET_CONFIG with (1) or without (0) mass storage; a reset of the bus is the
\* second.
HostConfig(arg) ==
  /\ plugs.in /\ inserted /\ configs < MaxConfigs
  /\ configs' = configs + 1
  /\ usbQueue' = Append(usbQueue, Event("config", arg))
  /\ UNCHANGED <<plugs, usbvars, box, heard, audio, uivars, worker, cleared>>

-------------------------------------------------------------------------------
\* Mutants: usb_queue, which gets the broadcast too, counts as a listener; the
\* number of the broadcast does not change.
Bug_RequestCountsItself(b) ==
  /\ requested' = TRUE
  /\ seqnum' = seqnum + 1
  /\ expect' = Cardinality(Listeners) + 1
  /\ box' = Broadcast(Event("connected", seqnum + 1), b)

Bug_RequestSameNumber(b) ==
  /\ requested' = TRUE
  /\ seqnum' = 1
  /\ expect' = Cardinality(Listeners)
  /\ box' = Broadcast(Event("connected", 1), b)

\* usb_request_exclusive_storage, with the broadcasts so far
Request(b) ==
  /\ requested' = TRUE
  /\ seqnum' = seqnum + 1
  /\ expect' = Cardinality(Listeners)
  /\ box' = Broadcast(Event("connected", seqnum + 1), b)

\* usb_release_exclusive_storage up to its broadcast, when the disk is mounted
Freed == IF requested THEN Broadcast(Event("disconnected", 0), box) ELSE box

\* Mutant: no release before the second request.
Bug_DemandAgain ==
  /\ IF enabled THEN UNCHANGED <<requested, seqnum, expect, box>>
     ELSE Request(box)
  /\ UNCHANGED <<usb, inserted, enabled, mounted>>

\* SET_CONFIG that needs exclusive storage
Demand ==
  /\ IF enabled THEN UNCHANGED <<requested, seqnum, expect, box>>
     ELSE Request(Freed)
  /\ UNCHANGED <<usb, inserted, enabled, mounted>>

\* SET_CONFIG that does not
Waive ==
  /\ requested' = FALSE
  /\ IF enabled THEN usb' = "mounting" /\ UNCHANGED box
     ELSE box' = Freed /\ UNCHANGED usb
  /\ UNCHANGED <<inserted, enabled, seqnum, expect, mounted>>

SetConfig(arg) ==
  /\ IF ~inserted THEN UNCHANGED <<usbvars, box>>
     ELSE (IF arg = 1 /\ data THEN Demand ELSE Waive) /\ UNCHANGED data

\* Mutant: late acknowledgements count.
Bug_AcknowledgedLate(n) ==
  /\ IF expect = 0 THEN UNCHANGED <<usb, expect, mounted>>
     ELSE /\ expect' = expect - 1
          /\ IF expect = 1 /\ inserted /\ requested
             THEN usb' = "unmounting" /\ mounted' = FALSE
             ELSE UNCHANGED <<usb, mounted>>
  /\ UNCHANGED <<inserted, data, requested, enabled, seqnum, box>>

Acknowledged(n) ==
  /\ IF n # seqnum \/ expect = 0 THEN UNCHANGED <<usb, expect, mounted>>
     ELSE /\ expect' = expect - 1
          /\ IF expect = 1 /\ inserted /\ requested
             THEN usb' = "unmounting" /\ mounted' = FALSE
             ELSE UNCHANGED <<usb, mounted>>
  /\ UNCHANGED <<inserted, data, requested, enabled, seqnum, box>>

\* The user is asked before the stack is enabled.
Insert ==
  /\ usb' = IF inserted THEN usb ELSE "asking"
  /\ UNCHANGED <<inserted, data, requested, enabled, seqnum, expect, mounted, box>>

TellExtracted(b) == [b EXCEPT !["ui"] = Append(@, Event("extracted", 0))]

\* usb_core_exit releases the storage.
Extract ==
  /\ IF ~inserted THEN UNCHANGED <<usb, inserted, requested, box>>
     ELSE /\ requested' = FALSE
          /\ IF enabled THEN usb' = "leaving" /\ UNCHANGED <<inserted, box>>
             ELSE /\ inserted' = FALSE
                  /\ box' = TellExtracted(Freed)
                  /\ UNCHANGED usb
  /\ UNCHANGED <<data, enabled, seqnum, expect, mounted>>

UsbTake ==
  /\ usb = "loop" /\ usbQueue # <<>>
  /\ usbQueue' = Tail(usbQueue)
  /\ LET e == Head(usbQueue)
     IN  \/ e.id = "config" /\ SetConfig(e.arg)
         \/ e.id = "ack" /\ Acknowledged(e.arg)
         \/ e.id = "inserted" /\ Insert
         \/ e.id = "extracted" /\ Extract
  /\ UNCHANGED <<hostvars, heard, audio, uivars, worker, cleared>>

Unmounted ==
  /\ usb = "unmounting"
  /\ usb' = "loop"
  /\ enabled' = TRUE
  /\ UNCHANGED <<hostvars, usbQueue, inserted, data, requested, seqnum, expect,
                 mounted, box, heard, audio, uivars, worker, cleared>>

\* The rest of usb_release_exclusive_storage, and of USB_EXTRACTED.
Remounted ==
  LET back == Broadcast(Event("disconnected", 0), box)
  IN  /\ usb \in {"mounting", "leaving"}
      /\ usb' = "loop"
      /\ mounted' = TRUE
      /\ enabled' = FALSE
      /\ inserted' = (usb = "mounting")
      /\ box' = IF usb = "leaving" THEN TellExtracted(back) ELSE back
      /\ UNCHANGED <<hostvars, usbQueue, data, requested, seqnum, expect,
                     heard, audio, uivars, worker, cleared>>

\* The user says what the cable is for, or says nothing and the wait for the
\* answer times out.
Connect(storage) ==
  /\ usb = "asking"
  /\ usb' = "loop" /\ inserted' = TRUE /\ data' = storage
  /\ UNCHANGED <<hostvars, usbQueue, requested, enabled, seqnum, expect, mounted,
                 box, heard, audio, ui, suspended, worker, cleared>>

Charge == Connect(FALSE) /\ UNCHANGED blocker

\* The blocker is drawn before the answer is given, which may be too late then.
AnswerData ==
  /\ ui = "free" /\ box["ui"] = <<>>
  /\ \E intime \in BOOLEAN : Connect(intime)
  /\ blocker' = TRUE

-------------------------------------------------------------------------------
\* usb_acknowledge
Acknowledge(n) == usbQueue' = Append(usbQueue, Event("ack", n))

Takes(t) == box[t] # <<>> /\ box' = [box EXCEPT ![t] = Tail(@)]

BacklightTake ==
  /\ Takes("backlight")
  /\ LET e == Head(box["backlight"])
     IN  IF e.id = "connected" THEN Acknowledge(e.arg) ELSE UNCHANGED usbQueue
  /\ UNCHANGED <<hostvars, usbvars, heard, audio, uivars, worker, cleared>>

\* The listener starts and stops the music.
AudioPlay ==
  /\ audio = "idle" /\ ui = "free" /\ ~blocker /\ box["audio"] = <<>>
  /\ audio' = "playing"
  /\ UNCHANGED <<hostvars, usbvars, usbQueue, box, heard, uivars, worker, cleared>>

AudioEnds ==
  /\ audio = "playing"
  /\ audio' = "idle"
  /\ UNCHANGED <<hostvars, usbvars, usbQueue, box, heard, uivars, worker, cleared>>

\* audio_thread, audio_playback_handler and usb_wait_for_disconnect
AudioTake ==
  /\ Takes("audio")
  /\ LET e == Head(box["audio"])
     IN  \/ /\ audio = "idle" /\ e.id = "connected"
            /\ Acknowledge(e.arg) /\ audio' = "out" /\ UNCHANGED heard
         \/ /\ audio = "playing" /\ e.id = "connected"
            /\ heard' = [heard EXCEPT !["audio"] = e.arg]
            /\ audio' = "stopping" /\ UNCHANGED usbQueue
         \/ /\ audio = "playing" /\ e.id = "stop"
            /\ audio' = "halting" /\ UNCHANGED <<usbQueue, heard>>
         \/ /\ audio = "out" /\ e.id = "disconnected"
            /\ audio' = "idle" /\ UNCHANGED <<usbQueue, heard>>
         \/ /\ \/ audio = "out" /\ e.id = "connected"
               \/ audio \in {"idle", "playing"} /\ e.id = "disconnected"
               \/ audio \in {"idle", "out"} /\ e.id = "stop"
            /\ UNCHANGED <<usbQueue, heard, audio>>
  /\ UNCHANGED <<hostvars, usbvars, uivars, worker, cleared>>

HoldsBroadcast(q) == \E i \in DOMAIN q : q[i].id \in {"connected", "disconnected"}

\* audio_stop_playback has faded out and the event's data is not 0: queue_clear.
AudioCleared ==
  /\ box' = [box EXCEPT !["audio"] = <<>>]
  /\ cleared' = (cleared \/ HoldsBroadcast(box["audio"]))

\* The data of a broadcast is its number.
AudioStopped ==
  /\ audio = "stopping"
  /\ audio' = "out"
  /\ AudioCleared
  /\ Acknowledge(heard["audio"])
  /\ heard' = [heard EXCEPT !["audio"] = 0]
  /\ UNCHANGED <<hostvars, usbvars, uivars, worker>>

AudioHalted ==
  /\ audio = "halting"
  /\ audio' = "idle"
  /\ AudioCleared
  /\ UNCHANGED <<hostvars, usbvars, usbQueue, heard, uivars, worker>>

-------------------------------------------------------------------------------
\* audio_hard_stop, a queue_send.  The user's press is behind what is in the
\* interface's queue, and the stop behind what is in the audio thread's.
VideoStart ==
  /\ ui = "free" /\ ~blocker /\ box["ui"] = <<>>
  /\ ui' = "opening"
  /\ box' = [box EXCEPT !["audio"] = Append(@, Event("stop", 0))]
  /\ UNCHANGED <<hostvars, usbvars, usbQueue, heard, audio, blocker,
                 suspended, worker, cleared>>

\* The sender is released: its message has been handled, ignored or cleared.
VideoOpened ==
  /\ ui = "opening" /\ audio # "halting"
  /\ \A i \in DOMAIN box["audio"] : box["audio"][i].id # "stop"
  /\ ui' = "video"
  /\ UNCHANGED <<hostvars, usbvars, usbQueue, box, heard, audio, blocker,
                 suspended, worker, cleared>>

VideoEnds ==
  /\ ui = "video"
  /\ ui' = "closing"
  /\ UNCHANGED <<hostvars, usbvars, usbQueue, box, heard, audio, blocker,
                 suspended, worker, cleared>>

\* The end of the video: button_clear_queue, and the system event again.
VideoClosed ==
  /\ ui = "closing"
  /\ ui' = "free"
  /\ box' = [box EXCEPT !["ui"] =
               IF heard["ui"] = 0 THEN <<>>
               ELSE <<Event("connected", heard["ui"])>>]
  /\ cleared' = (cleared \/ HoldsBroadcast(box["ui"]))
  /\ heard' = [heard EXCEPT !["ui"] = 0]
  /\ UNCHANGED <<hostvars, usbvars, usbQueue, audio, blocker, suspended, worker>>

\* crazypod_system_prompts_usb_connected, up to where it waits for the worker
UiConnected(n) ==
  /\ ui' = "saving"
  /\ suspended' = TRUE
  /\ heard' = [heard EXCEPT !["ui"] = n]
  /\ UNCHANGED blocker

\* crazypod_system_prompts_usb_disconnected
UiDisconnected ==
  /\ ui' = "free"
  /\ suspended' = FALSE
  /\ blocker' = FALSE
  /\ UNCHANGED heard

UiTake ==
  /\ Takes("ui")
  /\ LET e == Head(box["ui"])
     IN  \/ ui = "free" /\ e.id = "connected" /\ UiConnected(e.arg)
         \/ ui \in {"free", "out"} /\ e.id = "disconnected" /\ UiDisconnected
         \/ /\ ui = "free" /\ e.id = "extracted"
            /\ blocker' = FALSE
            /\ UNCHANGED <<ui, suspended, heard>>
         \/ /\ ui = "video" /\ e.id = "connected"
            /\ ui' = "closing"
            /\ heard' = [heard EXCEPT !["ui"] = e.arg]
            /\ UNCHANGED <<blocker, suspended>>
         \/ /\ \/ ui = "video" /\ e.id # "connected"
               \/ ui = "out" /\ e.id # "disconnected"
            /\ UNCHANGED <<ui, blocker, suspended, heard>>
  /\ UNCHANGED <<hostvars, usbvars, usbQueue, audio, worker, cleared>>

\* ... and from where the worker is idle: the state is saved.
UiSaved ==
  /\ ui = "saving" /\ worker = "waiting"
  /\ ui' = "out"
  /\ Acknowledge(heard["ui"])
  /\ heard' = [heard EXCEPT !["ui"] = 0]
  /\ UNCHANGED <<hostvars, usbvars, box, audio, blocker, suspended, worker, cleared>>

\* find_request and complete_request
WorkerStarts ==
  /\ worker = "waiting" /\ ~suspended
  /\ worker' = "busy"
  /\ UNCHANGED <<hostvars, usbvars, usbQueue, box, heard, audio, uivars, cleared>>

WorkerDone ==
  /\ worker = "busy"
  /\ worker' = "waiting"
  /\ UNCHANGED <<hostvars, usbvars, usbQueue, box, heard, audio, uivars, cleared>>

-------------------------------------------------------------------------------
Environment == PlugIn \/ PullOut \/ \E arg \in {0, 1} : HostConfig(arg)

UsbThread == UsbTake \/ Unmounted \/ Remounted \/ Charge \/ AnswerData

Audio == AudioTake \/ AudioStopped \/ AudioHalted \/ AudioPlay \/ AudioEnds

Ui == UiTake \/ UiSaved \/ VideoClosed \/ VideoStart \/ VideoOpened \/ VideoEnds

Next == Environment \/ UsbThread \/ Audio \/ Ui \/ BacklightTake
        \/ WorkerStarts \/ WorkerDone

Spec == Init /\ [][Next]_vars

\* Every thread takes its messages and comes to the end of what it does with
\* one.  Nothing is assumed of the host, the cable, the user or the workload.
Fairness ==
  /\ WF_vars(UsbTake) /\ WF_vars(Unmounted) /\ WF_vars(Remounted)
  /\ WF_vars(Charge)
  /\ WF_vars(AudioTake) /\ WF_vars(AudioStopped) /\ WF_vars(AudioHalted)
  /\ WF_vars(UiTake) /\ WF_vars(UiSaved)
  /\ WF_vars(VideoOpened) /\ WF_vars(VideoClosed)
  /\ WF_vars(BacklightTake) /\ WF_vars(WorkerDone)

LiveSpec == Spec /\ Fairness

-------------------------------------------------------------------------------
TypeOK ==
  /\ plugs \in [in : BOOLEAN, times : 0..MaxPlugs]
  /\ configs \in 0..MaxConfigs
  /\ usbQueue \in Seq([id : {"inserted", "extracted", "config", "ack"},
                       arg : 0..MaxConfigs \cup {1}])
  /\ usb \in {"loop", "asking", "unmounting", "mounting", "leaving"}
  /\ {inserted, data, requested, enabled, mounted, blocker, suspended, cleared}
       \subseteq BOOLEAN
  /\ seqnum \in 0..MaxConfigs
  /\ expect \in 0..Cardinality(Listeners)
  /\ box \in [Listeners -> Seq([id : {"connected", "disconnected", "extracted", "stop"},
                                arg : 0..MaxConfigs])]
  /\ heard \in [Listeners -> 0..MaxConfigs]
  /\ audio \in {"idle", "playing", "stopping", "halting", "out"}
  /\ ui \in {"free", "opening", "video", "closing", "saving", "out"}
  /\ worker \in {"waiting", "busy"}

\* While the disk is not mounted for the player, nobody who uses files does
\* anything, worker included: "Once mass storage is acknowledged, the host owns
\* the filesystem" (crazypod_ui.c:897).  It takes a late acknowledgement of an
\* older broadcast, or a release that overtakes a request, to break it.
HostAlone ==
  ~mounted => audio \notin {"playing", "stopping", "halting"} /\ ui = "out" /\ worker = "waiting"

\* The acknowledgements that are still expected are never fewer than those that
\* can still come: by who has the current broadcast before it, is working on it,
\* or has answered and has not been counted.
Matching(q, id) == Cardinality({i \in DOMAIN q : q[i] = Event(id, seqnum)})

NeverUndercounted ==
  seqnum > 0 =>
    expect >= Matching(usbQueue, "ack")
              + Cardinality({t \in Listeners : heard[t] = seqnum})
              + Cardinality({t \in Listeners : Matching(box[t], "connected") > 0})

\* A request of the host's that nobody's cleared queue has swallowed is granted,
\* unless it is withdrawn first.
RequestGranted == requested /\ ~enabled ~> enabled \/ ~requested \/ cleared

\* "Tell all threads that we are back in business" (usb.c:919): after the
\* release the audio thread and the interface leave their wait, unless there is a
\* new request.
BackInBusiness ==
  /\ audio = "out" /\ ~requested ~> audio # "out" \/ requested
  /\ ui = "out" /\ ~requested ~> ui # "out" \/ requested
===============================================================================
