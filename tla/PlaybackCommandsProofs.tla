----------------------- MODULE PlaybackCommandsProofs -----------------------
(***************************************************************************)
(* Theorems about the commands of the lock screen, for any tracks, queues  *)
(* and size of the buffer and any number of presses.  They rest on the     *)
(* invariant of the engine (TrackEngineProofs), whose actions are taken    *)
(* here as well.  First comes what the engine's handlers leave alone of    *)
(* what the commands rely on, while all files are there.                   *)
(***************************************************************************)
EXTENDS PlaybackCommands, TrackEngineProofs

-----------------------------------------------------------------------------
(* What the commands rely on.                                              *)

\* What the engine and the other threads tell the audio thread.
Reports == {"fill", "finish", "complete"}

\* The commands under way and the queue but for its position are the same.
Follows(r, e) ==
    /\ r.q.paths = e.q.paths /\ r.q.repeat = e.q.repeat
    /\ r.skipBy = e.skipBy /\ Alike(r, e, Reports)

\* Nor would the listener see a difference.
Unseen(r, e) ==
    Follows(r, e) /\ r.status = e.status /\ r.playing = e.playing

LEMMA AlikeMore ==
  ASSUME NEW e, NEW r, NEW some \in SUBSET Reports, Alike(r, e, some)
  PROVE  Alike(r, e, Reports)
BY DEF Alike

LEMMA AlikeSame ==
  ASSUME NEW e, NEW r, r.inbox = e.inbox
  PROVE  Alike(r, e, Reports)
BY DEF Alike

LEMMA FollowsOn ==
  ASSUME NEW e, NEW r, NEW s, Follows(r, e), Follows(s, r)
  PROVE  Follows(s, e)
BY DEF Follows, Alike

LEMMA UnseenOn ==
  ASSUME NEW e, NEW r, NEW s, Unseen(r, e), Unseen(s, r)
  PROVE  Unseen(s, e)
BY FollowsOn DEF Unseen

\* What is not changed at all, or only in its messages or its position.
LEMMA FollowsOnly ==
  ASSUME NEW e, NEW r, NEW some, Only(r, e, some), "skipBy" \notin some,
         "q" \in some => r.q.paths = e.q.paths /\ r.q.repeat = e.q.repeat,
         "inbox" \in some => Alike(r, e, Reports)
  PROVE  Follows(r, e)
<1>1. r.skipBy = e.skipBy
  BY DEF Only, Fields
<1>2. r.q.paths = e.q.paths /\ r.q.repeat = e.q.repeat
  BY DEF Only, Fields
<1>3. Alike(r, e, Reports)
  <2>1. "inbox" \notin some => r.inbox = e.inbox
    BY DEF Only, Fields
  <2> QED BY <2>1, AlikeSame
<1> QED BY <1>1, <1>2, <1>3 DEF Follows

LEMMA UnseenOnly ==
  ASSUME NEW e, NEW r, NEW some, Only(r, e, some),
         {"skipBy", "status", "playing"} \cap some = {},
         "q" \in some => r.q.paths = e.q.paths /\ r.q.repeat = e.q.repeat,
         "inbox" \in some => Alike(r, e, Reports)
  PROVE  Unseen(r, e)
<1>1. "skipBy" \notin some /\ "status" \notin some /\ "playing" \notin some
  OBVIOUS
<1>2. r.status = e.status /\ r.playing = e.playing
  BY <1>1 DEF Only, Fields
<1>3. Follows(r, e)
  BY <1>1, FollowsOnly
<1> QED BY <1>2, <1>3 DEF Unseen

LEMMA SameUnseen ==
  ASSUME NEW e
  PROVE  Unseen(e, e) /\ Follows(e, e)
BY DEF Unseen, Follows, Alike

\* Another position is no other queue.
LEMMA GoToPaths ==
  ASSUME NEW q \in Queue, NEW i
  PROVE  /\ GoTo(q, i).paths = q.paths /\ GoTo(q, i).index = i
         /\ GoTo(q, i).repeat = q.repeat
BY DEF GoTo, Queue

-----------------------------------------------------------------------------
(* The buffer.                                                             *)

LEMMA FillUnseen ==
  ASSUME AllOk(file), NEW p \in BOOLEAN, NEW e, Sound(e, p)
  PROVE  /\ Unseen(Fill(e), e) /\ Fill(e).q = e.q
         /\ Unseen(LoadFailed(Fill(e)), e) /\ LoadFailed(Fill(e)).q = e.q
<1> DEFINE r == Fill(e)
<1>1. /\ Sound(r, p) /\ Only(r, e, BufferFields) /\ Alike(r, e, {"finish"})
      /\ r.stat = "ok" => e.status # "stopped"
      /\ r.q = e.q
  BY Filled
<1>2. r.status # "stopped" \/ r.stat # "nomore"
  <2>1. CASE e.status = "stopped"
    <3>1. r.stat = "failed"
      BY <2>1 DEF Fill, Sound, Fit, Engine
    <3> QED BY <3>1
  <2>2. CASE e.status # "stopped"
    BY <1>1, <2>2 DEF Only, Fields, BufferFields
  <2> QED BY <2>1, <2>2
<1> HIDE DEF r
<1>3. {"finish"} \in SUBSET Reports /\ {"complete"} \in SUBSET Reports
  BY DEF Reports
<1>4. Alike(r, e, Reports)
  BY <1>1, <1>3, AlikeMore
<1>5. Unseen(r, e)
  <2>1. {"skipBy", "status", "playing"} \cap BufferFields = {}
    BY DEF BufferFields
  <2> QED BY <1>1, <1>4, <2>1, UnseenOnly
<1> DEFINE f == LoadFailed(r)
<1>6. Only(f, r, {"inbox"}) /\ Alike(f, r, {"complete"})
  BY <1>1, <1>2, LoadFailedIs
<1> HIDE DEF f
<1>7. f.q = r.q /\ Alike(f, r, Reports)
  BY <1>3, <1>6, AlikeMore DEF Only, Fields
<1>8. Unseen(f, r)
  BY <1>6, <1>7, UnseenOnly
<1>9. Unseen(f, e)
  BY <1>5, <1>8, UnseenOn
<1> QED BY <1>1, <1>5, <1>7, <1>9 DEF r, f

LEMMA RebufferUnseen ==
  ASSUME AllOk(file), NEW p \in BOOLEAN, NEW e, Sound(e, p),
         NEW keep \in {"none", "new", "current"}, NEW k \in Int
  PROVE  Unseen(Rebuffer(e, keep, k), e) /\ Rebuffer(e, keep, k).q = e.q
<1> DEFINE r == Rebuffer(e, keep, k)
<1>1. /\ Only(r, e, BufferFields) /\ Alike(r, e, {"finish"}) /\ r.q = e.q
  BY Rebuffered
<1> HIDE DEF r
<1>2. {"finish"} \in SUBSET Reports
  BY DEF Reports
<1>3. Alike(r, e, Reports)
  BY <1>1, <1>2, AlikeMore
<1>4. {"skipBy", "status", "playing"} \cap BufferFields = {}
  BY DEF BufferFields
<1>5. Unseen(r, e)
  BY <1>1, <1>3, <1>4, UnseenOnly
<1> QED BY <1>1, <1>5 DEF r

LEMMA CompletedUnseen ==
  ASSUME NEW p \in BOOLEAN, NEW e, Sound(e, p), e.status # "stopped"
  PROVE  Unseen(StartCodecFailed(e), e) /\ StartCodecFailed(e).q = e.q
<1> DEFINE r == StartCodecFailed(e)
<1>1. Only(r, e, {"inbox"}) /\ Alike(r, e, {"complete"})
  BY Completed
<1> HIDE DEF r
<1>2. {"complete"} \in SUBSET Reports
  BY DEF Reports
<1>3. Alike(r, e, Reports)
  BY <1>1, <1>2, AlikeMore
<1>4. r.q = e.q
  BY <1>1 DEF Only, Fields
<1>5. Unseen(r, e)
  BY <1>1, <1>3, UnseenOnly
<1> QED BY <1>4, <1>5 DEF r

-----------------------------------------------------------------------------
(* A change of the track.                                                  *)

\* Only a change by hand is seen at once.
LEMMA StartUnseen ==
  ASSUME NEW p \in BOOLEAN, NEW e, Sound(e, p), e.status # "stopped",
         NEW manual \in BOOLEAN
  PROVE  LET r == StartTrack(e, manual)
         IN  /\ Follows(r, e) /\ r.status = e.status /\ r.q = e.q
             /\ ~manual => Unseen(r, e)
<1> DEFINE r == StartTrack(e, manual)
<1>1. CASE e.stat # "ok"
  <2>1. r = LoadFailed(e)
    BY <1>1 DEF StartTrack
  <2>2. Only(r, e, {"inbox"}) /\ Alike(r, e, {"complete"})
    BY <2>1, LoadFailedIs
  <2> HIDE DEF r
  <2>3. {"complete"} \in SUBSET Reports
    BY DEF Reports
  <2>4. Alike(r, e, Reports)
    BY <2>2, <2>3, AlikeMore
  <2>5. Unseen(r, e)
    BY <2>2, <2>4, UnseenOnly
  <2>6. r.q = e.q
    BY <2>2 DEF Only, Fields
  <2> QED BY <2>5, <2>6 DEF Unseen, r
<1>2. CASE e.stat = "ok" /\ e.cur = 0
  <2>1. r = StartCodecFailed(e)
    BY <1>2 DEF StartTrack
  <2> QED BY <2>1, CompletedUnseen DEF Unseen
<1>3. CASE e.stat = "ok" /\ e.cur # 0 /\ ~HasAudio(e, e.cur)
  <2>1. r = e
    BY <1>3 DEF StartTrack
  <2> QED BY <2>1, SameUnseen DEF Unseen
<1>4. CASE e.stat = "ok" /\ e.cur # 0 /\ HasAudio(e, e.cur)
  <2>1. /\ Only(r, e, {"codec", "playing"})
        /\ r.playing = IF manual THEN Id3(e, e.cur) ELSE e.playing
    BY <1>4, StartTrackIs
  <2> HIDE DEF r
  <2>2. Follows(r, e)
    BY <2>1, FollowsOnly
  <2>3. r.q = e.q /\ r.status = e.status
    BY <2>1 DEF Only, Fields
  <2> QED BY <2>1, <2>2, <2>3 DEF Unseen, r
<1> QED BY <1>1, <1>2, <1>3, <1>4

LEMMA ItselfUnseen ==
  ASSUME NEW p \in BOOLEAN, NEW e, Sound(e, p), e.status # "stopped"
  PROVE  Unseen(ChangeByItself(e), e)
<1> DEFINE m == WithMark(e, "buffered")
<1>1. ChangeByItself(e) = StartTrack(m, FALSE)
  BY DEF ChangeByItself, WithMark
<1>2. Sound(m, p) /\ Only(m, e, {"mark"})
  BY MarkSet
<1> HIDE DEF m
<1>3. m.status = e.status
  BY <1>2 DEF Only, Fields
<1>4. Unseen(m, e)
  BY <1>2, UnseenOnly
<1>5. Unseen(StartTrack(m, FALSE), m)
  BY <1>2, <1>3, StartUnseen
<1> QED BY <1>1, <1>4, <1>5, UnseenOn

LEMMA EndUnseen ==
  ASSUME NEW p \in BOOLEAN, NEW e, Sound(e, p), e.status # "stopped"
  PROVE  Unseen(MonitorEnd(e), e)
<1> DEFINE r == MonitorEnd(e)
<1>1. Only(r, e, {"skip", "filling", "mark"})
  BY MonitorEndIs
<1> HIDE DEF r
<1>2. Unseen(r, e)
  BY <1>1, UnseenOnly
<1> QED BY <1>2 DEF r

\* The queue is advanced, to an entry that there is.
LEMMA GoneUnseen ==
  ASSUME NEW p \in BOOLEAN, NEW e, Sound(e, p), NEW k \in Int,
         NextIndex(e.q, k) # -1
  PROVE  LET r == [e EXCEPT !.q = GoTo(@, NextIndex(@, k))]
         IN  Sound(r, p) /\ Unseen(r, e)
<1> DEFINE r == [e EXCEPT !.q = GoTo(@, NextIndex(@, k))]
<1>1. /\ Sound(r, p) /\ Only(r, e, {"q"})
      /\ r.q = GoTo(e.q, NextIndex(e.q, k))
  BY GoToIs
<1> HIDE DEF r
<1>2. e.q \in Queue
  BY DEF Sound, Fit, Engine
<1>3. r.q.paths = e.q.paths /\ r.q.repeat = e.q.repeat
  BY <1>1, <1>2, GoToPaths
<1>4. Unseen(r, e)
  BY <1>1, <1>3, UnseenOnly
<1> QED BY <1>1, <1>4 DEF r

LEMMA AdvanceUnseen ==
  ASSUME NEW p \in BOOLEAN, NEW e, Sound(e, p), e.status # "stopped"
  PROVE  Unseen(Advance(e), e)
<1> DEFINE one == 1
           g == [e EXCEPT !.q = GoTo(@, NextIndex(@, one))]
<1>1. CASE NextIndex(e.q, one) = -1
  BY <1>1, EndUnseen DEF Advance
<1>2. CASE NextIndex(e.q, one) # -1
  <2>1. Advance(e) = ChangeByItself(g)
    BY <1>2 DEF Advance
  <2>2. one \in Int
    OBVIOUS
  <2>3. Sound(g, p) /\ Unseen(g, e)
    <3> HIDE DEF one
    <3> QED BY <1>2, <2>2, GoneUnseen
  <2> HIDE DEF g
  <2>4. Unseen(ChangeByItself(g), g)
    BY <2>3, ItselfUnseen DEF Unseen
  <2> QED BY <2>1, <2>3, <2>4, UnseenOn
<1> QED BY <1>1, <1>2

LEMMA ReloadUnseen ==
  ASSUME AllOk(file), NEW p \in BOOLEAN, NEW e, Sound(e, p), e.status # "stopped",
         NEW k \in Int
  PROVE  Unseen(Reload(e, k), e)
<1> DEFINE r == Rebuffer(e, "none", k)
           s == WithSkip(r, "newlist")
<1>1. Sound(r, p) /\ Unseen(r, e)
  BY Rebuffered, RebufferUnseen
<1>2. Reload(e, k) = IF r.stat # "nomore" THEN ChangeByItself(r) ELSE Advance(s)
  BY DEF Reload, WithSkip
<1> HIDE DEF r
<1>3. r.status # "stopped"
  BY <1>1 DEF Unseen
<1>4. Sound(s, p) /\ Only(s, r, {"skip"})
  BY <1>1, <1>3, SkipSet
<1> HIDE DEF s
<1>5. Unseen(s, r) /\ s.status # "stopped"
  <2>1. Unseen(s, r)
    BY <1>4, UnseenOnly
  <2> QED BY <1>3, <2>1 DEF Unseen
<1>6. Unseen(ChangeByItself(r), r) /\ Unseen(Advance(s), s)
  BY <1>1, <1>3, <1>4, <1>5, ItselfUnseen, AdvanceUnseen
<1>7. Unseen(ChangeByItself(r), e)
  BY <1>1, <1>6, UnseenOn
<1>8. Unseen(Advance(s), e)
  <2>1. Unseen(s, e)
    BY <1>1, <1>5, UnseenOn
  <2> QED BY <1>6, <2>1, UnseenOn
<1> QED BY <1>2, <1>7, <1>8

LEMMA NextUnseen ==
  ASSUME AllOk(file), NEW p \in BOOLEAN, NEW e, Sound(e, p), e.status # "stopped"
  PROVE  Unseen(NextTrack(e), e)
<1> DEFINE up == e.cur + 1
           c == WithCur(e, up)
           at == WithStat(c, "ok")
           b == Rebuffer(at, "current", 1)
           o == WithStat(b, "ok")
           list == WithSkip(e, "newlist")
           one == 1
           after == NextIndex(e.q, one)
           g == [list EXCEPT !.q = GoTo(@, NextIndex(@, one))]
<1>1. CASE Buffered(e, 1)
  <2>1. NextTrack(e) = IF HasAudio(at, at.cur) THEN ChangeByItself(at)
                       ELSE IF at.loading = "read" THEN ChangeByItself(o)
                       ELSE Reload(at, 0)
    BY <1>1 DEF NextTrack, WithCur, WithStat
  <2>2. up \in 1 .. Len(e.list)
    BY <1>1 DEF Buffered
  <2> HIDE DEF up
  <2>3. Sound(c, p) /\ Only(c, e, {"cur"})
    BY <2>2, CurSet
  <2> HIDE DEF c
  <2>4. Sound(at, p) /\ Only(at, c, {"stat"})
    BY <2>3, StatSet
  <2> HIDE DEF at
  <2>5. Unseen(at, e)
    <3>1. Only(at, e, {"cur", "stat"})
      BY <2>3, <2>4 DEF Only
    <3> QED BY <3>1, UnseenOnly
  <2>6. at.status # "stopped"
    BY <2>5 DEF Unseen
  <2>7. Sound(b, p) /\ Unseen(b, at)
    BY <2>4, Rebuffered, RebufferUnseen
  <2> HIDE DEF b
  <2>8. Sound(o, p) /\ Only(o, b, {"stat"})
    BY <2>7, StatSet
  <2> HIDE DEF o
  <2>9. Unseen(o, e)
    <3>1. Unseen(o, b)
      BY <2>8, UnseenOnly
    <3> QED BY <2>5, <2>7, <3>1, UnseenOn
  <2>10. o.status # "stopped"
    BY <2>9 DEF Unseen
  <2>11. /\ Unseen(ChangeByItself(at), at) /\ Unseen(ChangeByItself(o), o)
         /\ Unseen(Reload(at, 0), at)
    BY <2>4, <2>6, <2>8, <2>10, ItselfUnseen, ReloadUnseen
  <2>12. /\ Unseen(ChangeByItself(at), e) /\ Unseen(ChangeByItself(o), e)
         /\ Unseen(Reload(at, 0), e)
    BY <2>5, <2>9, <2>11, UnseenOn
  <2> QED BY <2>1, <2>12
<1>2. CASE ~Buffered(e, 1) /\ Peek(e.q, 1) # None
  BY <1>2, ReloadUnseen DEF NextTrack
<1>3. CASE ~Buffered(e, 1) /\ Peek(e.q, 1) = None
  <2>1. Sound(list, p) /\ Only(list, e, {"skip"})
    BY SkipSet
  <2>2. Unseen(list, e)
    <3> HIDE DEF list
    <3> QED BY <2>1, UnseenOnly
  <2>3. list.status # "stopped" /\ list.q = e.q
    BY <2>1 DEF Only, Fields
  <2>4. NextTrack(e) = IF after = -1 THEN MonitorEnd(list) ELSE Reload(g, -1)
    <3>1. NextTrack(e) = IF after = -1 THEN MonitorEnd(list)
                         ELSE Reload([list EXCEPT !.q = GoTo(@, after)], -1)
      BY <1>3 DEF NextTrack, WithSkip
    <3>2. after = NextIndex(list.q, one)
      BY <2>3
    <3> QED BY <3>1, <3>2
  <2> HIDE DEF list
  <2>5. CASE after = -1
    <3>1. Unseen(MonitorEnd(list), list)
      BY <2>1, <2>3, EndUnseen
    <3>2. Unseen(MonitorEnd(list), e)
      BY <2>2, <3>1, UnseenOn
    <3> QED BY <2>4, <2>5, <3>2
  <2>6. CASE after # -1
    <3>1. one \in Int /\ NextIndex(list.q, one) # -1
      BY <2>3, <2>6
    <3> HIDE DEF one
    <3>2. Sound(g, p) /\ Unseen(g, list)
      BY <2>1, <3>1, GoneUnseen
    <3> HIDE DEF g
    <3>3. g.status # "stopped"
      BY <2>3, <3>2 DEF Unseen
    <3> DEFINE back == -1
    <3>4. back \in Int
      OBVIOUS
    <3>5. Unseen(Reload(g, back), g)
      <4> HIDE DEF back
      <4> QED BY <3>2, <3>3, <3>4, ReloadUnseen
    <3>6. Unseen(Reload(g, back), e)
      <4> HIDE DEF back
      <4> QED BY <2>2, <3>2, <3>5, UnseenOn
    <3> HIDE DEF after
    <3> QED BY <2>4, <2>6, <3>6
  <2> QED BY <2>5, <2>6
<1> QED BY <1>1, <1>2, <1>3

LEMMA CompleteUnseen ==
  ASSUME AllOk(file), NEW p \in BOOLEAN, NEW e, Sound(e, p)
  PROVE  Unseen(OnCodecComplete(e), e)
<1> DEFINE l == WithLate(e, FALSE)
           s == WithSkip(l, "auto")
           late == WithLate(e, TRUE)
<1>1. CASE e.status = "stopped"
  BY <1>1, SameUnseen DEF OnCodecComplete
<1>2. CASE e.status # "stopped" /\ (e.status = "paused" \/ e.skip # "none")
  <2>1. OnCodecComplete(e) = late
    BY <1>2 DEF OnCodecComplete, RememberComplete, WithLate
  <2>2. Only(late, e, {"late"})
    BY <1>2, LateSet
  <2> HIDE DEF late
  <2>3. Unseen(late, e)
    BY <2>2, UnseenOnly
  <2> QED BY <2>1, <2>3
<1>3. CASE e.status # "stopped" /\ ~(e.status = "paused" \/ e.skip # "none")
  <2>1. OnCodecComplete(e) = NextTrack(s)
    <3>1. OnCodecComplete(e) = NextTrack([e EXCEPT !.late = FALSE, !.skip = "auto"])
      BY <1>3 DEF OnCodecComplete
    <3>2. s = [e EXCEPT !.late = FALSE, !.skip = "auto"]
      BY DEF WithSkip, WithLate
    <3> QED BY <3>1, <3>2
  <2>2. Sound(l, p) /\ Only(l, e, {"late"})
    BY LateSet
  <2> HIDE DEF l
  <2>3. l.status # "stopped"
    BY <1>3, <2>2 DEF Only, Fields
  <2>4. Sound(s, p) /\ Only(s, l, {"skip"})
    BY <2>2, <2>3, SkipSet
  <2> HIDE DEF s
  <2>5. Only(s, e, {"late", "skip"})
    BY <2>2, <2>4 DEF Only
  <2>6. Unseen(s, e)
    BY <2>5, UnseenOnly
  <2>7. s.status # "stopped"
    BY <1>3, <2>6 DEF Unseen
  <2>8. Unseen(NextTrack(s), s)
    BY <2>4, <2>7, NextUnseen
  <2> QED BY <2>1, <2>6, <2>8, UnseenOn
<1> QED BY <1>1, <1>2, <1>3

-----------------------------------------------------------------------------
(* Stopping, and the end of a change.                                      *)

LEMMA StopFollows ==
  ASSUME NEW p \in BOOLEAN, NEW e, Sound(e, p)
  PROVE  Follows(StopPlayback(e), e) /\ StopPlayback(e).q = e.q
<1>1. CASE e.status = "stopped"
  BY <1>1, SameUnseen DEF StopPlayback
<1>2. CASE e.status # "stopped"
  <2> DEFINE c == Clear(Halt(e), "none")
             r == [c EXCEPT !.skip = "none", !.playing = None,
                            !.status = "stopped", !.filling = "idle"]
  <2>1. StopPlayback(e) = r
    BY <1>2 DEF StopPlayback
  <2>2. /\ Sound(c, p)
        /\ Only(c, e, {"inbox", "codec", "mark", "late", "loading", "list", "cur"})
        /\ Alike(c, e, {"complete", "finish"})
    BY Emptied
  <2> HIDE DEF c
  <2>3. r.q = c.q /\ r.skipBy = c.skipBy /\ r.inbox = c.inbox
    BY <2>2 DEF Sound, Fit, Engine
  <2> HIDE DEF r
  <2>4. c.q = e.q /\ c.skipBy = e.skipBy
    BY <2>2 DEF Only, Fields
  <2>5. {"complete", "finish"} \in SUBSET Reports
    BY DEF Reports
  <2>6. Alike(c, e, Reports)
    BY <2>2, <2>5, AlikeMore
  <2>7. Alike(r, e, Reports)
    BY <2>3, <2>6 DEF Alike
  <2> QED BY <2>1, <2>3, <2>4, <2>7 DEF Follows
<1> QED BY <1>1, <1>2

LEMMA EndFollows ==
  ASSUME NEW p \in BOOLEAN, NEW e, Sound(e, p)
  PROVE  Follows(End(e), e) /\ End(e).status = "stopped" /\ End(e).late = FALSE
<1> DEFINE f == WithFilling(e, "ended")
<1>1. End(e) = StopPlayback(f)
  BY DEF End, WithFilling
<1>2. Sound(f, p) /\ Only(f, e, {"filling"})
  BY FillingSet
<1> HIDE DEF f
<1>3. Follows(f, e)
  BY <1>2, FollowsOnly
<1>4. Follows(StopPlayback(f), f)
  BY <1>2, StopFollows
<1> QED BY <1>1, <1>3, <1>4, FollowsOn, EndIs

LEMMA ShownFollows ==
  ASSUME NEW p \in BOOLEAN, NEW e, Sound(e, p), e.status # "stopped"
  PROVE  Follows(Shown(e), e) /\ Shown(e).status = e.status /\ Shown(e).q = e.q
<1> DEFINE r == Shown(e)
<1>1. Only(r, e, {"skip", "playing"})
  BY ShownIs
<1> HIDE DEF r
<1>2. Follows(r, e)
  BY <1>1, FollowsOnly
<1>3. r.status = e.status /\ r.q = e.q
  BY <1>1 DEF Only, Fields
<1> QED BY <1>2, <1>3 DEF r

\* The steps to the track that is shown.
Steps(e) == IF e.skip = "auto" THEN 1 ELSE 0

\* An automatic change at whose end there is no entry any more.
Stranded(e) == e.skip \in {"auto", "newlist"} /\ Peek(e.q, Steps(e)) = None

LEMMA FinaliseFollows ==
  ASSUME NEW p \in BOOLEAN, NEW e, Sound(e, p), e.status # "stopped"
  PROVE  LET r == Finalise(e)
         IN  /\ Follows(r, e)
             /\ r.status = e.status \/ (r.status = "stopped" /\ r.late = FALSE)
             /\ Stranded(e) => Unseen(r, e)
             /\ e.skip = "none" => r.q = e.q /\ r.status = e.status
             /\ e.skip = "endlist" => r.status = "stopped"
<1> DEFINE delta == Steps(e)
           a == Arrive(e, delta)
           s == WithSkip(e, "none")
<1>1. delta \in Int /\ e.q \in Queue /\ e.skip \in {"none", "auto", "newlist", "endlist"}
  BY DEF Steps, Sound, Fit, Engine
<1>2. CASE e.skip = "none"
  <2>1. Finalise(e) = Shown(e)
    BY <1>2 DEF Finalise
  <2> QED BY <1>2, <2>1, ShownFollows DEF Stranded
<1>3. CASE e.skip = "endlist"
  <2>1. Finalise(e) = End(e)
    BY <1>3 DEF Finalise
  <2> QED BY <1>3, <2>1, EndFollows DEF Stranded
<1>4. CASE e.skip \notin {"none", "endlist"} /\ Peek(e.q, delta) # None
  <2>1. Finalise(e) = Shown(a)
    BY <1>4 DEF Finalise, Steps
  <2>2. NextIndex(e.q, delta) # -1
    <3> HIDE DEF delta
    <3> QED BY <1>1, <1>4, PeekNext
  <2>3. Sound(a, p) /\ Only(a, e, {"q", "peek"})
    <3> HIDE DEF delta
    <3> QED BY <1>1, <2>2, Arrived
  <2>4. a.q.paths = e.q.paths /\ a.q.repeat = e.q.repeat
    <3>1. a.q = GoTo(e.q, NextIndex(e.q, delta))
      BY DEF Arrive, Sound, Fit, Engine
    <3> HIDE DEF a, delta
    <3> QED BY <1>1, <3>1, GoToPaths
  <2>5. ~Stranded(e)
    BY <1>4 DEF Stranded
  <2> HIDE DEF a
  <2>6. Follows(a, e)
    BY <2>3, <2>4, FollowsOnly
  <2>7. a.status = e.status
    BY <2>3 DEF Only, Fields
  <2>8. Follows(Shown(a), a) /\ Shown(a).status = a.status
    BY <2>3, <2>7, ShownFollows
  <2> QED BY <1>4, <2>1, <2>5, <2>6, <2>7, <2>8, FollowsOn
<1>5. CASE e.skip \notin {"none", "endlist"} /\ Peek(e.q, delta) = None
  <2>1. Finalise(e) = StartCodecFailed(s)
    BY <1>5 DEF Finalise, WithSkip, Steps
  <2>2. Sound(s, p) /\ Only(s, e, {"skip"})
    BY SkipSet
  <2> HIDE DEF s
  <2>3. Unseen(s, e)
    BY <2>2, UnseenOnly
  <2>4. s.status # "stopped"
    BY <2>3 DEF Unseen
  <2>5. Unseen(StartCodecFailed(s), s)
    BY <2>2, <2>4, CompletedUnseen
  <2>6. Unseen(Finalise(e), e)
    BY <2>1, <2>3, <2>5, UnseenOn
  <2> QED BY <1>5, <2>6 DEF Unseen
<1> QED BY <1>1, <1>2, <1>3, <1>4, <1>5

LEMMA ChangedFollows ==
  ASSUME AllOk(file), NEW p \in BOOLEAN, NEW e, Sound(e, p), e.status # "stopped"
  PROVE  LET r == OnTrackChanged(e)
         IN  /\ Follows(r, e) /\ r.status \in {e.status, "stopped"}
             /\ Stranded(e) => Unseen(r, e)
<1> DEFINE m == WithMark(e, "none")
           seen == Finalise(m)
           l == WithLate(seen, FALSE)
<1>1. Sound(m, p) /\ Only(m, e, {"mark"})
  BY MarkSet
<1>2. OnTrackChanged(e) = IF seen.late THEN OnCodecComplete(l) ELSE seen
  BY DEF OnTrackChanged, WithMark, WithLate
<1> HIDE DEF m
<1>3. /\ m.status = e.status /\ Unseen(m, e)
      /\ Stranded(m) <=> Stranded(e)
  <2>1. Unseen(m, e)
    BY <1>1, UnseenOnly
  <2>2. m.q = e.q /\ m.skip = e.skip
    BY <1>1 DEF Only, Fields
  <2> QED BY <2>1, <2>2 DEF Unseen, Stranded, Steps
<1>4. /\ Sound(seen, p) /\ Follows(seen, m)
      /\ seen.status \in {m.status, "stopped"}
      /\ Stranded(m) => Unseen(seen, m)
  BY <1>1, <1>3, SoundFinalise, FinaliseFollows
<1> HIDE DEF seen
<1>5. Sound(l, p) /\ Only(l, seen, {"late"})
  BY <1>4, LateSet
<1> HIDE DEF l
<1>6. Unseen(l, seen)
  BY <1>5, UnseenOnly
<1>7. Unseen(OnCodecComplete(l), l)
  BY <1>5, CompleteUnseen
<1>8. Unseen(OnTrackChanged(e), seen)
  BY <1>2, <1>6, <1>7, UnseenOn, SameUnseen
<1>9. Follows(seen, e) /\ (Stranded(e) => Unseen(seen, e))
  BY <1>3, <1>4, FollowsOn, UnseenOn DEF Unseen
<1>10. Follows(OnTrackChanged(e), e)
  BY <1>8, <1>9, FollowsOn DEF Unseen
<1>11. OnTrackChanged(e).status \in {e.status, "stopped"}
  BY <1>3, <1>4, <1>8 DEF Unseen
<1>12. Stranded(e) => Unseen(OnTrackChanged(e), e)
  BY <1>8, <1>9, UnseenOn
<1> QED BY <1>10, <1>11, <1>12

-----------------------------------------------------------------------------
(* Play, pause and resume.                                                 *)

LEMMA AfreshFollows ==
  ASSUME NEW p \in BOOLEAN, ~p, NEW e, Sound(e, p)
  PROVE  Follows(Afresh(e), e) /\ Afresh(e).q = e.q
<1>1. CASE e.status = "stopped"
  <2> DEFINE r == WithStatus(e, "playing")
  <2>1. Only(r, e, {"status"})
    BY StatusSet
  <2>2. Afresh(e) = r
    BY <1>1 DEF Afresh
  <2> HIDE DEF r
  <2>3. Follows(r, e)
    BY <2>1, FollowsOnly
  <2>4. r.q = e.q
    BY <2>1 DEF Only, Fields
  <2> QED BY <2>2, <2>3, <2>4
<1>2. CASE e.status # "stopped"
  <2> DEFINE c == Clear(Halt(e), "none")
             n == WithPlaying(c, None)
             s == WithSkip(n, "none")
  <2>1. Afresh(e) = s
    BY <1>2 DEF Afresh
  <2>2. /\ Sound(c, p)
        /\ Only(c, e, {"inbox", "codec", "mark", "late", "loading", "list", "cur"})
        /\ Alike(c, e, {"complete", "finish"})
    BY Emptied
  <2> HIDE DEF c
  <2>3. Sound(n, p) /\ Only(n, c, {"playing"})
    BY <2>2, PlayingSet
  <2> HIDE DEF n
  <2>4. Only(s, n, {"skip"})
    BY <2>3, SkipSet
  <2> HIDE DEF s
  <2>5. Only(s, c, {"playing", "skip"})
    BY <2>3, <2>4 DEF Only
  <2>6. {"complete", "finish"} \in SUBSET Reports
    BY DEF Reports
  <2>7. Follows(c, e)
    BY <2>2, <2>6, AlikeMore, FollowsOnly
  <2>8. Follows(s, c)
    BY <2>5, FollowsOnly
  <2>9. Follows(s, e)
    BY <2>7, <2>8, FollowsOn
  <2>10. s.q = e.q
    BY <2>2, <2>5 DEF Only, Fields
  <2> QED BY <2>1, <2>9, <2>10
<1> QED BY <1>1, <1>2

\* A track whose audio is still to be read, and that will be announced.
Unready(e) == e.cur # 0 /\ ~Audio(e) /\ Lead(e) = 0

\* Playback begins with the loading of a track, and with no track to be seen.
LEMMA PlayIs ==
  ASSUME AllOk(file), NEW e, Sound(e, FALSE)
  PROVE  LET r == OnPlay(e)
         IN  /\ Follows(r, e) /\ r.q = e.q /\ r.playing = None
             /\ r.status # "stopped" /\ r.cur # 0 /\ ~Audio(r)
<1> DEFINE p == FALSE
           a == Afresh(e)
           none == -1
           k == WithPeek(a, none)
           r == Fill(k)
           f == WithPlaying(r, Id3(r, r.cur))
<1>1. OnPlay(e) = IF r.stat = "ok" THEN f ELSE LoadFailed(r)
  BY OnPlayIs
<1>2. p \in BOOLEAN /\ ~p /\ Sound(e, p)
  OBVIOUS
<1>3. none \in Int /\ none + 1 = 0
  OBVIOUS
<1> HIDE DEF p
<1>4. /\ Sound(a, p) /\ a.status # "stopped" /\ a.list = <<>> /\ a.cur = 0
      /\ a.loading = "no" /\ Follows(a, e) /\ a.q = e.q
  BY <1>2, AfreshIs, AfreshFollows
<1> HIDE DEF a, none
<1>5. Sound(k, p) /\ Only(k, a, {"peek"}) /\ k.peek = none
  BY <1>2, <1>3, <1>4, PeekSet
<1>6. /\ k.status = a.status /\ k.list = a.list /\ k.cur = a.cur /\ k.q = a.q
      /\ k.loading = a.loading
  BY <1>5 DEF Only, Fields
<1>7. Unseen(k, a)
  BY <1>5, UnseenOnly
<1> HIDE DEF k
<1>8. /\ Sound(r, p) /\ Unseen(r, k) /\ r.q = k.q /\ r = LoadTrack(k)
  BY <1>2, <1>4, <1>5, <1>6, Filled, FillUnseen
<1>9. Seeks(r, k)
  BY <1>2, <1>4, <1>5, <1>6, <1>8, LoadTrackSeeks
<1> HIDE DEF r
<1>10. Peek(e.q, 0) \in Tracks
  <2>1. Sane(e.q) /\ Length(e.q) > 0
    BY DEF Sound, Fit, Tame
  <2> QED BY <2>1, PeekHere
<1>11. Peek(r.q, k.peek + 1) = Peek(e.q, 0) /\ Peek(e.q, 0) # None
  BY <1>3, <1>4, <1>5, <1>6, <1>8, <1>10, NoneAssumption
<1>12. ~(Len(k.list) >= MaxBuffered)
  BY <1>4, <1>6, BoundAssumption
<1>13. /\ r.list = Append(k.list, Peek(r.q, k.peek + 1))
       /\ r.cur = (IF k.cur = 0 THEN 1 ELSE k.cur)
       /\ r.loading = "reading" /\ r.stat = "ok"
  BY <1>9, <1>11, <1>12 DEF Seeks
<1>14. r.cur = 1 /\ Len(r.list) = 1
  BY <1>4, <1>6, <1>13
<1>15. Id3(r, r.cur) = None /\ ~Audio(r)
  BY <1>13, <1>14, AudioIs DEF Id3, InLoad
<1>16. r.status # "stopped"
  BY <1>4, <1>6, <1>8 DEF Unseen
<1>17. None \in Tracks \cup {None}
  OBVIOUS
<1>18. Only(f, r, {"playing"}) /\ f.playing = None
  BY <1>2, <1>8, <1>15, <1>17, PlayingSet
<1>19. OnPlay(e) = f
  BY <1>1, <1>13
<1> HIDE DEF f
<1>20. Follows(f, r)
  BY <1>18, FollowsOnly
<1>21. Follows(f, e)
  BY <1>4, <1>7, <1>8, <1>20, FollowsOn DEF Unseen
<1>22. /\ f.q = r.q /\ f.status = r.status /\ f.cur = r.cur /\ f.list = r.list
       /\ f.loading = r.loading
  BY <1>18 DEF Only, Fields
<1>23. ~Audio(f)
  BY <1>15, <1>22, AudioIs
<1> QED BY <1>4, <1>6, <1>8, <1>14, <1>16, <1>18, <1>19, <1>21, <1>22, <1>23

LEMMA PauseIs ==
  ASSUME AllOk(file), NEW p \in BOOLEAN, NEW e, Sound(e, p), NEW pause \in BOOLEAN
  PROVE  LET r == OnPause(e, pause)
         IN  /\ Follows(r, e) /\ r.playing = e.playing
             /\ r.status = IF e.status = "stopped" THEN "stopped"
                           ELSE IF pause THEN "paused" ELSE "playing"
             /\ pause \/ ~e.late => Only(r, e, {"status"})
<1> DEFINE to == IF pause THEN "paused" ELSE "playing"
           now == WithStatus(e, to)
           r == OnPause(e, pause)
<1>1. r = IF e.status = "stopped" \/ pause = (e.status = "paused") THEN e
          ELSE IF ~pause /\ e.late THEN OnCodecComplete(now) ELSE now
  BY OnPauseIs
<1>2. CASE e.status = "stopped" \/ pause = (e.status = "paused")
  <2>1. r = e
    BY <1>1, <1>2
  <2>2. e.status \in {"stopped", "playing", "paused"}
    BY DEF Sound, Fit, Engine
  <2>3. r.status = IF e.status = "stopped" THEN "stopped" ELSE to
    BY <1>2, <2>1, <2>2
  <2>4. Only(e, e, {"status"})
    BY DEF Only
  <2> QED BY <2>1, <2>3, <2>4, SameUnseen
<1>3. CASE ~(e.status = "stopped" \/ pause = (e.status = "paused"))
  <2>1. to \in {"playing", "paused"}
    OBVIOUS
  <2>2. Sound(now, p) /\ Only(now, e, {"status"}) /\ now.status = to
    <3> HIDE DEF to
    <3> QED BY <1>3, <2>1, StatusSet
  <2>3. r = IF ~pause /\ e.late THEN OnCodecComplete(now) ELSE now
    BY <1>1, <1>3
  <2> HIDE DEF now, r, to
  <2>4. Follows(now, e)
    BY <2>2, FollowsOnly
  <2>5. now.playing = e.playing
    BY <2>2 DEF Only, Fields
  <2>6. Unseen(r, now)
    BY <2>2, <2>3, CompleteUnseen, SameUnseen
  <2>7. Follows(r, e) /\ r.playing = e.playing /\ r.status = to
    BY <2>2, <2>4, <2>5, <2>6, FollowsOn DEF Unseen
  <2>8. pause \/ ~e.late => r = now
    BY <2>3
  <2> QED BY <1>3, <2>2, <2>7, <2>8 DEF to, r
<1> QED BY <1>2, <1>3

-----------------------------------------------------------------------------
(* The metadata of a track, a seek and a skip.                             *)

LEMMA FinishedFollows ==
  ASSUME AllOk(file), NEW e, Fit(e), e.loading = "read", NEW r, Finished(r, e)
  PROVE  Follows(r, e) /\ r.status = e.status /\ r.q = e.q
<1> DEFINE n == Len(e.list)
<1>1. file[e.list[n]] = "ok"
  <2>1. e.list \in Seq(Tracks) /\ e.list # <<>>
    BY DEF Fit, Engine
  <2>2. e.list[n] \in Tracks
    BY <2>1
  <2> QED BY <2>2 DEF AllOk
<1>2. {"fill"} \in SUBSET Reports
  BY DEF Reports
<1>3. CASE Only(r, e, {"filling", "stat"})
  <2>1. Follows(r, e)
    BY <1>3, FollowsOnly
  <2> QED BY <1>3, <2>1 DEF Only, Fields
<1>4. CASE /\ Only(r, e, {"loading", "stat", "inbox", "codec", "playing"})
           /\ Alike(r, e, {"fill"})
  <2>1. Follows(r, e)
    BY <1>2, <1>4, AlikeMore, FollowsOnly
  <2> QED BY <1>4, <2>1 DEF Only, Fields
<1>5. Only(r, e, {"loading", "stat", "inbox"})
      => Only(r, e, {"loading", "stat", "inbox", "codec", "playing"})
  BY DEF Only
<1> QED BY <1>1, <1>3, <1>4, <1>5 DEF Finished

LEMMA UndoneFollows ==
  ASSUME AllOk(file), NEW p \in BOOLEAN, NEW e, Sound(e, p)
  PROVE  Unseen(Undone(e), e) /\ Undone(e).q = e.q
<1> DEFINE h == Halt(e)
           v == h.cur - 1
           c == WithCur(h, v)
           none == -1
           o == WithStat(h, "ok")
           u == WithStat(c, "ok")
<1>1. /\ Sound(h, p) /\ Only(h, e, {"inbox", "codec", "mark", "late"})
      /\ Alike(h, e, {"complete"})
  BY Halted
<1>2. Undone(e) = IF e.skip # "auto" THEN o
                  ELSE IF Buffered(h, none) THEN u ELSE Rebuffer(h, "none", none)
  BY DEF Undone
<1> HIDE DEF h
<1>3. {"complete"} \in SUBSET Reports
  BY DEF Reports
<1>4. Alike(h, e, Reports)
  BY <1>1, <1>3, AlikeMore
<1>5. Unseen(h, e)
  BY <1>1, <1>4, UnseenOnly
<1>6. h.q = e.q
  BY <1>1 DEF Only, Fields
<1>7. Unseen(o, h) /\ o.q = h.q
  <2>1. Only(o, h, {"stat"})
    BY <1>1, StatSet
  <2> HIDE DEF o
  <2>2. Unseen(o, h)
    BY <2>1, UnseenOnly
  <2> QED BY <2>1, <2>2 DEF Only, Fields
<1>8. ASSUME Buffered(h, none) PROVE Unseen(u, h) /\ u.q = h.q
  <2>1. v \in 1 .. Len(h.list)
    BY <1>1, <1>8 DEF Buffered, Sound, Fit, Engine
  <2> HIDE DEF v
  <2>2. Sound(c, p) /\ Only(c, h, {"cur"})
    BY <1>1, <2>1, CurSet
  <2> HIDE DEF c
  <2>3. Only(u, c, {"stat"})
    BY <2>2, StatSet
  <2> HIDE DEF u
  <2>4. Only(u, h, {"cur", "stat"})
    BY <2>2, <2>3 DEF Only
  <2>5. Unseen(u, h)
    BY <2>4, UnseenOnly
  <2> QED BY <2>4, <2>5 DEF Only, Fields
<1>9. Unseen(Rebuffer(h, "none", none), h) /\ Rebuffer(h, "none", none).q = h.q
  <2>1. none \in Int
    OBVIOUS
  <2> HIDE DEF none
  <2> QED BY <1>1, <2>1, RebufferUnseen
<1> HIDE DEF none, o, u
<1>10. Unseen(Undone(e), h) /\ Undone(e).q = h.q
  BY <1>2, <1>7, <1>8, <1>9
<1> QED BY <1>5, <1>6, <1>10, UnseenOn

LEMMA SeekFollows ==
  ASSUME AllOk(file), NEW p \in BOOLEAN, NEW e, Sound(e, p)
  PROVE  LET r == OnSeek(e)
         IN  Follows(r, e) /\ r.status = e.status /\ r.q = e.q
<1> DEFINE back == Undone(e)
           now == WithSkip(back, "none")
<1>1. Fit(Halt(e))
  BY Halted DEF Sound
<1>2. OnSeek(e) = IF e.status = "stopped" \/ e.skip = "newlist" THEN e
                  ELSE IF back.stat # "ok" THEN StartCodecFailed(back)
                  ELSE IF now.cur = 0 THEN WithPlaying(now, None)
                  ELSE IF ~HasAudio(now, now.cur)
                  THEN WithPlaying(now, Id3(now, now.cur))
                  ELSE WithCodec(now, "decoding")
  BY <1>1, OnSeekIs
<1>3. CASE e.status = "stopped" \/ e.skip = "newlist"
  BY <1>2, <1>3, SameUnseen
<1>4. CASE ~(e.status = "stopped" \/ e.skip = "newlist")
  <2>1. Sound(back, p) /\ Unseen(back, e) /\ back.q = e.q
    BY SoundUndone, UndoneFollows
  <2> HIDE DEF back
  <2>2. back.status = e.status /\ Follows(back, e)
    BY <2>1 DEF Unseen
  <2>3. Sound(now, p) /\ Only(now, back, {"skip"})
    BY <1>4, <2>1, <2>2, SkipSet
  <2> HIDE DEF now
  <2>4. now.status # "stopped"
    BY <1>4, <2>2, <2>3 DEF Only, Fields
  <2>5. now.cur # 0 => Id3(now, now.cur) \in Tracks \cup {None}
    <3>1. now.cur # 0 => now.cur \in 1 .. Len(now.list)
      BY <2>3 DEF Sound, Fit, Engine
    <3> QED BY <2>3, <3>1, Id3Is DEF Sound
  <2>6. /\ Only(WithPlaying(now, None), now, {"playing"})
        /\ now.cur # 0 => Only(WithPlaying(now, Id3(now, now.cur)), now, {"playing"})
        /\ Only(WithCodec(now, "decoding"), now, {"codec"})
    BY <2>3, <2>4, <2>5, PlayingSet, CodecSet
  <2>7. \A r : Only(r, now, {"playing"}) \/ Only(r, now, {"codec"})
               => Only(r, back, {"skip", "playing", "codec"})
    BY <2>3 DEF Only
  <2>8. ASSUME NEW r, Only(r, back, {"skip", "playing", "codec"})
        PROVE  Follows(r, e) /\ r.status = e.status /\ r.q = e.q
    <3>1. Follows(r, back)
      BY <2>8, FollowsOnly
    <3>2. r.status = back.status /\ r.q = back.q
      BY <2>8 DEF Only, Fields
    <3> QED BY <2>1, <2>2, <3>1, <3>2, FollowsOn
  <2>9. /\ Follows(StartCodecFailed(back), e) /\ StartCodecFailed(back).q = e.q
        /\ StartCodecFailed(back).status = e.status
    <3>1. Unseen(StartCodecFailed(back), back) /\ StartCodecFailed(back).q = back.q
      BY <1>4, <2>1, <2>2, CompletedUnseen
    <3> QED BY <2>1, <2>2, <3>1, FollowsOn DEF Unseen
  <2> QED BY <1>2, <1>4, <2>6, <2>7, <2>8, <2>9
<1> QED BY <1>3, <1>4

LEMMA LandUnseen ==
  ASSUME AllOk(file), NEW p \in BOOLEAN, NEW e, Sound(e, p), NEW d \in Int
  PROVE  LET r == Land(e, d)
         IN  Unseen(r, e) /\ r.q = e.q /\ r.skip = e.skip
<1> DEFINE c == WithCur(e, e.cur + d)
           k == -1
           r == Rebuffer(e, "none", k)
<1>1. CASE Buffered(e, d) /\ HasAudio(e, e.cur + d)
  <2>1. Land(e, d) = c
    BY <1>1 DEF Land, WithCur
  <2>2. Only(c, e, {"cur"})
    BY <1>1, CurSet DEF Buffered
  <2> HIDE DEF c
  <2>3. Unseen(c, e)
    BY <2>2, UnseenOnly
  <2>4. c.q = e.q /\ c.skip = e.skip
    BY <2>2 DEF Only, Fields
  <2> QED BY <2>1, <2>3, <2>4
<1>2. CASE ~(Buffered(e, d) /\ HasAudio(e, e.cur + d))
  <2>1. Land(e, d) = r /\ k \in Int
    BY <1>2 DEF Land
  <2> HIDE DEF k
  <2>2. Only(r, e, BufferFields) /\ Unseen(r, e) /\ r.q = e.q
    BY <2>1, Rebuffered, RebufferUnseen
  <2> HIDE DEF r
  <2>3. r.skip = e.skip
    BY <2>2 DEF Only, Fields, BufferFields
  <2> QED BY <2>1, <2>2, <2>3
<1> QED BY <1>1, <1>2

LEMMA ByHandFollows ==
  ASSUME NEW p \in BOOLEAN, NEW e, Sound(e, p), e.status # "stopped", e.skip = "none"
  PROVE  LET r == ChangeByHand(e)
         IN  Follows(r, e) /\ r.status = e.status /\ r.q = e.q
<1> DEFINE seen == Finalise(e)
<1>1. /\ Sound(seen, p) /\ Follows(seen, e)
      /\ seen.q = e.q /\ seen.status = e.status
  BY SoundFinalise, FinaliseFollows
<1>2. ChangeByHand(e) = StartTrack(seen, TRUE)
  BY <1>1 DEF ChangeByHand
<1> HIDE DEF seen
<1> DEFINE r == StartTrack(seen, TRUE)
<1>3. Follows(r, seen) /\ r.status = seen.status /\ r.q = seen.q
  BY <1>1, StartUnseen
<1> HIDE DEF r
<1> QED BY <1>1, <1>2, <1>3, FollowsOn DEF r

LEMMA SkipIs ==
  ASSUME AllOk(file), NEW p \in BOOLEAN, NEW e, Sound(e, p), NEW r \in OnSkip(e)
  PROVE  LET i == NextIndex(e.q, QueueSteps(e, e.skipBy))
         IN  /\ r.q.paths = e.q.paths /\ r.q.repeat = e.q.repeat
             /\ r.skipBy = 0 /\ Alike(r, e, Reports)
             /\ e.status = "stopped" => r.q = e.q
             /\ r.status \in {e.status, "stopped"}
             /\ e.status # "stopped" /\ i # -1
                => r.status = e.status /\ r.q = GoTo(e.q, i)
<1> DEFINE i == NextIndex(e.q, QueueSteps(e, e.skipBy))
<1>1. e.q \in Queue
  BY DEF Sound, Fit, Engine
<1>2. {"finish", "complete"} \in SUBSET Reports
  BY DEF Reports
<1>3. CASE e.status = "stopped"
  <2>1. r = WithSkipBy(e, 0)
    BY <1>3, OnSkipIs
  <2>2. Only(r, e, {"skipBy"}) /\ r.skipBy = 0
    BY <2>1, SkipBySet
  <2>3. r.q = e.q /\ r.status = e.status /\ r.inbox = e.inbox
    BY <2>2 DEF Only, Fields
  <2> QED BY <1>3, <2>2, <2>3, AlikeSame
<1>4. CASE /\ e.status # "stopped" /\ r.status = "stopped"
           /\ \E at : Sound(at, p) /\ Ready(at, e) /\ r = End(at)
           /\ AllOk(file) => i = -1
  <2>1. PICK at : Sound(at, p) /\ Ready(at, e) /\ r = End(at)
    BY <1>4
  <2>2. Follows(r, at)
    BY <2>1, EndFollows
  <2>3. at.q = e.q /\ at.skipBy = 0 /\ Alike(at, e, Reports)
    BY <1>2, <2>1, AlikeMore DEF Ready
  <2>4. Alike(r, e, Reports)
    BY <2>2, <2>3 DEF Follows, Alike
  <2> QED BY <1>4, <2>2, <2>3, <2>4 DEF Follows
<1>5. CASE e.status # "stopped"
           /\ \E at, s, d : /\ Sound(at, p) /\ Goes(e, at, s, d)
                            /\ r = ChangeByHand(Land(Arrive(at, s), d))
  <2>1. PICK at, s, d : /\ Sound(at, p) /\ Goes(e, at, s, d)
                        /\ r = ChangeByHand(Land(Arrive(at, s), d))
    BY <1>5
  <2> DEFINE a == Arrive(at, s)
             l == Land(a, d)
  <2>2. /\ s \in Int /\ d \in Int /\ NextIndex(at.q, s) # -1
        /\ at.status = e.status /\ at.q = e.q /\ at.skipBy = 0
        /\ at.skip = "none" /\ Alike(at, e, {"finish", "complete"})
        /\ i # -1 => s = QueueSteps(e, e.skipBy)
    BY <2>1 DEF Goes, Ready
  <2>3. Sound(a, p) /\ Only(a, at, {"q", "peek"})
    BY <2>1, <2>2, Arrived
  <2>4. a.q = GoTo(at.q, NextIndex(at.q, s))
    BY <2>1 DEF Arrive, Sound, Fit, Engine
  <2>5. a.q.paths = at.q.paths /\ a.q.repeat = at.q.repeat
    BY <1>1, <2>2, <2>4, GoToPaths
  <2> HIDE DEF a
  <2>6. a.status = e.status /\ a.skip = "none"
    BY <2>2, <2>3 DEF Only, Fields
  <2>7. Follows(a, at)
    BY <2>3, <2>5, FollowsOnly
  <2>8. Sound(l, p) /\ Unseen(l, a) /\ l.q = a.q /\ l.skip = a.skip
    BY <2>2, <2>3, SoundLand, LandUnseen
  <2> HIDE DEF l
  <2>9. l.status = e.status /\ l.skip = "none"
    BY <2>6, <2>8 DEF Unseen
  <2>10. r = ChangeByHand(l)
    BY <2>1 DEF l, a
  <2>11. Follows(r, l) /\ r.status = l.status /\ r.q = l.q
    BY <1>5, <2>8, <2>9, <2>10, ByHandFollows
  <2>12. Follows(r, at)
    <3>1. Follows(l, at)
      BY <2>7, <2>8, FollowsOn DEF Unseen
    <3> QED BY <2>11, <3>1, FollowsOn
  <2>13. Alike(at, e, Reports)
    BY <1>2, <2>2, AlikeMore
  <2>14. Alike(r, e, Reports)
    BY <2>12, <2>13 DEF Follows, Alike
  <2>15. r.q.paths = e.q.paths /\ r.q.repeat = e.q.repeat /\ r.skipBy = 0
    BY <2>2, <2>12 DEF Follows
  <2>16. i # -1 => r.q = GoTo(e.q, i)
    BY <2>2, <2>4, <2>8, <2>11
  <2> QED BY <1>5, <2>9, <2>11, <2>14, <2>15, <2>16
<1> QED BY <1>3, <1>4, <1>5, OnSkipIs

-----------------------------------------------------------------------------
(* A message is handled.                                                   *)

\* What becomes of the status.
Turned(r, e, m) ==
    CASE m = "play" -> r.status # "stopped"
      [] m = "stop" -> r.status = "stopped"
      [] m = "skip" -> r.status \in {e.status, "stopped"}
      [] m = "pause" -> r.status = IF e.status = "stopped" THEN "stopped" ELSE "paused"
      [] m = "resume" -> r.status = IF e.status = "stopped" THEN "stopped" ELSE "playing"
      [] OTHER -> r.status = e.status

\* And of the queue and the commands.
Heeded(r, e, m) ==
    /\ r.q.paths = e.q.paths /\ r.q.repeat = e.q.repeat /\ Alike(r, e, Reports)
    /\ r.skipBy = (IF m = "skip" THEN 0 ELSE e.skipBy)
    /\ Turned(r, e, m)

LEMMA HandleHeeded ==
  ASSUME AllOk(file), NEW p \in BOOLEAN, NEW e, Sound(e, p), NEW m \in Messages,
         m = "play" => ~p,
         m = "finish" => /\ e.loading = "read" /\ e.filling # "full"
                         /\ ~In(e.inbox, "finish"),
         NEW r \in Handle(e, m)
  PROVE  Heeded(r, e, m)
<1>1. CASE m = "fill"
  <2>1. r = LoadFailed(Fill(e))
    BY <1>1 DEF Handle
  <2> QED BY <1>1, <2>1, FillUnseen DEF Heeded, Turned, Unseen, Follows
<1>2. CASE m = "finish"
  <2>1. PICK full \in BOOLEAN : r = OnFinishLoad(e, full)
    BY <1>2 DEF Handle
  <2>2. Finished(r, e)
    BY <1>2, <2>1, FinishedIs
  <2>3. Follows(r, e) /\ r.status = e.status
    BY <1>2, <2>2, FinishedFollows DEF Sound
  <2> QED BY <1>2, <2>3 DEF Heeded, Turned, Follows
<1>3. CASE m = "complete"
  <2>1. r = OnCodecComplete(e)
    BY <1>3 DEF Handle
  <2> QED BY <1>3, <2>1, CompleteUnseen DEF Heeded, Turned, Unseen, Follows
<1>4. CASE m = "rebuffer"
  <2> DEFINE k == IF e.skip = "auto" THEN 1 ELSE 0
             b == Rebuffer(e, "current", k)
  <2>1. r = e \/ r = b
    BY <1>4 DEF Handle, OnRebuffer
  <2>2. k \in Int
    OBVIOUS
  <2>3. Unseen(b, e)
    <3> HIDE DEF k
    <3> QED BY <2>2, RebufferUnseen
  <2>4. Unseen(r, e)
    <3> HIDE DEF b
    <3> QED BY <2>1, <2>3, SameUnseen
  <2> QED BY <1>4, <2>4 DEF Heeded, Turned, Unseen, Follows
<1>5. CASE m = "skip"
  <2>1. r \in OnSkip(e)
    BY <1>5 DEF Handle
  <2> QED BY <1>5, <2>1, SkipIs DEF Heeded, Turned
<1>6. CASE m = "seek"
  <2>1. r = OnSeek(e)
    BY <1>6 DEF Handle
  <2> QED BY <1>6, <2>1, SeekFollows DEF Heeded, Turned, Follows
<1>7. CASE m = "play"
  <2>1. r = OnPlay(e)
    BY <1>7 DEF Handle
  <2>2. Sound(e, FALSE)
    BY <1>7
  <2> QED BY <1>7, <2>1, <2>2, PlayIs DEF Heeded, Turned, Follows
<1>8. CASE m = "stop"
  <2>1. r = StopPlayback(e)
    BY <1>8 DEF Handle
  <2> QED BY <1>8, <2>1, StopFollows, StopPlaybackIs DEF Heeded, Turned, Follows
<1>9. CASE m = "pause"
  <2>1. r = OnPause(e, TRUE)
    BY <1>9 DEF Handle
  <2> QED BY <1>9, <2>1, PauseIs DEF Heeded, Turned, Follows
<1>10. CASE m = "resume"
  <2>1. r = OnPause(e, FALSE)
    BY <1>10 DEF Handle
  <2> QED BY <1>10, <2>1, PauseIs DEF Heeded, Turned, Follows
<1> QED BY <1>1, <1>2, <1>3, <1>4, <1>5, <1>6, <1>7, <1>8, <1>9, <1>10 DEF Messages

\* The thread does not hang: it goes on from where the handler has left it.
LEMMA SettledIs ==
  ASSUME AllOk(file), NEW r, Sound(r, FALSE), Settle(r)
  PROVE  engine' = WithStat(r, "ok") /\ Only(engine', r, {"stat"})
<1> DEFINE p == FALSE
           w == WithStat(r, "ok")
<1>1. p \in BOOLEAN /\ Sound(r, p) /\ ~r.hung
  BY DEF Sound, Tame
<1>2. engine' = w
  BY <1>1 DEF Settle, WithStat
<1>3. Only(w, r, {"stat"})
  <2> HIDE DEF p
  <2> QED BY <1>1, StatSet
<1> QED BY <1>2, <1>3

\* m is taken from the inbox, t is the engine without it, and r what its handler
\* makes of that.
Handles(m, t, r) ==
    /\ m = Head(engine.inbox) /\ m \in Messages
    /\ t = WithInbox(engine, Tail(engine.inbox)) /\ Sound(t, FALSE)
    /\ Took(t, engine, m)
    /\ r \in Handle(t, m) /\ Sound(r, FALSE) /\ Only(engine', r, {"stat"})
    /\ m = "finish" => /\ t.loading = "read" /\ t.filling # "full"
                       /\ ~In(t.inbox, "finish")
    /\ Heeded(r, t, m)

LEMMA Taking ==
  ASSUME Kept(engine), AllOk(file), TakeMessage
  PROVE  \E m, t, r : Handles(m, t, r)
<1> DEFINE t == WithInbox(engine, Tail(engine.inbox))
           m == Head(engine.inbox)
           p == FALSE
<1>1. PICK r \in Handle(t, m) : Settle(r)
  BY DEF TakeMessage, WithInbox
<1>2. engine.inbox # <<>>
  BY DEF TakeMessage
<1>3. p \in BOOLEAN /\ ~p /\ Sound(engine, p)
  BY DEF Kept
<1>4. Sound(t, p) /\ Took(t, engine, m) /\ m \in Messages
  <2>1. p => p /\ m # "play"
    OBVIOUS
  <2> HIDE DEF p
  <2> QED BY <1>2, <1>3, <2>1, TookIs
<1>5. m = Head(engine.inbox) /\ t = WithInbox(engine, Tail(engine.inbox))
  OBVIOUS
<1> HIDE DEF t, m
<1>6. m = "finish" => /\ t.loading = "read" /\ t.filling # "full"
                      /\ ~In(t.inbox, "finish")
  <2>1. t.loading = engine.loading /\ t.filling = engine.filling
    BY <1>4 DEF Took, Only, Fields
  <2>2. Mailed(engine)
    BY <1>3 DEF Sound
  <2> QED BY <1>4, <2>1, <2>2 DEF Took, Mailed
<1>7. Sound(r, p) /\ Heeded(r, t, m)
  <2>1. m = "play" => ~p
    BY <1>3
  <2> HIDE DEF p
  <2> QED BY <1>1, <1>3, <1>4, <1>6, <2>1, SoundHandle, HandleHeeded
<1>8. Only(engine', r, {"stat"})
  BY <1>1, <1>7, SettledIs
<1>9. Handles(m, t, r)
  BY <1>1, <1>4, <1>5, <1>6, <1>7, <1>8 DEF Handles
<1> QED BY <1>9

\* The commands in the inbox, after the message m has been handled.
Answers(s, inbox, m) ==
    /\ m \in Messages /\ In(inbox, m)
    /\ \A x : x \notin Reports => (Once(inbox, x) => Once(s, x))
    /\ \A x : x \notin Reports \cup {m} => (In(s, x) <=> In(inbox, x))
    /\ m \notin Reports /\ Once(inbox, m) => ~In(s, m)

LEMMA Answering ==
  ASSUME NEW m, NEW t, NEW r, Handles(m, t, r)
  PROVE  /\ Answers(engine'.inbox, engine.inbox, m)
         /\ engine'.q.paths = engine.q.paths /\ engine'.q.repeat = engine.q.repeat
         /\ engine'.skipBy = (IF m = "skip" THEN 0 ELSE engine.skipBy)
         /\ Turned(engine', engine, m)
<1>1. /\ Only(t, engine, {"inbox"}) /\ In(engine.inbox, m) /\ m \in Messages
      /\ \A x : x # m => (In(t.inbox, x) <=> In(engine.inbox, x))
      /\ \A x : Once(engine.inbox, x) => Once(t.inbox, x)
      /\ Once(engine.inbox, m) => ~In(t.inbox, m)
  BY DEF Handles, Took
<1>2. t.q = engine.q /\ t.skipBy = engine.skipBy /\ t.status = engine.status
  BY <1>1 DEF Only, Fields
<1>3. /\ engine'.q = r.q /\ engine'.skipBy = r.skipBy /\ engine'.status = r.status
      /\ engine'.inbox = r.inbox
  BY DEF Handles, Only, Fields
<1>4. /\ r.q.paths = t.q.paths /\ r.q.repeat = t.q.repeat /\ Alike(r, t, Reports)
      /\ r.skipBy = (IF m = "skip" THEN 0 ELSE t.skipBy)
      /\ Turned(r, t, m)
  BY DEF Handles, Heeded
<1>5. Answers(engine'.inbox, engine.inbox, m)
  BY <1>1, <1>3, <1>4 DEF Answers, Alike
<1>6. Turned(engine', engine, m)
  BY <1>2, <1>3, <1>4 DEF Turned
<1> QED BY <1>2, <1>3, <1>4, <1>5, <1>6

-----------------------------------------------------------------------------
(* A command is posted.                                                    *)

\* m is in the inbox in addition; the queue may be at another position.
Adds(r, e, m) ==
    /\ Only(r, e, {"q", "inbox", "skipBy"}) /\ r.q.paths = e.q.paths /\ r.q.repeat = e.q.repeat
    /\ Alike(r, e, {m}) /\ In(r.inbox, m)
    /\ ~In(e.inbox, m) /\ m # "skip" => Once(r.inbox, m)
    /\ m # "skip" => r.skipBy = e.skipBy

LEMMA PostAdds ==
  ASSUME AllOk(file), NEW e, Sound(e, FALSE),
         NEW m \in {"play", "pause", "resume", "stop", "seek"}
  PROVE  Adds(Post(e, m), e, m) /\ Post(e, m).q = e.q
<1> DEFINE p == FALSE
           r == Post(e, m)
<1>1. m \in Messages /\ m # "finish" /\ m # "complete" /\ p \in BOOLEAN /\ Sound(e, p)
  BY DEF Messages
<1>2. /\ Only(r, e, {"inbox"}) /\ Alike(r, e, {m}) /\ In(r.inbox, m)
      /\ ~In(e.inbox, m) => Once(r.inbox, m)
  <2> HIDE DEF p
  <2> QED BY <1>1, Posted
<1> HIDE DEF r
<1>3. r.q = e.q /\ r.skipBy = e.skipBy
  BY <1>2 DEF Only, Fields
<1>4. Only(r, e, {"q", "inbox", "skipBy"})
  BY <1>2 DEF Only
<1> QED BY <1>2, <1>3, <1>4 DEF Adds, r

LEMMA StartAdds ==
  ASSUME AllOk(file), Kept(engine), NEW i \in 0 .. Length(engine.q) - 1
  PROVE  LET r == Post([engine EXCEPT !.q = GoTo(@, i)], "play")
         IN  /\ Kept(r) /\ Adds(r, engine, "play")
             /\ r.q = GoTo(engine.q, i)
<1> DEFINE q == GoTo(engine.q, i)
           w == WithQ(engine, q)
           p == FALSE
           r == Post(w, "play")
<1>1. Post([engine EXCEPT !.q = GoTo(@, i)], "play") = r
  BY DEF WithQ
<1>2. Sane(engine.q) /\ Length(engine.q) \in Nat /\ Sound(engine, p) /\ p \in BOOLEAN
  BY LengthType DEF Kept, Sound, Fit, Sane
<1>3. Sane(q) /\ q.repeat = engine.q.repeat /\ Length(q) = Length(engine.q)
      /\ q.paths = engine.q.paths
  BY <1>2 DEF GoTo, Sane, Queue, Length
<1>4. q = GoTo(engine.q, i) /\ Post([engine EXCEPT !.q = q], "play") = r
  BY DEF WithQ
<1> HIDE DEF q
<1>5. Length(q) > 0
  BY <1>2, <1>3
<1>6. Kept(r)
  BY <1>3, <1>4, <1>5, KeptStart
<1>7. Sound(w, p) /\ w.q = q /\ Only(w, engine, {"q"})
  <2> HIDE DEF p
  <2> QED BY <1>2, <1>3, <1>5, QSet
<1> HIDE DEF w
<1>8. Sound(w, FALSE) /\ w.inbox = engine.inbox /\ w.skipBy = engine.skipBy
  BY <1>7 DEF Only, Fields
<1>9. Adds(r, w, "play") /\ r.q = w.q
  BY <1>8, PostAdds
<1> HIDE DEF r
<1>10. Only(r, engine, {"q", "inbox", "skipBy"})
  BY <1>7, <1>9 DEF Adds, Only
<1>11. r.q.paths = engine.q.paths /\ r.q.repeat = engine.q.repeat /\ r.skipBy = engine.skipBy
  BY <1>3, <1>7, <1>8, <1>9 DEF Adds
<1>12. Adds(r, engine, "play")
  BY <1>8, <1>9, <1>10, <1>11 DEF Adds, Alike
<1> QED BY <1>1, <1>4, <1>6, <1>7, <1>9, <1>12

LEMMA SkippedAdds ==
  ASSUME Kept(engine), NEW n \in {-1, 1}
  PROVE  /\ Adds(Skipped(n), engine, "skip") /\ Skipped(n).q = engine.q
         /\ Skipped(n).skipBy = engine.skipBy + n
<1> DEFINE e == engine
<1>1. Fit(e) /\ e \in Engine /\ e.skipBy \in Int
  BY DEF Kept, Sound, Fit, Engine
<1>2. PICK v \in Seq(Messages), k \in Int :
            /\ Skipped(n) = Post(WithSkipBy(WithInbox(e, v), k), "skip")
            /\ \A x : x # "skip" => (In(v, x) <=> In(e.inbox, x))
            /\ \A x : Once(e.inbox, x) => Once(v, x)
  BY <1>1, SkippedIs
<1> DEFINE m == "skip"
           w == WithSkipBy(WithInbox(e, v), k)
           r == Post(w, m)
<1>3. m \in Messages
  BY DEF Messages
<1>4. w.inbox = v /\ w.q = e.q /\ w.skipBy = k /\ Only(w, e, {"inbox", "skipBy"})
  <2>1. w = [e EXCEPT !.inbox = v, !.skipBy = k]
    BY <1>1 DEF WithSkipBy, WithInbox, Engine
  <2> HIDE DEF w
  <2> QED BY <1>1, <2>1 DEF Engine, Only, Fields
<1>5. w \in Engine
  BY <1>1, <1>2 DEF WithSkipBy, WithInbox, Engine
<1> HIDE DEF w
<1>6. /\ \A x : In(Append(v, m), x) <=> x = m \/ In(v, x)
      /\ \A x : Once(v, x) /\ (m # x \/ ~In(v, x)) => Once(Append(v, m), x)
  <2> HIDE DEF m
  <2> QED BY <1>2, <1>3, PostIs
<1>7. r.inbox = Append(v, m) /\ Only(r, w, {"inbox"}) /\ r.q = w.q /\ r.skipBy = w.skipBy
  <2>1. r = [w EXCEPT !.inbox = Append(v, m)]
    BY <1>4 DEF Post
  <2> HIDE DEF r
  <2> QED BY <1>5, <2>1 DEF Engine, Only, Fields
<1> HIDE DEF r
<1>8. Only(r, e, {"q", "inbox", "skipBy"})
  BY <1>4, <1>7 DEF Only
<1>9. Alike(r, e, {m}) /\ In(r.inbox, m)
  BY <1>2, <1>6, <1>7 DEF Alike
<1>10. Skipped(n).skipBy = e.skipBy + n
  BY <1>1 DEF Skipped, Post, Engine
<1>11. Skipped(n) = r
  BY <1>2 DEF r, w
<1> QED BY <1>4, <1>7, <1>8, <1>9, <1>10, <1>11 DEF Adds

-----------------------------------------------------------------------------
(* What the command thread waits for.                                      *)

Brief == {"pause", "resume", "stop"}

\* A play is in the inbox s while the thread waits for it, and one of the others
\* while it waits for that, once.
Waited(u, d, s) ==
    /\ u \in {"free", "playing", "resume", "waiting"} /\ (u # "free" => d)
    /\ ~In(s, "rebuffer")
    /\ In(s, "play") <=> u = "playing"
    /\ Once(s, "play")
    /\ u # "waiting" => \A m \in Brief : ~In(s, m)
    /\ u = "waiting" => \E m \in Brief :
          /\ In(s, m) /\ Once(s, m)
          /\ \A x \in Brief \ {m} : ~In(s, x)

LEMMA WaitedAnswers ==
  ASSUME NEW d, NEW s, Waited(ui, d, s), NEW m, NEW r, Answers(r, s, m), Replied(m)
  PROVE  /\ Waited(ui', d, r)
         /\ m = "play" => ui = "playing" /\ ui' = "resume"
         /\ m \in Brief => ui = "waiting" /\ ui' = "free"
         /\ m \notin Brief \cup {"play"} => ui' = ui
<1>1. \A x : x \notin Reports \cup {m} => (In(r, x) <=> In(s, x))
  BY DEF Answers
<1>2. \A x \in Brief \cup {"play", "rebuffer"} : x \notin Reports /\ x # "finish"
  BY DEF Brief, Reports
<1>3. m # "rebuffer" /\ ~In(r, "rebuffer")
  BY <1>1, <1>2 DEF Answers, Waited
<1>4. \A x \in Brief \cup {"play"} : x # m => (In(r, x) <=> In(s, x))
  BY <1>1, <1>2
<1>5. \A x \in Brief \cup {"play"} : Once(s, x) => Once(r, x)
  BY <1>2 DEF Answers
<1>6. CASE m = "play"
  <2>1. ui = "playing" /\ ui' = "resume"
    BY <1>6 DEF Waited, Answers, Replied
  <2>2. ~In(r, "play")
    BY <1>2, <1>6 DEF Answers, Waited
  <2>3. \A x \in Brief : ~In(r, x)
    <3>1. "play" \notin Brief
      BY DEF Brief
    <3> QED BY <1>4, <1>6, <2>1, <3>1 DEF Waited
  <2> QED BY <1>3, <1>5, <1>6, <2>1, <2>2, <2>3 DEF Waited, Brief
<1>7. CASE m \in Brief
  <2>1. ui = "waiting"
    BY <1>7 DEF Waited, Answers
  <2>2. ui' = "free"
    BY <1>7, <2>1 DEF Replied, Brief
  <2>3. Once(s, m) /\ \A x \in Brief \ {m} : ~In(s, x)
    BY <1>7, <2>1 DEF Waited, Answers
  <2>4. ~In(r, m)
    BY <1>2, <1>7, <2>3 DEF Answers
  <2>5. \A x \in Brief : ~In(r, x)
    BY <1>4, <2>3, <2>4
  <2>6. In(r, "play") <=> In(s, "play")
    BY <1>4, <1>7 DEF Brief
  <2>7. m # "play"
    BY <1>7 DEF Brief
  <2> QED BY <1>3, <1>5, <1>7, <2>1, <2>2, <2>5, <2>6, <2>7 DEF Waited
<1>8. CASE m \notin Brief \cup {"play"}
  <2>1. ui' = ui
    BY <1>8 DEF Waited, Replied, Brief
  <2>2. \A x \in Brief \cup {"play"} : In(r, x) <=> In(s, x)
    BY <1>4, <1>8
  <2> QED BY <1>3, <1>5, <1>8, <2>1, <2>2 DEF Waited
<1> QED BY <1>6, <1>7, <1>8

LEMMA WaitedAdds ==
  ASSUME NEW d, NEW e, Waited("free", d, e.inbox), NEW r, NEW m, Adds(r, e, m)
  PROVE  /\ m \in Brief => Waited("waiting", TRUE, r.inbox)
         /\ m = "play" => Waited("playing", TRUE, r.inbox)
         /\ m \in {"skip", "seek"} => Waited("free", d, r.inbox)
<1>1. \A x : x # m => /\ In(r.inbox, x) <=> In(e.inbox, x)
                      /\ Once(e.inbox, x) => Once(r.inbox, x)
  BY DEF Adds, Alike
<1>2. In(r.inbox, m) /\ (~In(e.inbox, m) /\ m # "skip" => Once(r.inbox, m))
  BY DEF Adds
<1>3. \A x \in Brief \cup {"play", "rebuffer"} : ~In(e.inbox, x)
  BY DEF Waited
<1> QED BY <1>1, <1>2, <1>3 DEF Waited, Brief

LEMMA WaitedSame ==
  ASSUME NEW u, NEW d, NEW s, Waited(u, d, s), NEW r, NEW some \in SUBSET Reports,
         \A x : x \notin some => /\ In(r, x) <=> In(s, x)
                                 /\ Once(s, x) => Once(r, x)
  PROVE  Waited(u, d, r)
<1>1. \A x \in Brief \cup {"play", "rebuffer"} : x \notin some
  BY DEF Brief, Reports
<1>2. \A x \in Brief \cup {"play", "rebuffer"} :
         /\ In(r, x) <=> In(s, x)
         /\ Once(s, x) => Once(r, x)
  BY <1>1
<1>3. "play" \in Brief \cup {"play", "rebuffer"} /\ "rebuffer" \in Brief \cup {"play", "rebuffer"}
  OBVIOUS
<1> QED BY <1>2, <1>3 DEF Waited

-----------------------------------------------------------------------------
(* The presses that are still to be carried out.                           *)

LEMMA PressesAre ==
  /\ \A id \in {"next", "previous", "play", "pause", "stop"} : [id |-> id] \in Presses
  /\ \A i \in Nat : [id |-> "select", at |-> i] \in Presses
  /\ \A c \in Presses : c.id \in {"next", "previous", "play", "pause", "stop", "select"}
BY DEF Presses

\* Only entries that there are can be selected.
Selects(s, n) == \A k \in DOMAIN s : s[k].id = "select" => s[k].at \in 0 .. n - 1

LEMMA AskedMore ==
  ASSUME NEW s \in Seq(Presses), NEW c \in Presses, NEW n, Selects(s, n),
         c.id = "select" => c.at \in 0 .. n - 1
  PROVE  /\ Append(s, c) \in Seq(Presses) /\ Selects(Append(s, c), n)
         /\ DOMAIN Append(s, c) = 1 .. Len(s) + 1 /\ DOMAIN s = 1 .. Len(s)
         /\ Append(s, c)[Len(s) + 1] = c /\ Len(s) \in Nat
         /\ \A k \in 1 .. Len(s) : Append(s, c)[k] = s[k]
<1>1. /\ Append(s, c) \in Seq(Presses)
      /\ DOMAIN Append(s, c) = 1 .. Len(s) + 1 /\ DOMAIN s = 1 .. Len(s)
      /\ Append(s, c)[Len(s) + 1] = c /\ Len(s) \in Nat
      /\ \A k \in 1 .. Len(s) : Append(s, c)[k] = s[k]
  OBVIOUS
<1> DEFINE t == Append(s, c)
<1> HIDE DEF t
<1>2. \A k \in DOMAIN t : k \in DOMAIN s \/ k = Len(s) + 1
  BY <1>1 DEF t
<1>3. Selects(t, n)
  BY <1>1, <1>2 DEF Selects, t
<1> QED BY <1>1, <1>3 DEF t

LEMMA AskedLess ==
  ASSUME NEW s \in Seq(Presses), s # <<>>, NEW n, Selects(s, n)
  PROVE  /\ Tail(s) \in Seq(Presses) /\ Selects(Tail(s), n)
         /\ DOMAIN s = 1 .. Len(s) /\ Len(s) \in Nat \ {0}
         /\ DOMAIN Tail(s) = 1 .. Len(s) - 1
         /\ \A k \in 1 .. Len(s) - 1 : Tail(s)[k] = s[k + 1]
         /\ Head(s) = s[1] /\ Head(s) \in Presses
         /\ Head(s).id = "select" => Head(s).at \in 0 .. n - 1
<1>1. /\ Tail(s) \in Seq(Presses)
      /\ DOMAIN s = 1 .. Len(s) /\ Len(s) \in Nat \ {0}
      /\ DOMAIN Tail(s) = 1 .. Len(s) - 1
      /\ \A k \in 1 .. Len(s) - 1 : Tail(s)[k] = s[k + 1]
      /\ Head(s) = s[1] /\ Head(s) \in Presses
  OBVIOUS
<1> DEFINE t == Tail(s)
<1> HIDE DEF t
<1>2. \A k \in 1 .. Len(s) - 1 : k + 1 \in DOMAIN s
  BY <1>1
<1>3. Selects(t, n)
  BY <1>1, <1>2 DEF Selects, t
<1>4. 1 \in DOMAIN s
  BY <1>1
<1>5. Head(s).id = "select" => Head(s).at \in 0 .. n - 1
  BY <1>1, <1>4 DEF Selects
<1> QED BY <1>1, <1>3, <1>5 DEF t

\* A press that asks for a state; the others move on in the queue.
Effective(c) == c.id \in {"play", "pause", "stop", "select"}
Target(c) == IF c.id \in {"play", "select"} THEN "play" ELSE "pause"

NoneLeft(s) == \A k \in DOMAIN s : ~Effective(s[k])

LastOf(s, k) ==
    /\ k \in DOMAIN s /\ Effective(s[k])
    /\ \A j \in DOMAIN s : j > k => ~Effective(s[j])

\* The state that is wanted is the one that was asked for last.
AsAsked(s, w) == \A k : LastOf(s, k) => w \in {"none", Target(s[k])}

LEMMA AsAskedMore ==
  ASSUME NEW s \in Seq(Presses), NEW c \in Presses, NEW w, AsAsked(s, w), NEW v,
         IF Effective(c) THEN v \in {"none", Target(c)} ELSE v = w
  PROVE  /\ AsAsked(Append(s, c), v)
         /\ NoneLeft(Append(s, c)) => NoneLeft(s) /\ ~Effective(c)
<1> DEFINE t == Append(s, c)
           n == Len(s)
<1>1. /\ DOMAIN t = 1 .. n + 1 /\ DOMAIN s = 1 .. n /\ t[n + 1] = c
      /\ n \in Nat /\ \A k \in 1 .. n : t[k] = s[k]
  OBVIOUS
<1> HIDE DEF t, n
<1>2. n + 1 \in DOMAIN t /\ \A k \in DOMAIN t : k \in DOMAIN s \/ k = n + 1
  BY <1>1
<1>3. \A k \in DOMAIN s : k \in DOMAIN t /\ n + 1 > k
  BY <1>1
<1>4. ASSUME NEW k, LastOf(t, k) PROVE v \in {"none", Target(t[k])}
  <2>1. CASE Effective(c)
    <3>1. k = n + 1
      BY <1>1, <1>2, <1>3, <1>4, <2>1 DEF LastOf
    <3> QED BY <1>1, <2>1, <3>1
  <2>2. CASE ~Effective(c)
    <3>1. k # n + 1
      BY <1>1, <1>4, <2>2 DEF LastOf
    <3>2. k \in DOMAIN s /\ t[k] = s[k]
      BY <1>1, <1>2, <1>4, <3>1 DEF LastOf
    <3>3. LastOf(s, k)
      BY <1>1, <1>3, <1>4, <3>2 DEF LastOf
    <3> QED BY <2>2, <3>2, <3>3 DEF AsAsked
  <2> QED BY <2>1, <2>2
<1>5. NoneLeft(t) => NoneLeft(s) /\ ~Effective(c)
  BY <1>1, <1>2, <1>3 DEF NoneLeft
<1> QED BY <1>4, <1>5 DEF AsAsked, t

LEMMA AsAskedLess ==
  ASSUME NEW s \in Seq(Presses), s # <<>>, NEW w, AsAsked(s, w), NEW v, v \in {w, "none"}
  PROVE  /\ AsAsked(Tail(s), v)
         /\ NoneLeft(Tail(s)) =>
               IF Effective(Head(s)) THEN w \in {"none", Target(Head(s))}
               ELSE NoneLeft(s)
<1> DEFINE t == Tail(s)
           n == Len(s)
<1>1. /\ DOMAIN s = 1 .. n /\ n \in Nat \ {0} /\ DOMAIN t = 1 .. n - 1
      /\ \A k \in 1 .. n - 1 : t[k] = s[k + 1]
      /\ Head(s) = s[1]
  OBVIOUS
<1> HIDE DEF t, n
<1>2. \A k \in DOMAIN t : k \in Nat /\ k + 1 \in DOMAIN s /\ t[k] = s[k + 1]
  BY <1>1
<1>3. \A k \in DOMAIN s : k \in Nat /\ (k = 1 \/ (k - 1 \in DOMAIN t /\ s[k] = t[k - 1]))
  <2>1. \A k \in DOMAIN s : k \in Nat /\ (k = 1 \/ (k - 1 \in DOMAIN t /\ k - 1 + 1 = k))
    BY <1>1
  <2> QED BY <1>1, <2>1
<1>4. 1 \in DOMAIN s
  BY <1>1
<1>5. ASSUME NEW k, LastOf(t, k) PROVE v \in {"none", Target(t[k])}
  <2>1. k \in DOMAIN t /\ Effective(t[k])
    BY <1>5 DEF LastOf
  <2>2. k + 1 \in DOMAIN s /\ Effective(s[k + 1]) /\ t[k] = s[k + 1] /\ k \in Nat
    BY <1>2, <2>1
  <2>3. ASSUME NEW j \in DOMAIN s, j > k + 1 PROVE ~Effective(s[j])
    <3>1. j # 1 /\ j - 1 > k
      BY <1>3, <2>2, <2>3
    <3>2. j - 1 \in DOMAIN t /\ s[j] = t[j - 1]
      BY <1>3, <3>1
    <3> QED BY <1>5, <3>1, <3>2 DEF LastOf
  <2>4. LastOf(s, k + 1)
    BY <2>2, <2>3 DEF LastOf
  <2> QED BY <2>2, <2>4 DEF AsAsked
<1>6. ASSUME NoneLeft(t), Effective(Head(s)) PROVE w \in {"none", Target(Head(s))}
  <2>1. ASSUME NEW j \in DOMAIN s, j > 1 PROVE ~Effective(s[j])
    BY <1>3, <1>6, <2>1 DEF NoneLeft
  <2>2. LastOf(s, 1)
    BY <1>1, <1>4, <1>6, <2>1 DEF LastOf
  <2> QED BY <1>1, <2>2 DEF AsAsked
<1>7. NoneLeft(t) /\ ~Effective(Head(s)) => NoneLeft(s)
  BY <1>1, <1>3 DEF NoneLeft
<1> QED BY <1>5, <1>6, <1>7 DEF AsAsked, t

-----------------------------------------------------------------------------
(* The presses, and what the command thread makes of them.                 *)

\* The types; the engine is sound, and the thread waits for what will come.
Ruled ==
    /\ Kept(engine) /\ AllOk(file) /\ Waited(ui, doing, engine.inbox)
    /\ asked \in Seq(Presses) /\ Selects(asked, Length(engine.q))
    /\ request \in -1 .. Length(engine.q) - 1
    /\ wanted \in {"none", "play", "pause"}
    /\ shown \in Tracks \cup {None}
    /\ doing \in BOOLEAN /\ overtaken \in BOOLEAN

LEMMA RuledIs ==
  ASSUME Ruled
  PROVE  /\ Sound(engine, FALSE) /\ Fit(engine) /\ Sane(engine.q)
         /\ engine.q \in Queue /\ engine.q.index \in Nat /\ engine.skipBy \in Int
         /\ Length(engine.q) \in Nat \ {0} /\ engine.q.index < Length(engine.q)
         /\ ~engine.hung
         /\ From \in 0 .. Length(engine.q) - 1
         /\ \A n \in {-1, 1} : Adjacent(From, n) \in -1 .. Length(engine.q) - 1
<1>1. /\ Sound(engine, FALSE) /\ Fit(engine) /\ Sane(engine.q)
      /\ engine.q \in Queue /\ engine.q.index \in Nat /\ engine.skipBy \in Int
  BY DEF Ruled, Kept, Sound, Fit, Sane, Engine, Queue
<1>2. Length(engine.q) \in Nat
  BY <1>1, LengthType
<1>3. Length(engine.q) > 0 /\ ~engine.hung
  BY <1>1 DEF Ruled, Sound, Tame
<1>4. engine.q.index < Length(engine.q)
  BY <1>1, <1>3 DEF Sane
<1> DEFINE L == Length(engine.q)
<1>5. L \in Nat \ {0} /\ request \in -1 .. L - 1
  BY <1>2, <1>3 DEF Ruled
<1>6. From \in 0 .. L - 1
  <2> HIDE DEF L
  <2>1. engine.q.index < L
    BY <1>4 DEF L
  <2> QED BY <1>1, <1>5, <2>1 DEF From
<1>7. \A n \in {-1, 1} : Adjacent(From, n) \in -1 .. L - 1
  <2>1. \A n \in {-1, 1} : Adjacent(From, n) \in {From, From + n, -1, L - 1, 0}
                           /\ (Adjacent(From, n) = From + n
                               => From + n \in 0 .. L - 1 \/ From + n \in {From, -1, L - 1, 0})
    BY DEF Adjacent
  <2> HIDE DEF L
  <2> QED BY <1>5, <1>6, <2>1
<1>8. Length(engine.q) \in Nat \ {0}
  BY <1>5
<1> HIDE DEF L
<1> QED BY <1>1, <1>3, <1>4, <1>6, <1>7, <1>8 DEF L

\* The press c is written down.
Pressing(c) ==
    /\ c \in Presses /\ asked' = Append(asked, c)
    /\ engine' = engine /\ ui' = ui /\ file' = file
    /\ doing' = doing /\ shown' = shown
    /\ wanted' = (IF Effective(c) THEN Target(c) ELSE wanted)
    /\ CASE c.id = "next" -> request' = Adjacent(From, 1) /\ request' # -1
         [] c.id = "previous" ->
               request' \in {Adjacent(From, -1), From} /\ request' # -1
         [] c.id = "select" ->
               c.at \in 0 .. Length(engine.q) - 1 /\ request' = c.at
         [] OTHER -> request' = request

LEMMA PressingIs ==
  ASSUME Ruled,
         \/ PressNext \/ PressPrevious \/ PressToggle \/ PressStop
         \/ \E i \in 0 .. Length(engine.q) - 1 : PressSelect(i)
  PROVE  \E c : Pressing(c)
<1>1. CASE PressNext
  <2>1. Pressing([id |-> "next"])
    BY <1>1, PressesAre DEF PressNext, StepTo, Press, Pressing, Effective
  <2> QED BY <2>1
<1>2. CASE PressPrevious
  <2>1. PICK i \in {Adjacent(From, -1), From} : StepTo("previous", i)
    BY <1>2 DEF PressPrevious
  <2> HIDE <1>2
  <2>2. Pressing([id |-> "previous"])
    BY <2>1, PressesAre DEF StepTo, Press, Pressing, Effective
  <2> QED BY <2>2
<1>3. CASE PressToggle
  <2>1. wanted' \in {"play", "pause"}
    BY <1>3 DEF PressToggle, Other
  <2>2. Pressing([id |-> wanted'])
    BY <1>3, <2>1, PressesAre DEF PressToggle, Press, Pressing, Effective, Target
  <2> QED BY <2>2
<1>4. CASE PressStop
  <2>1. Pressing([id |-> "stop"])
    BY <1>4, PressesAre DEF PressStop, Press, Pressing, Effective, Target
  <2> QED BY <2>1
<1>5. CASE \E i \in 0 .. Length(engine.q) - 1 : PressSelect(i)
  <2>1. PICK i \in 0 .. Length(engine.q) - 1 : PressSelect(i)
    BY <1>5
  <2>2. i \in Nat
    BY RuledIs
  <2>3. Pressing([id |-> "select", at |-> i])
    BY <2>1, <2>2, PressesAre DEF PressSelect, Press, Pressing, Effective, Target
  <2> QED BY <2>3
<1> QED BY <1>1, <1>2, <1>3, <1>4, <1>5

LEMMA NextIndexSpot ==
  ASSUME NEW q, Sane(q), Length(q) > 0, NEW k \in Int, NextIndex(q, k) # -1
  PROVE  NextIndex(q, k) \in 0 .. Length(q) - 1
<1>1. q \in Queue /\ q.index \in Nat /\ Length(q) \in Nat /\ q.index < Length(q)
  BY LengthType DEF Sane, Queue
<1>2. q.index + k \in Int
  BY <1>1
<1>3. Normalize(q, q.index + k, TRUE) \in -1 .. Length(q) - 1
  BY <1>1, <1>2, NormalizeIs
<1>4. NextIndex(q, k) \in {q.index, Normalize(q, q.index + k, TRUE)}
  BY DEF NextIndex
<1> DEFINE L == Length(q)
           i == NextIndex(q, k)
           v == Normalize(q, q.index + k, TRUE)
           none == -1
<1>5. i \in {q.index, v} /\ i # none /\ v \in none .. L - 1
  BY <1>3, <1>4
<1>6. L \in Nat /\ q.index \in Nat /\ q.index < L /\ none \in Int /\ none + 1 = 0
  BY <1>1
<1> HIDE DEF L, i, v, none
<1>7. i \in 0 .. L - 1
  BY <1>5, <1>6
<1> QED BY <1>7 DEF i, L

\* A command is taken; m is what it posts, if it posts anything.
Posts(m) ==
    LET c == Head(asked)
        n == IF c.id = "next" THEN 1 ELSE -1
    IN  /\ ui = "free" /\ ~doing /\ asked # <<>> /\ asked' = Tail(asked)
        /\ file' = file /\ request' = request /\ shown' = shown
        /\ Kept(engine')
        /\ m # "nothing" => Adds(engine', engine, m)
        /\ m # "play" => engine'.q = engine.q
        /\ CASE m \in Brief ->
                  /\ c.id = (IF m = "resume" THEN "play" ELSE m)
                  /\ ui' = "waiting" /\ doing' = TRUE /\ wanted' = wanted
             [] m = "play" ->
                  /\ \/ c.id = "select" /\ engine'.q = GoTo(engine.q, c.at)
                     \/ /\ c.id \in {"next", "previous"} /\ engine.status = "stopped"
                        /\ NextIndex(engine.q, n) \in 0 .. Length(engine.q) - 1
                        /\ engine'.q = GoTo(engine.q, NextIndex(engine.q, n))
                  /\ ui' = "playing" /\ doing' = TRUE /\ wanted' = wanted
             [] m \in {"skip", "seek", "nothing"} ->
                  /\ c.id \in {"next", "previous"}
                  /\ ui' = ui /\ doing' = doing /\ wanted' = Met(Now)
                  /\ m = "skip" => /\ engine.status # "stopped" /\ CanSkip(n)
                                   /\ engine'.skipBy = engine.skipBy + n
                  /\ m = "seek" => c.id = "previous" /\ engine.status # "stopped"
                  /\ m = "nothing" =>
                        /\ engine' = engine
                        /\ IF engine.status = "stopped"
                           THEN NextIndex(engine.q, n) = -1 ELSE ~CanSkip(n)

LEMMA PostsIs ==
  ASSUME Ruled, TakeCommand
  PROVE  \E m \in Brief \cup {"play", "skip", "seek", "nothing"} : Posts(m)
<1> DEFINE c == Head(asked)
           n == IF c.id = "next" THEN 1 ELSE -1
<1>1. /\ ui = "free" /\ ~doing /\ asked # <<>> /\ asked' = Tail(asked)
      /\ file' = file /\ request' = request /\ shown' = shown
  BY DEF TakeCommand
<1>2. /\ Kept(engine) /\ AllOk(file) /\ Sound(engine, FALSE) /\ engine.q \in Queue
      /\ Length(engine.q) \in Nat
  BY RuledIs DEF Ruled
<1>3. c \in Presses /\ (c.id = "select" => c.at \in 0 .. Length(engine.q) - 1)
  BY <1>1, AskedLess DEF Ruled
<1>4. ASSUME NEW m \in {"pause", "resume", "stop", "seek"}
      PROVE  /\ Kept(Post(engine, m)) /\ Adds(Post(engine, m), engine, m)
             /\ Post(engine, m).q = engine.q
  <2>1. m \in Messages \ {"finish", "complete"}
        /\ m \in {"play", "pause", "resume", "stop", "seek"}
    BY DEF Messages
  <2> QED BY <1>2, <2>1, KeptPost, PostAdds
<1>5. ASSUME NEW i \in 0 .. Length(engine.q) - 1, Starts(i)
      PROVE  /\ Kept(engine') /\ Adds(engine', engine, "play")
             /\ engine'.q = GoTo(engine.q, i)
             /\ ui' = "playing" /\ doing' = TRUE /\ wanted' = wanted
  BY <1>2, <1>5, StartAdds DEF Starts, Waits
<1>6. CASE c.id = "pause"
  <2>1. Waits(Post(engine, "pause"), "waiting")
    BY <1>6 DEF TakeCommand
  <2>2. Posts("pause")
    BY <1>1, <1>4, <1>6, <2>1 DEF Waits, Posts, Brief
  <2> QED BY <2>2 DEF Brief
<1>7. CASE c.id = "play"
  <2>1. Waits(Post(engine, "resume"), "waiting")
    BY <1>7 DEF TakeCommand
  <2>2. Posts("resume")
    BY <1>1, <1>4, <1>7, <2>1 DEF Waits, Posts, Brief
  <2> QED BY <2>2 DEF Brief
<1>8. CASE c.id = "stop"
  <2>1. Waits(Post(engine, "stop"), "waiting")
    BY <1>8 DEF TakeCommand
  <2>2. Posts("stop")
    BY <1>1, <1>4, <1>8, <2>1 DEF Waits, Posts, Brief
  <2> QED BY <2>2 DEF Brief
<1>9. CASE c.id = "select"
  <2>1. Starts(c.at)
    BY <1>9 DEF TakeCommand
  <2>2. Posts("play")
    BY <1>1, <1>3, <1>5, <1>9, <2>1 DEF Posts, Brief
  <2> QED BY <2>2
<1>10. CASE c.id \in {"next", "previous"}
  <2>1. n \in {-1, 1} /\ n \in Int
    OBVIOUS
  <2>2. Moves(n)
    BY <1>10 DEF TakeCommand
  <2> HIDE DEF n
  <2>3. CASE engine.status = "stopped" /\ StartsAdjacent(n)
    <3> DEFINE i == NextIndex(engine.q, n)
    <3>1. CASE i = -1
      <4>1. Ends(engine)
        BY <2>3, <3>1 DEF StartsAdjacent
      <4>2. Posts("nothing")
        BY <1>1, <1>2, <1>10, <2>3, <3>1, <4>1 DEF Ends, Posts, Brief, n
      <4> QED BY <4>2
    <3>2. CASE i # -1
      <4>1. Starts(i)
        BY <2>3, <3>2 DEF StartsAdjacent
      <4>2. Sane(engine.q)
        BY <1>2 DEF Sound, Fit
      <4>3. i \in 0 .. Length(engine.q) - 1
        BY <1>2, <2>1, <3>2, <4>2, NextIndexSpot, RuledIs
      <4> HIDE DEF i
      <4>4. /\ Kept(engine') /\ Adds(engine', engine, "play")
            /\ engine'.q = GoTo(engine.q, i)
            /\ ui' = "playing" /\ doing' = TRUE /\ wanted' = wanted
        BY <1>5, <4>1, <4>3
      <4>5. Posts("play")
        BY <1>1, <1>10, <2>3, <4>3, <4>4 DEF Posts, Brief, n, i
      <4> QED BY <4>5
    <3> QED BY <3>1, <3>2
  <2>4. CASE engine.status # "stopped" /\ SkipsBy(n)
    <3>1. CASE CanSkip(n)
      <4>1. Ends(Skipped(n))
        BY <2>4, <3>1 DEF SkipsBy
      <4>2. /\ Kept(Skipped(n)) /\ Adds(Skipped(n), engine, "skip")
            /\ Skipped(n).q = engine.q /\ Skipped(n).skipBy = engine.skipBy + n
        BY <1>2, <2>1, KeptSkipped, SkippedAdds
      <4>3. Posts("skip")
        BY <1>1, <1>10, <2>4, <3>1, <4>1, <4>2 DEF Ends, Posts, Brief, n
      <4> QED BY <4>3
    <3>2. CASE ~CanSkip(n)
      <4>1. Ends(engine)
        BY <2>4, <3>2 DEF SkipsBy
      <4>2. Posts("nothing")
        BY <1>1, <1>2, <1>10, <2>4, <3>2, <4>1 DEF Ends, Posts, Brief, n
      <4> QED BY <4>2
    <3> QED BY <3>1, <3>2
  <2>5. CASE n < 0 /\ engine.status # "stopped" /\ Ends(Post(engine, "seek"))
    <3>1. c.id = "previous"
      BY <1>10, <2>5 DEF n
    <3>2. Posts("seek")
      BY <1>1, <1>4, <2>5, <3>1 DEF Ends, Posts, Brief
    <3> QED BY <3>2
  <2> QED BY <2>2, <2>3, <2>4, <2>5 DEF Moves
<1>11. c.id \in {"next", "previous", "play", "pause", "stop", "select"}
  BY <1>3, PressesAre
<1> QED BY <1>6, <1>7, <1>8, <1>9, <1>10, <1>11

LEMMA RuledAgain ==
  ASSUME Ruled, Watch, Kept(engine'), file' = file,
         engine'.q.paths = engine.q.paths, Waited(ui', doing', engine'.inbox),
         asked' \in Seq(Presses), Selects(asked', Length(engine.q)),
         request' \in -1 .. Length(engine.q) - 1,
         wanted' \in {"none", "play", "pause"}, shown' \in Tracks \cup {None},
         doing' \in BOOLEAN
  PROVE  Ruled'
<1>1. Kept(engine)' /\ AllOk(file)'
  BY DEF Ruled, AllOk, Kept, Sound, Tame, Good, Buffer, Heard, Steady
<1>2. Length(engine.q)' = Length(engine.q)
  BY DEF Length
<1>3. overtaken' \in BOOLEAN
  BY DEF Watch, Ruled
<1>4. Waited(ui, doing, engine.inbox)' /\ Selects(asked, Length(engine.q))'
  BY <1>2 DEF Waited, Selects, In, Once
<1> QED BY <1>1, <1>2, <1>3, <1>4 DEF Ruled

\* An event shows what plays, and may take the request back.
LEMMA HandledIs ==
  ASSUME NEW e, NEW m, Handled(e, m)
  PROVE  /\ shown' \in {shown, engine'.playing} /\ request' \in {request, -1}
         /\ asked' = asked /\ doing' = doing /\ wanted' = wanted
BY DEF Handled, TrackEvent

\* What the other threads and the end of a start do.
Beside ==
    /\ UNCHANGED <<file, asked, doing, request, wanted, shown>>
    /\ Kept(engine') /\ engine'.q = engine.q
    /\ \/ /\ Only(engine', engine, {"inbox", "loading", "codec", "mark"})
          /\ \A x : x \notin Reports => /\ In(engine'.inbox, x) <=> In(engine.inbox, x)
                                        /\ Once(engine.inbox, x) => Once(engine'.inbox, x)
          /\ engine.loading # "no" <=> engine'.loading # "no"
          /\ engine'.mark = engine.mark \/ engine.mark # "none"
          /\ In(engine'.inbox, "complete") => \/ In(engine.inbox, "complete")
                                              \/ engine.codec = "decoding"
          /\ ui' = ui
       \/ /\ ui = "resume" /\ ui' = "waiting" /\ Adds(engine', engine, "resume")

LEMMA BesideIs ==
  ASSUME Ruled, Background
  PROVE  Beside
<1> DEFINE e == engine
           p == FALSE
<1>1. /\ Kept(e) /\ AllOk(file) /\ Sound(e, p) /\ Fit(e) /\ p \in BOOLEAN
      /\ e.inbox \in Seq(Messages) /\ e \in Engine
  BY RuledIs DEF Ruled, Fit, Engine
<1>2. UNCHANGED <<file, asked, doing, request, wanted, shown>>
  BY DEF Background, MetadataRead, CodecDone, MarkPlayed, Resume, pressVars
<1>3. CASE MetadataRead
  <2> DEFINE m == "finish"
             w == Post(e, m)
  <2>1. engine' = WithLoading(w, "read") /\ e.loading = "reading" /\ ui' = ui
    BY <1>3 DEF MetadataRead, WithLoading
  <2>2. Kept(engine')
    BY <1>1, <1>3, KeptMetadataRead
  <2>3. m \in Messages /\ w = [e EXCEPT !.inbox = Append(e.inbox, m)]
    BY DEF Messages, Post
  <2>4. /\ \A x : In(Append(e.inbox, m), x) <=> x = m \/ In(e.inbox, x)
        /\ \A x : Once(e.inbox, x) /\ (m # x \/ ~In(e.inbox, x))
                  => Once(Append(e.inbox, m), x)
    <3> HIDE DEF m
    <3> QED BY <1>1, <2>3, PostIs
  <2>5. m \in Reports /\ m # "complete"
    BY DEF Reports
  <2> HIDE DEF m, w
  <2>6. /\ Only(engine', e, {"inbox", "loading"}) /\ engine'.loading = "read"
        /\ engine'.inbox = Append(e.inbox, m) /\ engine'.q = e.q
        /\ engine'.mark = e.mark
    BY <1>1, <2>1, <2>3 DEF Engine, Only, Fields, WithLoading
  <2>7. Only(engine', e, {"inbox", "loading", "codec", "mark"})
    BY <2>6 DEF Only
  <2> QED BY <1>2, <2>1, <2>2, <2>4, <2>5, <2>6, <2>7 DEF Beside
<1>4. CASE CodecDone
  <2> DEFINE m == "complete"
             w == Post(e, m)
  <2>1. engine' = WithCodec(w, "idle") /\ e.codec = "decoding" /\ ui' = ui
    BY <1>4 DEF CodecDone, WithCodec
  <2>2. Kept(engine')
    BY <1>1, <1>4, KeptCodecDone
  <2>3. m \in Messages /\ w = [e EXCEPT !.inbox = Append(e.inbox, m)]
    BY DEF Messages, Post
  <2>4. /\ \A x : In(Append(e.inbox, m), x) <=> x = m \/ In(e.inbox, x)
        /\ \A x : Once(e.inbox, x) /\ (m # x \/ ~In(e.inbox, x))
                  => Once(Append(e.inbox, m), x)
    <3> HIDE DEF m
    <3> QED BY <1>1, <2>3, PostIs
  <2>5. m \in Reports
    BY DEF Reports
  <2> HIDE DEF m, w
  <2>6. /\ Only(engine', e, {"inbox", "codec"}) /\ engine'.loading = e.loading
        /\ engine'.inbox = Append(e.inbox, m) /\ engine'.q = e.q
        /\ engine'.mark = e.mark
    BY <1>1, <2>1, <2>3 DEF Engine, Only, Fields, WithCodec
  <2>7. Only(engine', e, {"inbox", "loading", "codec", "mark"})
    BY <2>6 DEF Only
  <2> QED BY <1>2, <2>1, <2>2, <2>4, <2>5, <2>6, <2>7 DEF Beside
<1>5. CASE MarkPlayed
  <2>1. /\ engine' = WithMark(e, "played") /\ e.mark = "buffered" /\ ui' = ui
        /\ e.status = "playing"
    BY <1>5 DEF MarkPlayed, WithMark
  <2>2. Kept(engine')
    BY <1>1, <1>5, KeptMarkPlayed
  <2>3. Only(engine', e, {"mark"})
    BY <1>1, <2>1 DEF WithMark, Engine, Only, Fields
  <2>4. engine'.q = e.q /\ engine'.inbox = e.inbox /\ engine'.loading = e.loading
    BY <2>3 DEF Only, Fields
  <2>5. Only(engine', e, {"inbox", "loading", "codec", "mark"})
    BY <2>3 DEF Only
  <2> QED BY <1>2, <2>1, <2>2, <2>4, <2>5 DEF Beside
<1>6. CASE Resume
  <2>1. engine' = Post(e, "resume") /\ ui = "resume" /\ ui' = "waiting"
    BY <1>6 DEF Resume
  <2>2. "resume" \in Messages \ {"finish", "complete"}
    BY DEF Messages
  <2>3. Kept(engine') /\ Adds(engine', e, "resume") /\ engine'.q = e.q
    BY <1>1, <2>1, <2>2, KeptPost, PostAdds
  <2> QED BY <1>2, <2>1, <2>3 DEF Beside
<1> QED BY <1>3, <1>4, <1>5, <1>6 DEF Background

\* The mark of the PCM buffer has played out.
Changes(r) ==
    /\ r = OnTrackChanged(engine) /\ Sound(r, FALSE) /\ Only(engine', r, {"stat"})
    /\ engine.status # "stopped" /\ engine.mark = "played"
    /\ Follows(r, engine) /\ r.status \in {engine.status, "stopped"}
    /\ Stranded(engine) => Unseen(r, engine)

LEMMA ChangingIs ==
  ASSUME Ruled, TrackChanged
  PROVE  /\ Kept(engine') /\ ui' = ui /\ file' = file
         /\ \E r : Changes(r)
<1> DEFINE p == FALSE
           r == OnTrackChanged(engine)
<1>1. Kept(engine) /\ AllOk(file) /\ Sound(engine, p) /\ p \in BOOLEAN
  BY DEF Ruled, Kept
<1>2. ui' = ui /\ file' = file /\ engine.mark = "played" /\ Settle(r)
  BY DEF TrackChanged
<1>3. engine.status # "stopped"
  BY <1>1, <1>2 DEF Sound, Fit
<1>4. /\ Sound(r, p) /\ Follows(r, engine) /\ r.status \in {engine.status, "stopped"}
      /\ Stranded(engine) => Unseen(r, engine)
  <2> HIDE DEF p
  <2> QED BY <1>1, <1>3, SoundTrackChanged, ChangedFollows
<1> HIDE DEF r
<1>5. Only(engine', r, {"stat"})
  BY <1>1, <1>2, <1>4, SettledIs
<1>6. Changes(r)
  BY <1>2, <1>3, <1>4, <1>5 DEF Changes, r
<1>7. Kept(engine')
  BY <1>1, KeptTrackChanged
<1> QED BY <1>2, <1>6, <1>7

\* What the other threads are told is the same after it.
LEMMA ChangedIs ==
  ASSUME NEW r, Changes(r)
  PROVE  /\ engine'.q.paths = engine.q.paths /\ engine'.q.repeat = engine.q.repeat
         /\ engine'.skipBy = engine.skipBy
         /\ Alike(engine', engine, Reports)
         /\ engine'.status \in {engine.status, "stopped"}
         /\ Stranded(engine) => Unseen(engine', engine)
<1>1. /\ engine'.q = r.q /\ engine'.skipBy = r.skipBy /\ engine'.inbox = r.inbox
      /\ engine'.status = r.status /\ engine'.playing = r.playing
  BY DEF Changes, Only, Fields
<1>2. Follows(r, engine) /\ r.status \in {engine.status, "stopped"}
      /\ (Stranded(engine) => Unseen(r, engine))
  BY DEF Changes
<1> QED BY <1>1, <1>2 DEF Unseen, Follows, Alike

LEMMA RuledStep ==
  ASSUME Ruled, [CommandsNext]_allVars
  PROVE  Ruled'
<1> DEFINE n == Length(engine.q)
<1>1. /\ Kept(engine) /\ AllOk(file) /\ Waited(ui, doing, engine.inbox)
      /\ asked \in Seq(Presses) /\ Selects(asked, n) /\ request \in -1 .. n - 1
      /\ wanted \in {"none", "play", "pause"} /\ shown \in Tracks \cup {None}
      /\ doing \in BOOLEAN
  BY DEF Ruled
<1>2. n \in Nat \ {0} /\ From \in 0 .. n - 1
      /\ \A k \in {-1, 1} : Adjacent(From, k) \in -1 .. n - 1
  BY RuledIs
<1>3. ASSUME NEW c, Pressing(c), Watch PROVE Ruled'
  <2>1. c \in Presses /\ (c.id = "select" => c.at \in 0 .. n - 1)
        /\ asked' = Append(asked, c)
    BY <1>3 DEF Pressing
  <2>2. asked' \in Seq(Presses) /\ Selects(asked', n)
    BY <1>1, <2>1, AskedMore
  <2>3. request' \in {request, Adjacent(From, 1), Adjacent(From, -1), From}
        \/ request' \in 0 .. n - 1
    BY <1>3 DEF Pressing
  <2> HIDE DEF n
  <2>4. request' \in -1 .. n - 1
    <3>1. {1, -1} \subseteq {-1, 1}
      OBVIOUS
    <3> QED BY <1>1, <1>2, <2>3, <3>1
  <2>5. wanted' \in {"none", "play", "pause"}
    BY <1>1, <1>3 DEF Pressing, Target
  <2>6. /\ engine' = engine /\ file' = file /\ ui' = ui /\ doing' = doing
        /\ shown' = shown
    BY <1>3 DEF Pressing
  <2> QED BY <1>1, <1>3, <2>2, <2>4, <2>5, <2>6, RuledAgain DEF n
<1>4. ASSUME TakeCommand, Watch PROVE Ruled'
  <2>1. PICK m \in Brief \cup {"play", "skip", "seek", "nothing"} : Posts(m)
    BY <1>4, PostsIs
  <2>2. /\ ui = "free" /\ doing = FALSE /\ asked # <<>> /\ asked' = Tail(asked)
        /\ file' = file /\ request' = request /\ shown' = shown /\ Kept(engine')
    BY <1>1, <2>1 DEF Posts
  <2>3. asked' \in Seq(Presses) /\ Selects(asked', n)
    BY <1>1, <2>2, AskedLess
  <2>4. engine'.q.paths = engine.q.paths /\ engine'.q.repeat = engine.q.repeat
    BY <2>1 DEF Posts, Adds
  <2>5. Waited(ui', doing', engine'.inbox) /\ doing' \in BOOLEAN
    <3>1. CASE m = "nothing"
      BY <1>1, <2>1, <2>2, <3>1 DEF Posts, Brief
    <3>2. CASE m # "nothing"
      <4>1. Adds(engine', engine, m)
        BY <2>1, <3>2 DEF Posts
      <4>2. Waited("free", doing, engine.inbox)
        BY <1>1, <2>2
      <4>3. /\ m \in Brief => Waited("waiting", TRUE, engine'.inbox)
            /\ m = "play" => Waited("playing", TRUE, engine'.inbox)
            /\ m \in {"skip", "seek"} => Waited("free", doing, engine'.inbox)
        BY <4>1, <4>2, WaitedAdds
      <4> QED BY <1>1, <2>1, <2>2, <3>2, <4>3 DEF Posts, Brief
    <3> QED BY <3>1, <3>2
  <2>6. wanted' \in {"none", "play", "pause"}
    <3>1. wanted' \in {wanted, "none"}
      BY <2>1 DEF Posts, Met
    <3> QED BY <1>1, <3>1
  <2> QED BY <1>1, <1>4, <2>2, <2>3, <2>4, <2>5, <2>6, RuledAgain
<1>5. ASSUME EndCommand, Watch PROVE Ruled'
  <2>1. /\ ui = "free" /\ doing' = FALSE /\ wanted' \in {wanted, "none"}
        /\ UNCHANGED <<engine, ui, file, asked, request, shown>>
    BY <1>5 DEF EndCommand, Met, vars
  <2>2. Waited(ui', doing', engine'.inbox)
    BY <1>1, <2>1 DEF Waited
  <2> QED BY <1>1, <1>5, <2>1, <2>2, RuledAgain
<1>6. ASSUME HandleMessage, Watch PROVE Ruled'
  <2>1. /\ TakeMessage /\ Replied(Head(engine.inbox)) /\ file' = file
        /\ shown' \in {shown, engine'.playing} /\ request' \in {request, -1}
        /\ asked' = asked /\ doing' = doing /\ wanted' = wanted
    BY <1>6, HandledIs DEF HandleMessage, TakeMessage
  <2>2. PICK m, t, r : Handles(m, t, r)
    BY <1>1, <2>1, Taking
  <2>3. m = Head(engine.inbox)
    BY <2>2 DEF Handles
  <2>4. Answers(engine'.inbox, engine.inbox, m) /\ engine'.q.paths = engine.q.paths
    BY <2>2, Answering
  <2>5. Waited(ui', doing, engine'.inbox)
    BY <1>1, <2>1, <2>3, <2>4, WaitedAnswers
  <2>6. Kept(engine')
    BY <1>1, <2>1, KeptTakeMessage
  <2>7. shown' \in Tracks \cup {None}
    BY <1>1, <2>1, <2>6 DEF Kept, Sound, Fit, Engine
  <2>8. request' \in -1 .. n - 1
    <3> HIDE DEF n
    <3> QED BY <1>1, <1>2, <2>1
  <2> QED BY <1>1, <1>6, <2>1, <2>4, <2>5, <2>6, <2>7, <2>8, RuledAgain
<1>7. ASSUME HandleChange, Watch PROVE Ruled'
  <2>1. /\ TrackChanged
        /\ shown' \in {shown, engine'.playing} /\ request' \in {request, -1}
        /\ asked' = asked /\ doing' = doing /\ wanted' = wanted
    BY <1>7, HandledIs DEF HandleChange
  <2>2. Kept(engine') /\ ui' = ui /\ file' = file
    BY <2>1, ChangingIs
  <2>3. PICK r : Changes(r)
    BY <2>1, ChangingIs
  <2>4. engine'.q.paths = engine.q.paths /\ Alike(engine', engine, Reports)
    BY <2>3, ChangedIs
  <2>5. Waited(ui, doing, engine'.inbox)
    BY <1>1, <2>4, WaitedSame DEF Alike
  <2>6. shown' \in Tracks \cup {None}
    BY <1>1, <2>1, <2>2 DEF Kept, Sound, Fit, Engine
  <2>7. request' \in -1 .. n - 1
    <3> HIDE DEF n
    <3> QED BY <1>1, <1>2, <2>1
  <2> QED BY <1>1, <1>7, <2>1, <2>2, <2>4, <2>5, <2>6, <2>7, RuledAgain
<1>8. ASSUME Background, Watch PROVE Ruled'
  <2>1. Beside
    BY <1>8, BesideIs
  <2>2. /\ UNCHANGED <<file, asked, doing, request, wanted, shown>>
        /\ Kept(engine') /\ engine'.q = engine.q
    BY <2>1 DEF Beside
  <2>3. CASE /\ ui' = ui
             /\ \A x : x \notin Reports =>
                   /\ In(engine'.inbox, x) <=> In(engine.inbox, x)
                   /\ Once(engine.inbox, x) => Once(engine'.inbox, x)
    <3>1. Waited(ui', doing', engine'.inbox)
      BY <1>1, <2>2, <2>3, WaitedSame
    <3> QED BY <1>1, <1>8, <2>2, <3>1, RuledAgain
  <2>4. CASE ui = "resume" /\ ui' = "waiting" /\ Adds(engine', engine, "resume")
    <3>1. Waited("free", doing, engine.inbox) /\ doing = TRUE
      BY <1>1, <2>4 DEF Waited
    <3>2. Waited("waiting", TRUE, engine'.inbox)
      BY <2>4, <3>1, WaitedAdds DEF Brief
    <3>3. Waited(ui', doing', engine'.inbox)
      BY <2>2, <2>4, <3>1, <3>2
    <3> QED BY <1>1, <1>8, <2>2, <3>3, RuledAgain
  <2> QED BY <2>1, <2>3, <2>4 DEF Beside
<1>9. CASE UNCHANGED allVars
  BY <1>9 DEF allVars, codeVars, vars, pressVars, Ruled, Kept, Sound, Good, Buffer,
              Heard, Steady, Tame, AllOk, Waited, In, Once, Selects
<1>10. CASE CommandsNext
  <2>1. ASSUME \/ PressNext \/ PressPrevious \/ PressToggle \/ PressStop
               \/ \E i \in 0 .. Length(engine.q) - 1 : PressSelect(i),
               Watch
        PROVE  Ruled'
    BY <1>3, <2>1, PressingIs
  <2> QED BY <1>4, <1>5, <1>6, <1>7, <1>8, <1>10, <2>1 DEF CommandsNext
<1> QED BY <1>9, <1>10

LEMMA RuledInit ==
  ASSUME CommandsInit
  PROVE  /\ Ruled /\ engine.playing = None /\ engine.skipBy = 0
         /\ engine.q.repeat \in Modes
<1>1. /\ file \in [Tracks -> {"ok"}] /\ ui = "free" /\ asked = <<>> /\ doing = FALSE
      /\ request = -1 /\ wanted = "none" /\ shown = None /\ overtaken = FALSE
  BY DEF CommandsInit
<1>2. AllOk(file)
  BY <1>1 DEF AllOk
<1>3. PICK paths \in Queues, mode \in Modes : \E i \in 0 .. Len(paths) - 1 :
         LET idle == Stopped(Queued(paths, mode, i))
         IN  engine \in {idle, OnPlay(idle)}
  BY DEF CommandsInit
<1>4. PICK i \in 0 .. Len(paths) - 1 :
         LET idle == Stopped(Queued(paths, mode, i))
         IN  engine \in {idle, OnPlay(idle)}
  BY <1>3
<1> DEFINE idle == Stopped(Queued(paths, mode, i))
<1>5. MayRepeat(mode)
  BY <1>2 DEF MayRepeat, Broken, AllOk
<1>6. /\ Kept(idle) /\ idle.playing = None /\ idle.skipBy = 0
      /\ Length(idle.q) = Len(paths) /\ Len(paths) \in Nat
      /\ \A m : ~In(idle.inbox, m)
  BY <1>5, KeptIdle
<1>7. engine \in {idle, OnPlay(idle)}
  BY <1>4
<1>12. idle.q.repeat = mode
  BY DEF Stopped, Queued, Empty
<1> HIDE DEF idle
<1>8. /\ Kept(engine) /\ engine.playing = None /\ engine.skipBy = 0
      /\ \A m : m \notin Reports => ~In(engine.inbox, m)
      /\ Length(engine.q) = Len(paths) /\ engine.q.repeat = mode
  <2>1. CASE engine = idle
    BY <1>6, <1>12, <2>1
  <2>2. CASE engine = OnPlay(idle)
    <3> DEFINE p == FALSE
    <3>1. Sound(idle, p) /\ p \in BOOLEAN /\ ~p
      BY <1>6 DEF Kept
    <3>2. Sound(engine, p)
      <4> HIDE DEF p
      <4> QED BY <2>2, <3>1, SoundPlay
    <3>3. Calm => Good(engine)
      BY <2>2, <3>1, GoodPlay
    <3>4. Follows(engine, idle) /\ engine.q = idle.q /\ engine.playing = None
      BY <1>2, <2>2, <3>1, PlayIs
    <3> QED BY <1>6, <1>12, <3>2, <3>3, <3>4 DEF Kept, Follows, Alike
  <2> QED BY <1>7, <2>1, <2>2
<1>9. Waited(ui, doing, engine.inbox)
  <2>1. \A x \in Brief \cup {"play", "rebuffer"} : ~In(engine.inbox, x)
    BY <1>8 DEF Brief, Reports
  <2> QED BY <1>1, <2>1 DEF Waited, Brief, In, Once
<1>10. asked \in Seq(Presses) /\ Selects(asked, Length(engine.q))
  BY <1>1 DEF Selects
<1>11. request \in -1 .. Length(engine.q) - 1
  BY <1>1, <1>6, <1>8
<1> QED BY <1>1, <1>2, <1>8, <1>9, <1>10, <1>11 DEF Ruled

LEMMA RuledAlways == CommandsSpec => []Ruled
<1>1. CommandsInit => Ruled
  BY RuledInit
<1>2. Ruled /\ [CommandsNext]_allVars => Ruled'
  BY RuledStep
<1> QED BY <1>1, <1>2, PTL DEF CommandsSpec

(* The types; a request is an entry of the queue; and the command thread   *)
(* waits for a message only while that is in the inbox of the audio        *)
(* thread: no reply it waits for is missed, whatever is pressed meanwhile. *)
THEOREM CommandsTyped == CommandsSpec => []CommandsTypeOK
<1>1. Ruled => CommandsTypeOK
  <2> SUFFICES ASSUME Ruled PROVE CommandsTypeOK
    OBVIOUS
  <2>1. Waited(ui, doing, engine.inbox)
    BY DEF Ruled
  <2>2. \A x : In(engine.inbox, x) => x \in Range(engine.inbox)
    BY DEF In, Range
  <2>3. ui # "free" => doing
    BY <2>1 DEF Waited
  <2>4. ui = "playing" => "play" \in Range(engine.inbox)
    BY <2>1, <2>2 DEF Waited
  <2>5. ui = "waiting" =>
           {"pause", "resume", "stop"} \cap Range(engine.inbox) # {}
    BY <2>1, <2>2 DEF Waited, Brief
  <2> QED BY <2>3, <2>4, <2>5 DEF Ruled, CommandsTypeOK
<1> QED BY <1>1, RuledAlways, PTL

-----------------------------------------------------------------------------
(* The state that is asked for will be reached.                            *)

\* Playing will be reached: the thread that waits posts what is missing.
PlayComes(d, u, s, status) ==
    /\ ~In(s, "pause")
    /\ \/ status = "stopped"
       \/ d /\ (status = "playing" \/ u \in {"playing", "resume"} \/ In(s, "resume"))

PauseComes(d, u, s, status) ==
    /\ d /\ u \in {"free", "waiting"} /\ ~In(s, "resume")
    /\ status # "playing" \/ In(s, "pause") \/ In(s, "stop")

Comes(w, d, u, s, status) ==
    /\ w = "play" => PlayComes(d, u, s, status)
    /\ w = "pause" => PauseComes(d, u, s, status)

Wished ==
    /\ AsAsked(asked, wanted)
    /\ NoneLeft(asked) => Comes(wanted, doing, ui, engine.inbox, engine.status)

\* The commands that are still to be carried out are the same.
LEMMA WishedOn ==
  ASSUME Wished, asked' = asked, wanted' \in {wanted, "none"},
         Comes(wanted, doing, ui, engine.inbox, engine.status)
         => Comes(wanted', doing', ui', engine'.inbox, engine'.status)
  PROVE  Wished'
<1>1. AsAsked(asked', wanted')
  BY DEF Wished, AsAsked
<1>2. NoneLeft(asked') => Comes(wanted', doing', ui', engine'.inbox, engine'.status)
  BY DEF Wished
<1> QED BY <1>1, <1>2 DEF Wished, AsAsked, LastOf, NoneLeft, Comes, PlayComes, PauseComes, In

LEMMA WishedPress ==
  ASSUME Ruled, Wished, NEW c, Pressing(c)
  PROVE  Wished'
<1>1. /\ asked \in Seq(Presses) /\ c \in Presses /\ asked' = Append(asked, c)
      /\ engine' = engine /\ ui' = ui /\ doing' = doing
      /\ wanted' = (IF Effective(c) THEN Target(c) ELSE wanted)
  BY DEF Ruled, Pressing
<1>2. /\ AsAsked(asked', wanted')
      /\ NoneLeft(asked') => NoneLeft(asked) /\ ~Effective(c)
  BY <1>1, AsAskedMore DEF Wished
<1>3. NoneLeft(asked') => Comes(wanted', doing', ui', engine'.inbox, engine'.status)
  BY <1>1, <1>2 DEF Wished
<1> QED BY <1>2, <1>3 DEF Wished, AsAsked, LastOf, NoneLeft, Comes, PlayComes, PauseComes, In

LEMMA WishedTake ==
  ASSUME Ruled, Wished, NEW m \in Brief \cup {"play", "skip", "seek", "nothing"},
         Posts(m)
  PROVE  Wished'
<1> DEFINE c == Head(asked)
<1>1. /\ asked \in Seq(Presses) /\ asked # <<>> /\ asked' = Tail(asked)
      /\ Waited("free", doing, engine.inbox) /\ doing = FALSE /\ doing' \in BOOLEAN
      /\ wanted \in {"none", "play", "pause"} /\ wanted' \in {wanted, "none"}
  BY DEF Ruled, Posts, Met, Brief
<1>2. /\ AsAsked(asked', wanted')
      /\ NoneLeft(asked') => IF Effective(c) THEN wanted \in {"none", Target(c)}
                             ELSE NoneLeft(asked)
  BY <1>1, AsAskedLess DEF Wished
<1>3. \A x \in Brief \cup {"play"} : ~In(engine.inbox, x)
  BY <1>1 DEF Waited
<1>4. m # "nothing" =>
         /\ In(engine'.inbox, m) /\ engine'.status = engine.status
         /\ \A x : x # m => (In(engine'.inbox, x) <=> In(engine.inbox, x))
  BY DEF Posts, Adds, Alike, Only, Fields
<1>5. ASSUME NoneLeft(asked')
      PROVE  Comes(wanted', doing', ui', engine'.inbox, engine'.status)
  <2>1. CASE m \in Brief
    <3>1. /\ c.id = (IF m = "resume" THEN "play" ELSE m)
          /\ ui' = "waiting" /\ doing' = TRUE /\ wanted' = wanted
      BY <2>1 DEF Posts, Brief
    <3>2. Effective(c) /\ wanted \in {"none", IF m = "resume" THEN "play" ELSE "pause"}
      BY <1>2, <1>5, <2>1, <3>1 DEF Effective, Target, Brief
    <3>3. /\ In(engine'.inbox, m) /\ \A x \in Brief \ {m} : ~In(engine'.inbox, x)
      BY <1>3, <1>4, <2>1 DEF Brief
    <3> QED BY <2>1, <3>1, <3>2, <3>3 DEF Comes, PlayComes, PauseComes, Brief
  <2>2. CASE m = "play"
    <3>1. /\ \/ c.id = "select"
             \/ c.id \in {"next", "previous"} /\ engine.status = "stopped"
          /\ ui' = "playing" /\ doing' = TRUE /\ wanted' = wanted
      BY <2>2 DEF Posts, Brief
    <3>2. wanted # "pause"
      <4>1. CASE c.id = "select"
        BY <1>2, <1>5, <4>1 DEF Effective, Target
      <4>2. CASE c.id \in {"next", "previous"}
        <5>1. ~Effective(c)
          BY <4>2 DEF Effective
        <5>2. NoneLeft(asked)
          BY <1>2, <1>5, <5>1
        <5> QED BY <1>1, <5>2 DEF Wished, Comes, PauseComes
      <4> QED BY <3>1, <4>1, <4>2
    <3>3. ~In(engine'.inbox, "pause")
      BY <1>3, <1>4, <2>2 DEF Brief
    <3> QED BY <3>1, <3>2, <3>3 DEF Comes, PlayComes
  <2>3. CASE m \in {"skip", "seek", "nothing"}
    <3>1. /\ c.id \in {"next", "previous"}
          /\ ui' = ui /\ doing' = doing /\ wanted' = Met(Now)
          /\ m # "nothing" => engine.status # "stopped"
          /\ m = "nothing" => engine' = engine
      BY <2>3 DEF Posts, Brief
    <3>2. ~Effective(c)
      BY <3>1 DEF Effective
    <3>3. NoneLeft(asked)
      BY <1>2, <1>5, <3>2
    <3>4. wanted = "none" \/ (wanted = "play" /\ engine.status = "stopped")
      BY <1>1, <3>3 DEF Wished, Comes, PlayComes, PauseComes
    <3>5. m = "nothing" \/ wanted' = "none"
      BY <1>1, <3>1, <3>4
    <3>6. m = "nothing" => Comes(wanted', doing', ui', engine'.inbox, engine'.status)
      BY <1>1, <1>3, <3>1, <3>4 DEF Comes, PlayComes, Brief
    <3> QED BY <3>5, <3>6 DEF Comes
  <2> QED BY <2>1, <2>2, <2>3
<1> QED BY <1>2, <1>5 DEF Wished, AsAsked, LastOf, NoneLeft, Comes, PlayComes, PauseComes, In

LEMMA WishedMessage ==
  ASSUME Ruled, Wished, HandleMessage, NEW m, NEW t, NEW r, Handles(m, t, r)
  PROVE  Wished'
<1>1. /\ Replied(Head(engine.inbox)) /\ m = Head(engine.inbox)
      /\ asked' = asked /\ doing' = doing /\ wanted' = wanted
      /\ Waited(ui, doing, engine.inbox) /\ m \in Messages
  BY HandledIs DEF HandleMessage, TakeMessage, Handles, Ruled
<1>2. Answers(engine'.inbox, engine.inbox, m) /\ Turned(engine', engine, m)
  BY Answering
<1>3. /\ Waited(ui', doing, engine'.inbox)
      /\ m = "play" => ui = "playing" /\ ui' = "resume"
      /\ m \in Brief => ui = "waiting" /\ ui' = "free"
      /\ m \notin Brief \cup {"play"} => ui' = ui
  BY <1>1, <1>2, WaitedAnswers
<1>4. \A x \in Brief \cup {"play"} : x # m => (In(engine'.inbox, x) <=> In(engine.inbox, x))
  BY <1>2 DEF Answers, Brief, Reports
<1>5. In(engine.inbox, m)
  BY <1>2 DEF Answers
<1>6. ui # "free" => doing
  BY <1>1 DEF Waited
<1>7. ASSUME Comes(wanted, doing, ui, engine.inbox, engine.status)
      PROVE  Comes(wanted', doing', ui', engine'.inbox, engine'.status)
  <2>1. CASE m = "play"
    <3>1. wanted # "pause"
      BY <1>3, <1>7, <2>1 DEF Comes, PauseComes
    <3>2. In(engine'.inbox, "pause") <=> In(engine.inbox, "pause")
      BY <1>4, <2>1 DEF Brief
    <3> QED BY <1>1, <1>3, <1>6, <1>7, <2>1, <3>1, <3>2 DEF Comes, PlayComes
  <2>2. CASE m = "pause"
    <3>1. wanted # "play"
      BY <1>5, <1>7, <2>2 DEF Comes, PlayComes
    <3>2. engine'.status # "playing" /\ ui' = "free"
      BY <1>2, <1>3, <2>2 DEF Turned, Brief
    <3>3. In(engine'.inbox, "resume") <=> In(engine.inbox, "resume")
      BY <1>4, <2>2 DEF Brief
    <3> QED BY <1>1, <1>7, <3>1, <3>2, <3>3 DEF Comes, PauseComes
  <2>3. CASE m = "resume"
    <3>1. wanted # "pause"
      BY <1>5, <1>7, <2>3 DEF Comes, PauseComes
    <3>2. engine'.status \in {"stopped", "playing"} /\ doing
      BY <1>2, <1>3, <1>6, <2>3 DEF Turned, Brief
    <3>3. In(engine'.inbox, "pause") <=> In(engine.inbox, "pause")
      BY <1>4, <2>3 DEF Brief
    <3> QED BY <1>1, <1>7, <3>1, <3>2, <3>3 DEF Comes, PlayComes
  <2>4. CASE m = "stop"
    <3>1. engine'.status = "stopped" /\ ui' = "free" /\ doing
      BY <1>2, <1>3, <1>6, <2>4 DEF Turned, Brief
    <3>2. /\ In(engine'.inbox, "pause") <=> In(engine.inbox, "pause")
          /\ In(engine'.inbox, "resume") <=> In(engine.inbox, "resume")
      BY <1>4, <2>4 DEF Brief
    <3> QED BY <1>1, <1>7, <3>1, <3>2 DEF Comes, PlayComes, PauseComes
  <2>5. CASE m \notin Brief \cup {"play"}
    <3>1. ui' = ui /\ engine'.status \in {engine.status, "stopped"}
      BY <1>2, <1>3, <2>5 DEF Turned, Brief
    <3>2. \A x \in Brief : In(engine'.inbox, x) <=> In(engine.inbox, x)
      BY <1>4, <2>5
    <3>3. {"pause", "resume", "stop"} = Brief
      BY DEF Brief
    <3> QED BY <1>1, <1>7, <3>1, <3>2, <3>3 DEF Comes, PlayComes, PauseComes
  <2> QED BY <2>1, <2>2, <2>3, <2>4, <2>5 DEF Brief
<1> QED BY <1>1, <1>7, WishedOn

LEMMA WishedStep ==
  ASSUME Ruled, Wished, [CommandsNext]_allVars
  PROVE  Wished'
<1>1. Waited(ui, doing, engine.inbox)
  BY DEF Ruled
<1>2. CASE \/ PressNext \/ PressPrevious \/ PressToggle \/ PressStop
           \/ \E i \in 0 .. Length(engine.q) - 1 : PressSelect(i)
  BY <1>2, PressingIs, WishedPress
<1>3. CASE TakeCommand
  BY <1>3, PostsIs, WishedTake
<1>4. CASE EndCommand
  <2>1. /\ ui = "free" /\ doing /\ doing' = FALSE /\ wanted' = Met(Now)
        /\ engine' = engine /\ ui' = ui /\ asked' = asked
    BY <1>4 DEF EndCommand, vars
  <2>2. \A x \in Brief : ~In(engine.inbox, x)
    BY <1>1, <2>1 DEF Waited
  <2>3. Comes(wanted, doing, ui, engine.inbox, engine.status)
        => Comes(wanted', doing', ui', engine'.inbox, engine'.status)
    BY <2>1, <2>2 DEF Comes, PlayComes, PauseComes, Met, Now, Brief
  <2> QED BY <2>1, <2>3, WishedOn DEF Met
<1>5. CASE HandleMessage
  <2>1. \E m, t, r : Handles(m, t, r)
    BY <1>5, Taking DEF Ruled, HandleMessage
  <2> QED BY <1>5, <2>1, WishedMessage
<1>6. CASE HandleChange
  <2>1. /\ TrackChanged /\ asked' = asked /\ doing' = doing /\ wanted' = wanted
    BY <1>6, HandledIs DEF HandleChange
  <2>2. ui' = ui /\ \E r : Changes(r)
    BY <2>1, ChangingIs
  <2>3. Alike(engine', engine, Reports) /\ engine'.status \in {engine.status, "stopped"}
    BY <2>2, ChangedIs
  <2>4. \A x \in Brief : In(engine'.inbox, x) <=> In(engine.inbox, x)
    BY <2>3 DEF Alike, Brief, Reports
  <2>5. {"pause", "resume", "stop"} = Brief
    BY DEF Brief
  <2>6. Comes(wanted, doing, ui, engine.inbox, engine.status)
        => Comes(wanted', doing', ui', engine'.inbox, engine'.status)
    BY <2>1, <2>2, <2>3, <2>4, <2>5 DEF Comes, PlayComes, PauseComes
  <2> QED BY <2>1, <2>6, WishedOn
<1>7. CASE Background
  <2>1. Beside
    BY <1>7, BesideIs
  <2>2. asked' = asked /\ doing' = doing /\ wanted' = wanted
    BY <2>1 DEF Beside
  <2>3. CASE /\ ui' = ui /\ Only(engine', engine, {"inbox", "loading", "codec", "mark"})
             /\ \A x : x \notin Reports => (In(engine'.inbox, x) <=> In(engine.inbox, x))
    <3>1. engine'.status = engine.status
      BY <2>3 DEF Only, Fields
    <3>2. \A x \in Brief : In(engine'.inbox, x) <=> In(engine.inbox, x)
      BY <2>3 DEF Brief, Reports
    <3>3. {"pause", "resume", "stop"} = Brief
      BY DEF Brief
    <3>4. Comes(wanted, doing, ui, engine.inbox, engine.status)
          => Comes(wanted', doing', ui', engine'.inbox, engine'.status)
      BY <2>2, <2>3, <3>1, <3>2, <3>3 DEF Comes, PlayComes, PauseComes
    <3> QED BY <2>2, <3>4, WishedOn
  <2>4. CASE ui = "resume" /\ ui' = "waiting" /\ Adds(engine', engine, "resume")
    <3>1. doing
      BY <1>1, <2>4 DEF Waited
    <3>2. In(engine'.inbox, "resume") /\ (In(engine'.inbox, "pause") => In(engine.inbox, "pause"))
      BY <2>4 DEF Adds, Alike
    <3>3. Comes(wanted, doing, ui, engine.inbox, engine.status)
          => Comes(wanted', doing', ui', engine'.inbox, engine'.status)
      BY <2>2, <2>4, <3>1, <3>2 DEF Comes, PlayComes, PauseComes
    <3> QED BY <2>2, <3>3, WishedOn
  <2> QED BY <2>1, <2>3, <2>4 DEF Beside
<1>8. CASE UNCHANGED allVars
  BY <1>8 DEF allVars, codeVars, vars, pressVars, Wished, AsAsked, LastOf, NoneLeft,
              Comes, PlayComes, PauseComes, In
<1> QED BY <1>2, <1>3, <1>4, <1>5, <1>6, <1>7, <1>8 DEF CommandsNext

-----------------------------------------------------------------------------
(* The lock screen is told of what is heard.                               *)

\* The cache s holds the track that is heard, or it will be announced.
Known(e, s) == Runs(e) /\ e.playing # None => s = e.playing \/ Unready(e)

Announced == Known(engine, shown)

LEMMA UnreadySame ==
  ASSUME NEW e, NEW r, r.cur = e.cur, r.list = e.list, r.skip = e.skip,
         r.loading = "no" <=> e.loading = "no"
  PROVE  Unready(r) <=> Unready(e)
<1>1. Audio(r) <=> Audio(e)
  BY AudioIs
<1>2. Lead(r) = Lead(e)
  BY DEF Lead
<1> QED BY <1>1, <1>2 DEF Unready

LEMMA UnreadyOnly ==
  ASSUME NEW e, NEW r, Only(r, e, {"q", "inbox", "status", "skipBy", "filling", "stat", "codec", "mark"})
  PROVE  (Unready(r) <=> Unready(e)) /\ r.playing = e.playing
<1>1. /\ r.cur = e.cur /\ r.list = e.list /\ r.skip = e.skip /\ r.loading = e.loading
      /\ r.playing = e.playing
  BY DEF Only, Fields
<1> QED BY <1>1, UnreadySame

LEMMA RunsIs ==
  ASSUME NEW e
  PROVE  Runs(e) <=> e.status # "stopped" /\ ~In(e.inbox, "play")
BY DEF Runs, Has, In

\* The metadata of a track have been read.
LEMMA ReadyKnown ==
  ASSUME AllOk(file), NEW t, Fit(t), t.loading = "read", t.cur # 0, NEW r, Finished(r, t),
         NEW s, t.playing # None => s = t.playing \/ Unready(t)
  PROVE  TrackReady(t, "finish")
         \/ (r.playing # None => s = r.playing \/ Unready(r))
<1> DEFINE n == Len(t.list)
<1>1. /\ t.list \in Seq(Tracks) /\ t.list # <<>> /\ n \in 1 .. Len(t.list)
      /\ t.list[n] \in Tracks
  <2>1. t.list \in Seq(Tracks) /\ t.list # <<>>
    BY DEF Fit, Engine
  <2> QED BY <2>1
<1>2. file[t.list[n]] = "ok" /\ t.list[n] # None
  BY <1>1, NoneAssumption DEF AllOk
<1>3. CASE r.filling = "full" /\ Only(r, t, {"filling", "stat"})
  <2>1. Only(r, t, {"q", "inbox", "status", "skipBy", "filling", "stat", "codec", "mark"})
    BY <1>3 DEF Only
  <2> QED BY <2>1, UnreadyOnly
<1>4. CASE t.cur # n /\ Only(r, t, {"loading", "stat", "inbox"})
  <2>1. Audio(t)
    BY <1>4, AudioIs
  <2>2. r.playing = t.playing
    BY <1>4 DEF Only, Fields
  <2> QED BY <2>1, <2>2 DEF Unready
<1>5. CASE t.cur = n /\ r.playing = (IF Lead(t) = 0 THEN t.list[n] ELSE t.playing)
  <2>1. CASE Lead(t) = 0
    <3>1. Id3(t, t.cur) = t.list[n]
      BY <1>2, <1>5 DEF Id3
    <3> QED BY <1>2, <1>5, <2>1, <3>1 DEF TrackReady
  <2>2. CASE Lead(t) # 0
    BY <1>5, <2>2 DEF Unready
  <2> QED BY <2>1, <2>2
<1> QED BY <1>2, <1>3, <1>4, <1>5 DEF Finished

\* A seek goes back to the track that is heard.
LEMMA SoughtKnown ==
  ASSUME Calm, AllOk(file), NEW t, Sound(t, FALSE), t.status # "stopped", Good(t),
         NEW s, t.playing # None => s = t.playing \/ Unready(t)
  PROVE  LET r == OnSeek(t)
         IN  r.playing # None => s = r.playing \/ Unready(r)
<1> DEFINE p == FALSE
           back == Undone(t)
           none == "none"
           now == WithSkip(back, none)
           r == OnSeek(t)
           h == Halt(t)
           o == WithStat(h, "ok")
<1>1. p \in BOOLEAN /\ Sound(t, p)
  OBVIOUS
<1>2. Sound(h, p) /\ Only(h, t, {"inbox", "codec", "mark", "late"})
  <2> HIDE DEF p
  <2> QED BY <1>1, Halted
<1>3. r = IF t.status = "stopped" \/ t.skip = "newlist" THEN t
          ELSE IF back.stat # "ok" THEN StartCodecFailed(back)
          ELSE IF now.cur = 0 THEN WithPlaying(now, None)
          ELSE IF ~HasAudio(now, now.cur)
          THEN WithPlaying(now, Id3(now, now.cur))
          ELSE WithCodec(now, "decoding")
  BY <1>2, OnSeekIs DEF Sound
<1>4. t.skip # "newlist"
  BY DEF Good, Steady
<1>5. Afoot(back)
  BY UndoneIs
<1>6. Sound(back, p) /\ Unseen(back, t)
  <2> HIDE DEF p
  <2> QED BY <1>1, SoundUndone, UndoneFollows
<1>7. t.skip # "auto" => back = o
  BY DEF Undone
<1>8. Sound(o, p) /\ Only(o, h, {"stat"})
  <2> HIDE DEF p, h
  <2> QED BY <1>1, <1>2, StatSet
<1> HIDE DEF o, h, back, r
<1>9. Sound(now, p) /\ Only(now, back, {"skip"}) /\ now.skip = none
  <2> HIDE DEF p
  <2> QED BY <1>1, <1>6, SkipSet
<1> HIDE DEF now
<1>10. /\ now.cur = back.cur /\ now.list = back.list /\ now.loading = back.loading
       /\ now.playing = back.playing /\ back.playing = t.playing
  BY <1>6, <1>9 DEF Only, Fields, Unseen
<1>11. back.stat = "ok" /\ back.cur # 0
  BY <1>5 DEF Afoot
<1>12. now.cur # 0 /\ now \in Engine
  BY <1>9, <1>10, <1>11 DEF Sound, Fit
<1>13. CASE ~HasAudio(now, now.cur)
  <2>1. r = WithPlaying(now, Id3(now, now.cur))
    BY <1>3, <1>4, <1>11, <1>12, <1>13
  <2>2. r.cur = now.cur /\ r.list = now.list /\ r.loading = now.loading
        /\ r.skip = now.skip
    BY <1>12, <2>1 DEF WithPlaying, Engine
  <2>3. ~Audio(r)
    <3>1. ~Audio(now)
      BY <1>13 DEF Audio
    <3> QED BY <2>2, <3>1, AudioIs
  <2>4. Lead(r) = 0
    BY <1>9, <2>2 DEF Lead
  <2> QED BY <1>12, <2>2, <2>3, <2>4 DEF Unready, r
<1>14. CASE HasAudio(now, now.cur)
  <2>1. r = WithCodec(now, "decoding")
    BY <1>3, <1>4, <1>11, <1>12, <1>14
  <2>2. r.playing = t.playing
    BY <1>10, <1>12, <2>1 DEF WithCodec, Engine
  <2>3. ~Unready(t)
    <3>1. CASE t.skip = "auto"
      BY <3>1 DEF Unready, Lead
    <3>2. CASE t.skip # "auto"
      <4>1. now.cur = t.cur /\ now.list = t.list /\ now.loading = t.loading
        BY <1>2, <1>7, <1>8, <1>10, <3>2 DEF Only, Fields
      <4>2. Audio(now)
        BY <1>12, <1>14 DEF Audio
      <4>3. Audio(t)
        BY <4>1, <4>2, AudioIs
      <4> QED BY <4>3 DEF Unready
    <3> QED BY <3>1, <3>2
  <2> QED BY <2>2, <2>3 DEF r
<1> QED BY <1>13, <1>14

\* A handler that runs on leaves what is heard known, or an event follows.
LEMMA HandlerKnown ==
  ASSUME Calm, Ruled, NEW m, NEW t, NEW r, Handles(m, t, r), m # "play",
         Runs(engine), r.status # "stopped", m # "skip",
         NEW s, engine.playing # None => s = engine.playing \/ Unready(engine)
  PROVE  (m = "finish" /\ TrackReady(t, m))
         \/ (r.playing # None => s = r.playing \/ Unready(r))
<1> DEFINE p == FALSE
           Settled == r.playing # None => s = r.playing \/ Unready(r)
<1>1. /\ Kept(engine) /\ AllOk(file) /\ Good(engine)
  BY DEF Ruled, Kept
<1>2. /\ m \in Messages /\ Sound(t, p) /\ p \in BOOLEAN /\ Took(t, engine, m)
      /\ r \in Handle(t, m)
      /\ m = "finish" => /\ t.loading = "read" /\ t.filling # "full"
                         /\ ~In(t.inbox, "finish")
  BY DEF Handles
<1>3. /\ t.status = engine.status /\ Buffer(t, Behind(t)) /\ Steady(t)
      /\ m # "finish" => Told(t)
      /\ m # "complete" /\ (m = "fill" => t.cur # 0) => Awake(t)
  BY <1>1, <1>2, TookKeeps
<1>4. Only(t, engine, {"inbox"}) /\ In(engine.inbox, m)
  BY <1>2 DEF Took
<1>5. (Unready(t) <=> Unready(engine)) /\ t.playing = engine.playing
      /\ t.late = engine.late /\ t.cur = engine.cur
  <2>1. Only(t, engine, {"q", "inbox", "status", "skipBy", "filling", "stat", "codec", "mark"})
    BY <1>4 DEF Only
  <2>2. t.late = engine.late /\ t.cur = engine.cur
    BY <1>4 DEF Only, Fields
  <2> QED BY <2>1, <2>2, UnreadyOnly
<1>6. t.playing # None => s = t.playing \/ Unready(t)
  BY <1>5
<1>7. t.cur # 0 /\ t.status # "stopped"
  BY <1>1, <1>3 DEF Steady, Runs
<1>8. engine.late \/ In(engine.inbox, "complete") => ~Unready(t)
  BY <1>1, <1>5, <1>7 DEF Good, Steady, Done, Unready
<1>9. CASE m = "fill"
  <2> DEFINE f == Fill(t)
             b == Behind(t)
  <2>1. r = LoadFailed(f)
    BY <1>2, <1>9 DEF Handle
  <2>2. Sound(f, p) /\ Only(f, t, BufferFields)
    <3> HIDE DEF p
    <3> QED BY <1>2, Filled
  <2>3. b \in {0, 1} /\ Order(t, b)
    BY <1>3, BehindIs DEF Buffer
  <2>4. Ahead(f, t)
    <3> HIDE DEF p, b
    <3> QED BY <1>2, <1>3, <1>7, <1>9, <2>3, FilledInOrder
  <2> HIDE DEF f
  <2>5. /\ f.cur = t.cur /\ (Audio(f) <=> Audio(t)) /\ f.skip = t.skip
        /\ f.playing = t.playing /\ f.status = t.status
    BY <1>7, <2>2, <2>4 DEF Ahead, Only, Fields, BufferFields
  <2>6. Unready(f) <=> Unready(t)
    BY <2>5 DEF Unready, Lead
  <2>7. Only(r, f, {"inbox"})
    <3>1. f.status # "stopped"
      BY <1>7, <2>5
    <3> HIDE DEF p
    <3> QED BY <1>2, <2>1, <2>2, <3>1, LoadFailedIs
  <2>8. Only(r, f, {"q", "inbox", "status", "skipBy", "filling", "stat", "codec", "mark"})
    BY <2>7 DEF Only
  <2>9. (Unready(r) <=> Unready(f)) /\ r.playing = f.playing
    BY <2>8, UnreadyOnly
  <2> QED BY <1>6, <2>5, <2>6, <2>9
<1>10. CASE m = "finish"
  <2>1. PICK full \in BOOLEAN : r = OnFinishLoad(t, full)
    BY <1>2, <1>10 DEF Handle
  <2>2. Finished(r, t)
    <3> HIDE DEF p
    <3> QED BY <1>2, <1>10, <2>1, FinishedIs
  <2>3. Fit(t) /\ t.loading = "read"
    BY <1>2, <1>10 DEF Sound
  <2>4. TrackReady(t, "finish") \/ Settled
    BY <1>1, <1>6, <1>7, <2>2, <2>3, ReadyKnown
  <2> QED BY <1>10, <2>4
<1>11. CASE m = "complete"
  <2>1. r = OnCodecComplete(t)
    BY <1>2, <1>11 DEF Handle
  <2>2. Unseen(r, t)
    <3> HIDE DEF p
    <3> QED BY <1>1, <1>2, <2>1, CompleteUnseen
  <2> QED BY <1>4, <1>6, <1>8, <1>11, <2>2 DEF Unseen
<1>12. CASE m = "rebuffer"
  BY <1>4, <1>12 DEF Ruled, Waited
<1>13. CASE m = "seek"
  <2>1. r = OnSeek(t)
    BY <1>2, <1>13 DEF Handle
  <2>2. Good(t)
    BY <1>3, <1>13 DEF Good
  <2> QED BY <1>1, <1>2, <1>6, <1>7, <2>1, <2>2, SoughtKnown
<1>14. CASE m = "stop"
  <2>1. r = StopPlayback(t)
    BY <1>2, <1>14 DEF Handle
  <2>2. r.status = "stopped"
    <3> HIDE DEF p
    <3> QED BY <1>2, <2>1, StopPlaybackIs
  <2> QED BY <2>2
<1>15. CASE m \in {"pause", "resume"}
  <2> DEFINE pause == m = "pause"
  <2>1. r = OnPause(t, pause) /\ pause \in BOOLEAN
    BY <1>2, <1>15 DEF Handle
  <2>2. r.playing = t.playing /\ (pause \/ ~t.late => Only(r, t, {"status"}))
    <3> HIDE DEF p, pause
    <3> QED BY <1>1, <1>2, <2>1, PauseIs
  <2>3. CASE t.late
    BY <1>5, <1>6, <1>8, <2>2, <2>3
  <2>4. CASE ~t.late
    <3>1. Only(r, t, {"status"})
      BY <2>2, <2>4
    <3>2. Only(r, t, {"q", "inbox", "status", "skipBy", "filling", "stat", "codec", "mark"})
      BY <3>1 DEF Only
    <3> QED BY <1>6, <3>2, UnreadyOnly
  <2> QED BY <2>3, <2>4
<1> QED BY <1>2, <1>9, <1>10, <1>11, <1>12, <1>13, <1>14, <1>15 DEF Messages

LEMMA AnnouncedMessage ==
  ASSUME Calm, Ruled, Announced, HandleMessage, NEW m, NEW t, NEW r, Handles(m, t, r)
  PROVE  Known(engine', shown')
<1> SUFFICES ASSUME Runs(engine'), engine'.playing # None
             PROVE  shown' = engine'.playing \/ Unready(engine')
  BY DEF Known
<1>1. /\ m = Head(engine.inbox) /\ t = [engine EXCEPT !.inbox = Tail(@)]
      /\ Sound(t, FALSE) /\ r \in Handle(t, m) /\ Only(engine', r, {"stat"})
      /\ AllOk(file)
  BY DEF Handles, WithInbox, Ruled
<1>2. Handled(t, m)
  BY <1>1 DEF HandleMessage
<1>3. engine'.playing = r.playing /\ engine'.status = r.status
  BY <1>1 DEF Only, Fields
<1>4. Unready(engine') <=> Unready(r)
  <2>1. Only(engine', r, {"q", "inbox", "status", "skipBy", "filling", "stat", "codec", "mark"})
    BY <1>1 DEF Only
  <2> QED BY <2>1, UnreadyOnly
<1>5. engine'.status # "stopped" /\ ~In(engine'.inbox, "play")
  BY RunsIs
<1>6. m # "play"
  <2> SUFFICES ASSUME m = "play" PROVE FALSE
    OBVIOUS
  <2>1. r = OnPlay(t)
    BY <1>1 DEF Handle
  <2>2. r.playing = None
    BY <1>1, <2>1, PlayIs
  <2> QED BY <1>3, <2>2
<1>7. Answers(engine'.inbox, engine.inbox, m) /\ Turned(engine', engine, m)
  BY Answering
<1>8. Runs(engine)
  <2>1. ~In(engine.inbox, "play")
    BY <1>5, <1>6, <1>7 DEF Answers, Reports
  <2>2. engine.status # "stopped"
    BY <1>5, <1>6, <1>7 DEF Turned
  <2> QED BY <2>1, <2>2, RunsIs
<1>9. engine.playing # None => shown = engine.playing \/ Unready(engine)
  BY <1>8 DEF Announced, Known
<1>10. CASE m = "skip"
  BY <1>2, <1>5, <1>10 DEF Handled, ChangeEnds, TrackEvent
<1>11. CASE m # "skip"
  <2>1. (m = "finish" /\ TrackReady(t, m))
        \/ (r.playing # None => shown = r.playing \/ Unready(r))
    BY <1>3, <1>5, <1>6, <1>8, <1>9, <1>11, HandlerKnown
  <2>2. shown' = engine'.playing \/ (~TrackReady(t, m) /\ shown' = shown)
    BY <1>2 DEF Handled, TrackEvent
  <2> QED BY <1>3, <1>4, <2>1, <2>2
<1> QED BY <1>10, <1>11

LEMMA AnnouncedStep ==
  ASSUME Calm, Ruled, Announced, [CommandsNext]_allVars
  PROVE  Known(engine', shown')
<1>1. CASE \/ PressNext \/ PressPrevious \/ PressToggle \/ PressStop
           \/ \E i \in 0 .. Length(engine.q) - 1 : PressSelect(i)
  <2>1. PICK c : Pressing(c)
    BY <1>1, PressingIs
  <2> QED BY <2>1 DEF Pressing, Announced
<1>2. ASSUME NEW e, NEW some, e = engine', Only(e, engine, some), shown' = shown,
             some \in SUBSET {"q", "inbox", "status", "skipBy", "filling", "stat", "codec", "mark"},
             Runs(e) => Runs(engine)
      PROVE  Known(engine', shown')
  <2>1. Only(e, engine, {"q", "inbox", "status", "skipBy", "filling", "stat", "codec", "mark"})
    BY <1>2 DEF Only
  <2>2. (Unready(e) <=> Unready(engine)) /\ e.playing = engine.playing
    BY <2>1, UnreadyOnly
  <2> QED BY <1>2, <2>2 DEF Announced, Known
<1>3. CASE TakeCommand
  <2>1. PICK m \in Brief \cup {"play", "skip", "seek", "nothing"} : Posts(m)
    BY <1>3, PostsIs
  <2>2. shown' = shown
    BY <2>1 DEF Posts
  <2>3. CASE m = "nothing"
    <3>1. engine' = engine
      BY <2>1, <2>3 DEF Posts, Brief
    <3> QED BY <2>2, <3>1 DEF Announced
  <2>4. CASE m # "nothing"
    <3>1. Adds(engine', engine, m)
      BY <2>1, <2>4 DEF Posts
    <3>2. Only(engine', engine, {"q", "inbox", "skipBy"})
      BY <3>1 DEF Adds
    <3>3. engine'.status = engine.status
      BY <3>2 DEF Only, Fields
    <3>4. In(engine.inbox, "play") => In(engine'.inbox, "play")
      BY <3>1 DEF Adds, Alike
    <3>5. Runs(engine') => Runs(engine)
      BY <3>3, <3>4, RunsIs
    <3> QED BY <1>2, <2>2, <3>2, <3>5
  <2> QED BY <2>3, <2>4
<1>4. CASE EndCommand
  BY <1>4 DEF EndCommand, vars, Announced
<1>5. CASE HandleMessage
  <2>1. \E m, t, r : Handles(m, t, r)
    BY <1>5, Taking DEF Ruled, HandleMessage
  <2> QED BY <1>5, <2>1, AnnouncedMessage
<1>6. CASE HandleChange
  <2>1. TrackChanged /\ Handled(engine, "track changed")
    BY <1>6 DEF HandleChange
  <2>2. PICK r : Changes(r)
    BY <2>1, ChangingIs
  <2>3. /\ engine'.status \in {engine.status, "stopped"} /\ Alike(engine', engine, Reports)
        /\ Stranded(engine) => Unseen(engine', engine)
    BY <2>2, ChangedIs
  <2> SUFFICES ASSUME Runs(engine'), engine'.playing # None
               PROVE  shown' = engine'.playing \/ Unready(engine')
    BY DEF Known
  <2>4. engine'.status # "stopped" /\ ~In(engine'.inbox, "play")
    BY RunsIs
  <2>5. Runs(engine)
    <3>1. ~In(engine.inbox, "play")
      BY <2>3, <2>4 DEF Alike, Reports
    <3>2. engine.status # "stopped"
      BY <2>3, <2>4
    <3> QED BY <3>1, <3>2, RunsIs
  <2>6. CASE Stranded(engine)
    <3>1. engine'.playing = engine.playing /\ ~Unready(engine)
      BY <2>3, <2>6 DEF Unseen, Stranded, Unready, Lead
    <3>2. shown = engine.playing
      BY <2>4, <2>5, <3>1 DEF Announced, Known
    <3>3. shown' \in {shown, engine'.playing}
      BY <2>1, HandledIs
    <3> QED BY <3>1, <3>2, <3>3
  <2>7. CASE ~Stranded(engine)
    <3>1. ChangeEnds(engine, "track changed")
      BY <2>4, <2>7 DEF ChangeEnds, Stranded, Steps
    <3> QED BY <2>1, <3>1 DEF Handled, TrackEvent
  <2> QED BY <2>6, <2>7
<1>7. CASE Background
  <2>1. Beside
    BY <1>7, BesideIs
  <2>2. shown' = shown
    BY <2>1 DEF Beside
  <2>3. CASE /\ Only(engine', engine, {"inbox", "loading", "codec", "mark"})
             /\ \A x : x \notin Reports => (In(engine'.inbox, x) <=> In(engine.inbox, x))
             /\ engine.loading # "no" <=> engine'.loading # "no"
    <3>1. /\ engine'.cur = engine.cur /\ engine'.list = engine.list
          /\ engine'.skip = engine.skip /\ engine'.playing = engine.playing
          /\ engine'.status = engine.status
      BY <2>3 DEF Only, Fields
    <3>2. Unready(engine') <=> Unready(engine)
      BY <2>3, <3>1, UnreadySame
    <3>3. In(engine'.inbox, "play") <=> In(engine.inbox, "play")
      BY <2>3 DEF Reports
    <3>4. Runs(engine') <=> Runs(engine)
      BY <3>1, <3>3, RunsIs
    <3> QED BY <2>2, <3>1, <3>2, <3>4 DEF Announced, Known
  <2>4. CASE Adds(engine', engine, "resume")
    <3>1. Only(engine', engine, {"q", "inbox", "skipBy"})
      BY <2>4 DEF Adds
    <3>2. engine'.status = engine.status
      BY <3>1 DEF Only, Fields
    <3>3. In(engine.inbox, "play") => In(engine'.inbox, "play")
      BY <2>4 DEF Adds, Alike
    <3>4. Runs(engine') => Runs(engine)
      BY <3>2, <3>3, RunsIs
    <3> QED BY <1>2, <2>2, <3>1, <3>4
  <2> QED BY <2>1, <2>3, <2>4 DEF Beside
<1>8. CASE UNCHANGED allVars
  BY <1>8 DEF allVars, codeVars, vars, pressVars, Announced
<1> QED BY <1>1, <1>3, <1>4, <1>5, <1>6, <1>7, <1>8 DEF CommandsNext

(* When all is quiet, the lock screen shows the truth: nothing is still    *)
(* asked of play or pause, and the track is the one that is heard.         *)
THEOREM CommandsShown ==
  ASSUME Calm
  PROVE  CommandsSpec => []LockScreenTrue
<1> DEFINE I == Ruled /\ Wished /\ Announced
<1>1. CommandsInit => I
  <2> SUFFICES ASSUME CommandsInit PROVE I
    OBVIOUS
  <2>1. Ruled /\ engine.playing = None
    BY RuledInit
  <2>2. asked = <<>> /\ wanted = "none"
    BY DEF CommandsInit
  <2>3. Wished
    BY <2>2 DEF Wished, AsAsked, Comes
  <2> QED BY <2>1, <2>3 DEF Announced, Known
<1>2. I /\ [CommandsNext]_allVars => I'
  <2> SUFFICES ASSUME I, [CommandsNext]_allVars PROVE I'
    OBVIOUS
  <2>1. Ruled' /\ Wished'
    BY RuledStep, WishedStep
  <2>2. Known(engine', shown')
    BY AnnouncedStep
  <2>3. Announced'
    BY <2>2 DEF Announced, Known, Runs, Has, Unready, Audio, HasAudio, InLoad, Lead
  <2> QED BY <2>1, <2>3
<1>3. I => LockScreenTrue
  <2> SUFFICES ASSUME I, Quiet, engine.status # "stopped"
               PROVE  /\ wanted = "none"
                      /\ engine.playing # None => shown = engine.playing
    BY DEF LockScreenTrue
  <2>1. asked = <<>> /\ ~doing /\ engine.inbox = <<>> /\ engine.loading = "no"
    BY DEF Quiet
  <2>2. NoneLeft(asked)
    BY <2>1 DEF NoneLeft
  <2>3. wanted = "none"
    BY <2>1, <2>2 DEF Ruled, Wished, Comes, PlayComes, PauseComes
  <2>4. Runs(engine)
    BY <2>1 DEF Runs, Has
  <2>5. ~Unready(engine)
    BY <2>1, AudioIs DEF Unready
  <2> QED BY <2>3, <2>4, <2>5 DEF Announced, Known
<1> QED BY <1>1, <1>2, <1>3, PTL DEF CommandsSpec

-----------------------------------------------------------------------------
(* Requests.  The presses that are still asked for lead from the position, *)
(* with the skip that has been posted, to the entry that is requested.     *)

Move(c) == c.id \in {"next", "previous", "select"}
NoMove(s) == \A k \in DOMAIN s : ~Move(s[k])

\* The press c, carried out at the entry i of a queue that does not repeat.
Leg(c, i, j) ==
    CASE c.id = "next" -> j = i + 1
      [] c.id = "previous" -> j = i - 1
      [] c.id = "select" -> j = c.at
      [] OTHER -> j = i

\* pos[k] is the entry after k presses.
Passes(pos, s, from, to) ==
    /\ pos[0] = from /\ pos[Len(s)] = to
    /\ \A k \in 1 .. Len(s) : Leg(s[k], pos[k - 1], pos[k])
    /\ \A i, j \in 0 .. Len(s) :
          i <= j /\ (\A k \in i + 1 .. j : ~Move(s[k])) => pos[i] = pos[j]

Way(s, from, to, n) ==
    \E pos \in [0 .. Len(s) -> 0 .. n - 1] : Passes(pos, s, from, to)

LEMMA WayNone ==
  ASSUME NEW s \in Seq(Presses), NoMove(s), NEW n \in Nat, NEW i \in 0 .. n - 1
  PROVE  Way(s, i, i, n)
<1> DEFINE pos == [k \in 0 .. Len(s) |-> i]
<1>1. Len(s) \in Nat /\ DOMAIN s = 1 .. Len(s)
  OBVIOUS
<1>2. pos \in [0 .. Len(s) -> 0 .. n - 1]
  OBVIOUS
<1>3. \A k \in 0 .. Len(s) : pos[k] = i
  OBVIOUS
<1>4. 0 \in 0 .. Len(s) /\ Len(s) \in 0 .. Len(s)
      /\ \A k \in 1 .. Len(s) : k \in 0 .. Len(s) /\ k - 1 \in 0 .. Len(s)
  BY <1>1
<1> HIDE DEF pos
<1>5. \A k \in 1 .. Len(s) : Leg(s[k], pos[k - 1], pos[k])
  <2> SUFFICES ASSUME NEW k \in 1 .. Len(s) PROVE Leg(s[k], pos[k - 1], pos[k])
    OBVIOUS
  <2>1. pos[k - 1] = i /\ pos[k] = i
    BY <1>3, <1>4
  <2>2. ~Move(s[k])
    BY <1>1 DEF NoMove
  <2> QED BY <2>1, <2>2 DEF Move, Leg
<1>6. Passes(pos, s, i, i)
  BY <1>3, <1>4, <1>5 DEF Passes
<1> QED BY <1>2, <1>6 DEF Way

LEMMA WayMore ==
  ASSUME NEW s \in Seq(Presses), NEW from, NEW to, NEW n \in Nat, Way(s, from, to, n),
         NEW c \in Presses, NEW next \in 0 .. n - 1, Leg(c, to, next)
  PROVE  Way(Append(s, c), from, next, n)
<1>1. PICK pos \in [0 .. Len(s) -> 0 .. n - 1] : Passes(pos, s, from, to)
  BY DEF Way
<1> DEFINE l == Len(s)
           a == Append(s, c)
           way == [k \in 0 .. l + 1 |-> IF k <= l THEN pos[k] ELSE next]
<1>2. /\ l \in Nat /\ Len(a) = l + 1 /\ a[l + 1] = c
      /\ \A k \in 1 .. l : a[k] = s[k]
  OBVIOUS
<1>3. way \in [0 .. l + 1 -> 0 .. n - 1]
  BY <1>2
<1>4. way[l + 1] = next /\ \A k \in 0 .. l : way[k] = pos[k]
  BY <1>2
<1>5. /\ pos[0] = from /\ pos[l] = to
      /\ \A k \in 1 .. l : Leg(s[k], pos[k - 1], pos[k])
      /\ \A i, j \in 0 .. l :
            i <= j /\ (\A k \in i + 1 .. j : ~Move(s[k])) => pos[i] = pos[j]
  BY <1>1 DEF Passes
<1> HIDE DEF way, a, l
<1>6. way[0] = from
  BY <1>2, <1>4, <1>5
<1>7. ASSUME NEW k \in 1 .. l + 1 PROVE Leg(a[k], way[k - 1], way[k])
  <2>1. CASE k = l + 1
    <3>1. k - 1 = l /\ l \in 0 .. l
      BY <1>2, <2>1
    <3> QED BY <1>2, <1>4, <1>5, <2>1, <3>1
  <2>2. CASE k # l + 1
    <3>1. k \in 1 .. l /\ k \in 0 .. l /\ k - 1 \in 0 .. l
      BY <1>2, <2>2
    <3> QED BY <1>2, <1>4, <1>5, <3>1
  <2> QED BY <2>1, <2>2
<1>8. ASSUME NEW i \in 0 .. l + 1, NEW j \in 0 .. l + 1, i <= j,
             \A k \in i + 1 .. j : ~Move(a[k])
      PROVE  way[i] = way[j]
  <2>1. CASE j \in 0 .. l
    <3>1. i \in 0 .. l /\ \A k \in i + 1 .. j : k \in 1 .. l
      BY <1>2, <1>8, <2>1
    <3>2. \A k \in i + 1 .. j : ~Move(s[k])
      BY <1>2, <1>8, <3>1
    <3> QED BY <1>4, <1>5, <1>8, <2>1, <3>1, <3>2
  <2>2. CASE j = l + 1 /\ i # j
    <3>1. i \in 0 .. l /\ l \in 0 .. l /\ i <= l /\ l + 1 \in i + 1 .. j
          /\ \A k \in i + 1 .. l : k \in 1 .. l /\ k \in i + 1 .. j
      BY <1>2, <1>8, <2>2
    <3>2. \A k \in i + 1 .. l : ~Move(s[k])
      BY <1>2, <1>8, <3>1
    <3>3. pos[i] = to
      BY <1>5, <3>1, <3>2
    <3>4. ~Move(c)
      BY <1>2, <1>8, <3>1
    <3>5. next = to
      BY <3>4 DEF Move, Leg
    <3> QED BY <1>4, <2>2, <3>1, <3>3, <3>5
  <2>3. CASE j \notin 0 .. l /\ i = j
    BY <2>3
  <2>4. j \in 0 .. l \/ j = l + 1
    BY <1>2
  <2> QED BY <2>1, <2>2, <2>3, <2>4
<1>9. Passes(way, a, from, next)
  BY <1>2, <1>4, <1>6, <1>7, <1>8 DEF Passes
<1>10. Way(a, from, next, n)
  BY <1>2, <1>3, <1>9 DEF Way
<1> QED BY <1>10 DEF a

LEMMA WayLess ==
  ASSUME NEW s \in Seq(Presses), s # <<>>, NEW from, NEW to, NEW n \in Nat,
         Way(s, from, to, n)
  PROVE  \E next \in 0 .. n - 1 :
            Leg(Head(s), from, next) /\ Way(Tail(s), next, to, n)
<1>1. PICK pos \in [0 .. Len(s) -> 0 .. n - 1] : Passes(pos, s, from, to)
  BY DEF Way
<1> DEFINE l == Len(s)
           t == Tail(s)
           way == [k \in 0 .. l - 1 |-> pos[k + 1]]
<1>2. /\ l \in Nat /\ l >= 1 /\ Len(t) = l - 1 /\ Head(s) = s[1]
      /\ \A k \in 1 .. l - 1 : t[k] = s[k + 1]
  OBVIOUS
<1>3. \A k \in 0 .. l - 1 : k + 1 \in 0 .. l /\ k + 1 \in 1 .. l
  BY <1>2
<1>4. way \in [0 .. l - 1 -> 0 .. n - 1] /\ \A k \in 0 .. l - 1 : way[k] = pos[k + 1]
  BY <1>3
<1>5. /\ pos[0] = from /\ pos[l] = to
      /\ \A k \in 1 .. l : Leg(s[k], pos[k - 1], pos[k])
      /\ \A i, j \in 0 .. l :
            i <= j /\ (\A k \in i + 1 .. j : ~Move(s[k])) => pos[i] = pos[j]
  BY <1>1 DEF Passes
<1> HIDE DEF way, t, l
<1>6. 0 \in 0 .. l - 1 /\ l - 1 \in 0 .. l - 1 /\ 1 \in 1 .. l /\ 0 + 1 = 1
      /\ (l - 1) + 1 = l /\ 1 - 1 = 0
  BY <1>2
<1>7. way[0] = pos[1] /\ way[l - 1] = to
  BY <1>4, <1>5, <1>6
<1>8. way[0] \in 0 .. n - 1 /\ Leg(Head(s), from, way[0])
  <2>1. Leg(s[1], pos[0], pos[1])
    BY <1>5, <1>6
  <2>2. way[0] \in 0 .. n - 1
    BY <1>4, <1>6
  <2> QED BY <1>2, <1>5, <1>7, <2>1, <2>2
<1>9. ASSUME NEW k \in 1 .. l - 1 PROVE Leg(t[k], way[k - 1], way[k])
  <2>1. k \in 0 .. l - 1 /\ k - 1 \in 0 .. l - 1 /\ (k - 1) + 1 = k
        /\ (k + 1) - 1 = k /\ k + 1 \in 1 .. l
    BY <1>2
  <2>2. way[k - 1] = pos[k] /\ way[k] = pos[k + 1] /\ t[k] = s[k + 1]
    BY <1>2, <1>4, <2>1
  <2>3. Leg(s[k + 1], pos[k], pos[k + 1])
    BY <1>5, <2>1
  <2> QED BY <2>2, <2>3
<1>10. ASSUME NEW i \in 0 .. l - 1, NEW j \in 0 .. l - 1, i <= j,
              \A k \in i + 1 .. j : ~Move(t[k])
       PROVE  way[i] = way[j]
  <2>1. /\ i + 1 \in 0 .. l /\ j + 1 \in 0 .. l /\ i + 1 <= j + 1
        /\ \A k \in (i + 1) + 1 .. j + 1 :
              k - 1 \in i + 1 .. j /\ k - 1 \in 1 .. l - 1 /\ (k - 1) + 1 = k
    BY <1>2, <1>10
  <2>2. \A k \in (i + 1) + 1 .. j + 1 : ~Move(s[k])
    BY <1>2, <1>10, <2>1
  <2>3. pos[i + 1] = pos[j + 1]
    BY <1>5, <2>1, <2>2
  <2> QED BY <1>4, <2>3
<1>11. Passes(way, t, way[0], to)
  BY <1>2, <1>7, <1>9, <1>10 DEF Passes
<1>12. Way(t, way[0], to, n)
  BY <1>2, <1>4, <1>11 DEF Way
<1> QED BY <1>8, <1>12 DEF t

LEMMA WayEnds ==
  ASSUME NEW s \in Seq(Presses), NEW from, NEW to, NEW n \in Nat, Way(s, from, to, n)
  PROVE  /\ from \in 0 .. n - 1 /\ to \in 0 .. n - 1
         /\ NoMove(s) => from = to
<1>1. PICK pos \in [0 .. Len(s) -> 0 .. n - 1] : Passes(pos, s, from, to)
  BY DEF Way
<1>2. Len(s) \in Nat /\ DOMAIN s = 1 .. Len(s)
  OBVIOUS
<1>3. 0 \in 0 .. Len(s) /\ Len(s) \in 0 .. Len(s) /\ 0 <= Len(s) /\ 0 + 1 = 1
  BY <1>2
<1>4. /\ pos[0] = from /\ pos[Len(s)] = to
      /\ \A i, j \in 0 .. Len(s) :
            i <= j /\ (\A k \in i + 1 .. j : ~Move(s[k])) => pos[i] = pos[j]
  BY <1>1 DEF Passes
<1>5. NoMove(s) => from = to
  <2> SUFFICES ASSUME NoMove(s) PROVE from = to
    OBVIOUS
  <2>1. \A k \in 0 + 1 .. Len(s) : ~Move(s[k])
    BY <1>2, <1>3 DEF NoMove
  <2> QED BY <1>3, <1>4, <2>1
<1> QED BY <1>3, <1>4, <1>5

\* Only a skip and the end of a track move the position.
LEMMA QueueStays ==
  ASSUME AllOk(file), NEW m, NEW t, NEW r, Handles(m, t, r), ~t.late,
         m \notin {"skip", "complete", "rebuffer"}
  PROVE  r.q = t.q
<1> DEFINE p == FALSE
<1>1. /\ m \in Messages /\ r \in Handle(t, m) /\ p \in BOOLEAN /\ Sound(t, p)
      /\ m = "finish" => /\ t.loading = "read" /\ t.filling # "full"
                         /\ ~In(t.inbox, "finish")
  BY DEF Handles
<1>2. CASE m = "fill"
  <2>1. r = LoadFailed(Fill(t))
    BY <1>1, <1>2 DEF Handle
  <2> HIDE DEF p
  <2> QED BY <1>1, <2>1, FillUnseen
<1>3. CASE m = "finish"
  <2>1. PICK full \in BOOLEAN : r = OnFinishLoad(t, full)
    BY <1>1, <1>3 DEF Handle
  <2>2. Finished(r, t)
    <3> HIDE DEF p
    <3> QED BY <1>1, <1>3, <2>1, FinishedIs
  <2>3. Fit(t)
    BY <1>1 DEF Sound
  <2> QED BY <1>1, <1>3, <2>2, <2>3, FinishedFollows
<1>4. CASE m = "seek"
  <2>1. r = OnSeek(t)
    BY <1>1, <1>4 DEF Handle
  <2> HIDE DEF p
  <2> QED BY <1>1, <2>1, SeekFollows
<1>5. CASE m = "play"
  <2>1. r = OnPlay(t)
    BY <1>1, <1>5 DEF Handle
  <2> QED BY <1>1, <2>1, PlayIs
<1>6. CASE m = "stop"
  <2>1. r = StopPlayback(t)
    BY <1>1, <1>6 DEF Handle
  <2> HIDE DEF p
  <2> QED BY <1>1, <2>1, StopFollows
<1>7. CASE m \in {"pause", "resume"}
  <2> DEFINE pause == m = "pause"
  <2>1. r = OnPause(t, pause) /\ pause \in BOOLEAN
    BY <1>1, <1>7 DEF Handle
  <2>2. Only(r, t, {"status"})
    <3> HIDE DEF p, pause
    <3> QED BY <1>1, <2>1, PauseIs
  <2> QED BY <2>2 DEF Only, Fields
<1> QED BY <1>1, <1>2, <1>3, <1>4, <1>5, <1>6, <1>7 DEF Messages

\* A change by hand shows its track, or that of a track without audio waits.
LEMMA ByHandShows ==
  ASSUME AllOk(file), NEW p \in BOOLEAN, NEW e, Sound(e, p), e.status # "stopped",
         e.skip = "none", e.stat = "ok", e.cur # 0
  PROVE  LET r == ChangeByHand(e)
         IN  r.playing # None \/ ~Audio(r)
<1> DEFINE s == Shown(e)
           r == ChangeByHand(e)
           yes == TRUE
<1>1. Sound(s, p) /\ Only(s, e, {"skip", "playing"})
  BY ShownIs
<1>2. Finalise(e) = s
  BY DEF Finalise
<1> HIDE DEF s
<1>3. s.status # "stopped" /\ s.stat = "ok" /\ s.cur # 0
  BY <1>1 DEF Only, Fields
<1>4. r = StartTrack(s, yes)
  BY <1>2, <1>3 DEF ChangeByHand
<1>5. yes \in BOOLEAN
  OBVIOUS
<1>6. IF HasAudio(s, s.cur)
      THEN r.playing = IF yes THEN Id3(s, s.cur) ELSE s.playing
      ELSE r = s
  <2> HIDE DEF r, yes
  <2> QED BY <1>1, <1>3, <1>4, <1>5, StartTrackIs
<1> HIDE DEF r
<1>7. CASE HasAudio(s, s.cur)
  <2>1. s.list[s.cur] \in Tracks
    <3>1. s.list \in Seq(Tracks) /\ s.cur \in Nat /\ s.cur <= Len(s.list) /\ s.cur # 0
      BY <1>1, <1>3 DEF Sound, Fit, Engine
    <3>2. s.cur \in 1 .. Len(s.list)
      BY <3>1
    <3> QED BY <3>1, <3>2
  <2>2. Id3(s, s.cur) = s.list[s.cur]
    BY <1>7, <2>1 DEF Id3, HasAudio, AllOk
  <2> QED BY <1>6, <1>7, <2>1, <2>2, NoneAssumption DEF r
<1>8. CASE ~HasAudio(s, s.cur)
  BY <1>6, <1>8 DEF Audio, r
<1> QED BY <1>7, <1>8

\* So does a skip.
LEMMA SkipShows ==
  ASSUME Calm, AllOk(file), NEW e, Sound(e, FALSE), e.status # "stopped", Good(e),
         NEW r \in OnSkip(e)
  PROVE  r.status = "stopped" \/ r.playing # None \/ ~Audio(r)
<1> DEFINE p == FALSE
<1>1. p \in BOOLEAN /\ Sound(e, p)
  OBVIOUS
<1>2. \/ r.status = "stopped"
      \/ \E at, s, d : /\ Sound(at, p) /\ Goes(e, at, s, d)
                       /\ r = ChangeByHand(Land(Arrive(at, s), d))
  <2> HIDE DEF p
  <2> QED BY <1>1, OnSkipIs
<1>3. CASE \E at, s, d : /\ Sound(at, p) /\ Goes(e, at, s, d)
                         /\ r = ChangeByHand(Land(Arrive(at, s), d))
  <2>1. PICK at, s, d : /\ Sound(at, p) /\ Goes(e, at, s, d)
                        /\ r = ChangeByHand(Land(Arrive(at, s), d))
    BY <1>3
  <2> DEFINE a == Arrive(at, s)
             l == Land(a, d)
             b == Behind(e)
  <2>2. /\ s \in Int /\ d \in Int /\ NextIndex(at.q, s) # -1
        /\ at.status # "stopped" /\ at.skip = "none" /\ at.stat = "ok"
    BY <2>1 DEF Goes, Ready
  <2>3. /\ Only(at, e, {"skipBy", "inbox", "codec", "mark", "late", "skip", "stat"})
        /\ Alike(at, e, {"complete"}) /\ s = b + d
    BY <2>1 DEF Goes, Good, Steady
  <2>4. b \in {0, 1} /\ Order(e, b)
    BY BehindIs DEF Good, Buffer
  <2>5. /\ at.q = e.q /\ at.list = e.list /\ at.cur = e.cur /\ at.peek = e.peek
        /\ at.loading = e.loading /\ at.filling = e.filling
    BY <2>3 DEF Only, Fields
  <2>6. Order(at, b)
    BY <2>4, <2>5, OrderKept
  <2>7. Told(at)
    <3>1. "finish" \notin {"complete"}
      OBVIOUS
    <3> QED BY <2>3, <2>5, <3>1 DEF Told, Good, Alike
  <2>8. Sound(at, FALSE)
    BY <2>1
  <2> HIDE DEF b, p
  <2>9. l.cur # 0 /\ l.stat = "ok" /\ Only(l, at, BufferFields)
    BY <2>2, <2>3, <2>4, <2>6, <2>7, <2>8, Landed
  <2>10. Sound(a, p) /\ Sound(l, p)
    <3>1. Sound(a, p)
      BY <1>1, <2>1, <2>2, Arrived
    <3> HIDE DEF a
    <3> QED BY <1>1, <2>2, <3>1, SoundLand
  <2> HIDE DEF l
  <2>11. l.status # "stopped" /\ l.skip = "none"
    BY <2>2, <2>9 DEF Only, Fields, BufferFields
  <2>12. LET c == ChangeByHand(l) IN c.playing # None \/ ~Audio(c)
    BY <1>1, <2>9, <2>10, <2>11, ByHandShows
  <2> QED BY <2>1, <2>12 DEF l, a
<1> QED BY <1>2, <1>3

\* The first track that is loaded is waited for until its metadata are read.
LEMMA Waiting ==
  ASSUME Calm, Ruled, NEW m, NEW t, NEW r, Handles(m, t, r), Runs(engine),
         r.status # "stopped", m \notin {"play", "skip", "complete"},
         engine.skip = "none", ~engine.late, ~Audio(engine)
  PROVE  (m = "finish" /\ TrackReady(t, m) /\ r.playing # None) \/ ~Audio(r)
<1> DEFINE p == FALSE
<1>1. /\ Kept(engine) /\ AllOk(file) /\ Good(engine)
  BY DEF Ruled, Kept
<1>2. /\ m \in Messages /\ Sound(t, p) /\ p \in BOOLEAN /\ Took(t, engine, m)
      /\ r \in Handle(t, m)
      /\ m = "finish" => /\ t.loading = "read" /\ t.filling # "full"
                         /\ ~In(t.inbox, "finish")
  BY DEF Handles
<1>3. /\ Buffer(t, Behind(t)) /\ Steady(t)
      /\ m # "finish" => Told(t)
  BY <1>1, <1>2, TookKeeps
<1>4. Only(t, engine, {"inbox"}) /\ In(engine.inbox, m)
  BY <1>2 DEF Took
<1>5. /\ t.cur = engine.cur /\ t.list = engine.list /\ t.loading = engine.loading
      /\ t.skip = engine.skip /\ t.late = engine.late /\ t.status = engine.status
  BY <1>4 DEF Only, Fields
<1>6. ~Audio(t) /\ t.cur # 0 /\ t.status # "stopped" /\ t.skip = "none" /\ ~t.late
  BY <1>1, <1>3, <1>5, AudioIs DEF Steady, Runs
<1>7. CASE m = "fill"
  <2> DEFINE f == Fill(t)
             b == Behind(t)
  <2>1. r = LoadFailed(f)
    BY <1>2, <1>7 DEF Handle
  <2>2. Sound(f, p) /\ Only(f, t, BufferFields)
    <3> HIDE DEF p
    <3> QED BY <1>2, Filled
  <2>3. b \in {0, 1} /\ Order(t, b)
    BY <1>3, BehindIs DEF Buffer
  <2>4. Ahead(f, t)
    <3> HIDE DEF p, b
    <3> QED BY <1>2, <1>3, <1>6, <1>7, <2>3, FilledInOrder
  <2> HIDE DEF f
  <2>5. ~Audio(f) /\ f.status # "stopped"
    BY <1>6, <2>2, <2>4 DEF Ahead, Only, Fields, BufferFields
  <2>6. Only(r, f, {"inbox"})
    <3> HIDE DEF p
    <3> QED BY <1>2, <2>1, <2>2, <2>5, LoadFailedIs
  <2>7. r.cur = f.cur /\ r.list = f.list /\ r.loading = f.loading
    BY <2>6 DEF Only, Fields
  <2> QED BY <2>5, <2>7, AudioIs
<1>8. CASE m = "finish"
  <2> DEFINE n == Len(t.list)
  <2>1. PICK full \in BOOLEAN : r = OnFinishLoad(t, full)
    BY <1>2, <1>8 DEF Handle
  <2>2. Finished(r, t)
    <3> HIDE DEF p
    <3> QED BY <1>2, <1>8, <2>1, FinishedIs
  <2>3. t.cur = n /\ t.loading = "read"
    BY <1>2, <1>6, <1>8, AudioIs
  <2>4. t.list[n] \in Tracks
    <3>1. t.list \in Seq(Tracks) /\ t.cur \in Nat
      BY <1>2 DEF Sound, Fit, Engine
    <3> QED BY <1>6, <2>3, <3>1
  <2>5. file[t.list[n]] = "ok" /\ t.list[n] # None
    BY <1>1, <2>4, NoneAssumption DEF AllOk
  <2>6. CASE Only(r, t, {"filling", "stat"})
    <3>1. r.cur = t.cur /\ r.list = t.list /\ r.loading = t.loading
      BY <2>6 DEF Only, Fields
    <3> QED BY <1>6, <3>1, AudioIs
  <2>7. CASE r.playing = (IF Lead(t) = 0 THEN t.list[n] ELSE t.playing)
    <3>1. Lead(t) = 0
      BY <1>6 DEF Lead
    <3>2. Id3(t, t.cur) = t.list[n]
      BY <2>3, <2>5 DEF Id3
    <3> QED BY <1>8, <2>3, <2>5, <2>7, <3>1, <3>2 DEF TrackReady
  <2> QED BY <2>2, <2>3, <2>5, <2>6, <2>7 DEF Finished
<1>9. CASE m = "rebuffer"
  BY <1>4, <1>9 DEF Ruled, Waited
<1>10. CASE m = "seek"
  <2> DEFINE h == Halt(t)
             back == WithStat(h, "ok")
             none == "none"
             now == WithSkip(back, none)
  <2>1. r = OnSeek(t)
    BY <1>2, <1>10 DEF Handle
  <2>2. Sound(h, p) /\ Only(h, t, {"inbox", "codec", "mark", "late"})
    <3> HIDE DEF p
    <3> QED BY <1>2, Halted
  <2>3. Undone(t) = back
    BY <1>6 DEF Undone
  <2>4. r = IF back.stat # "ok" THEN StartCodecFailed(back)
            ELSE IF now.cur = 0 THEN WithPlaying(now, None)
            ELSE IF ~HasAudio(now, now.cur)
            THEN WithPlaying(now, Id3(now, now.cur))
            ELSE WithCodec(now, "decoding")
    <3>1. Fit(h)
      BY <2>2 DEF Sound
    <3> HIDE DEF h, back
    <3> QED BY <1>6, <2>1, <2>3, <3>1, OnSeekIs DEF h
  <2>5. Sound(back, p) /\ Only(back, h, {"stat"}) /\ back.stat = "ok"
    <3> HIDE DEF p, h
    <3> QED BY <1>2, <2>2, StatSet
  <2> HIDE DEF h, back
  <2>6. back.status # "stopped"
    BY <1>6, <2>2, <2>5 DEF Only, Fields
  <2>7. Sound(now, p) /\ Only(now, back, {"skip"})
    <3> HIDE DEF p
    <3> QED BY <1>2, <2>5, <2>6, SkipSet
  <2> HIDE DEF now
  <2>8. now.cur = t.cur /\ now.list = t.list /\ now.loading = t.loading
    BY <2>2, <2>5, <2>7 DEF Only, Fields
  <2>9. ~Audio(now) /\ now.cur # 0 /\ now \in Engine
    BY <1>6, <2>7, <2>8, AudioIs DEF Sound, Fit
  <2>10. r = WithPlaying(now, Id3(now, now.cur))
    BY <2>4, <2>5, <2>9 DEF Audio
  <2>11. r.cur = now.cur /\ r.list = now.list /\ r.loading = now.loading
    BY <2>9, <2>10 DEF WithPlaying, Engine
  <2> QED BY <2>9, <2>11, AudioIs
<1>11. CASE m = "stop"
  <2>1. r = StopPlayback(t)
    BY <1>2, <1>11 DEF Handle
  <2>2. r.status = "stopped"
    <3> HIDE DEF p
    <3> QED BY <1>2, <2>1, StopPlaybackIs
  <2> QED BY <2>2
<1>12. CASE m \in {"pause", "resume"}
  <2> DEFINE pause == m = "pause"
  <2>1. r = OnPause(t, pause) /\ pause \in BOOLEAN
    BY <1>2, <1>12 DEF Handle
  <2>2. Only(r, t, {"status"})
    <3> HIDE DEF p, pause
    <3> QED BY <1>1, <1>2, <1>6, <2>1, PauseIs
  <2>3. r.cur = t.cur /\ r.list = t.list /\ r.loading = t.loading
    BY <2>2 DEF Only, Fields
  <2> QED BY <1>6, <2>3, AudioIs
<1> QED BY <1>2, <1>7, <1>8, <1>9, <1>10, <1>11, <1>12 DEF Messages

-----------------------------------------------------------------------------
(* What is requested is on its way, unless it has been overtaken.          *)

\* The engine goes on to another track by itself.
Itself(e) ==
    In(e.inbox, "complete") \/ e.late \/ e.skip # "none" \/ e.mark # "none"

\* The track at the position is still to be heard.
Expected(e) ==
    \/ In(e.inbox, "play")
    \/ e.status # "stopped" /\ (In(e.inbox, "skip") \/ ~Audio(e))

\* The entry i is requested of the engine e, where s is still asked for.
Requested(e, s, i) ==
    IF i = -1 THEN e.skipBy = 0 /\ NoMove(s)
    ELSE /\ ~Itself(e)
         /\ Way(s, e.q.index + e.skipBy, i, Length(e.q))
         /\ e.status = "stopped" => e.skipBy = 0
         /\ NoMove(s) => Expected(e)

Pending(e) == e.q.repeat = "off" /\ (e.skipBy # 0 => In(e.inbox, "skip"))

Asking == Pending(engine) /\ (~overtaken => Requested(engine, asked, request))

\* A step that overtakes nothing.
Undisturbed ==
    /\ Requested(engine, asked, request)
    /\ request' # -1 =>
          ~Itself(engine') /\ (engine'.status = "stopped" => engine.status = "stopped")
    /\ Pressed("previous") => request' # From
    /\ Taken("previous") => ~In(engine'.inbox, "seek")
    /\ Taken("select") => ~In(engine.inbox, "skip")
    /\ request # -1 => request' # -1

LEMMA Undisturbing ==
  ASSUME Ruled, Asking, Watch, ~overtaken', Pending(engine')
  PROVE  Requested(engine', asked', request') \/ Undisturbed
<1>1. \A s, x : x \in Range(s) <=> In(s, x)
  BY DEF In, Range
<1>2. asked' = <<>> => NoMove(asked')
  BY DEF NoMove
<1>3. CASE Quiet' /\ request' = -1
  <2>1. asked' = <<>> /\ engine'.inbox = <<>>
    BY <1>3 DEF Quiet
  <2>2. ~In(engine'.inbox, "skip")
    BY <2>1 DEF In
  <2> QED BY <1>2, <1>3, <2>1, <2>2 DEF Pending, Requested
<1>4. CASE ~(Quiet' /\ request' = -1)
  <2>1. ~overtaken /\ ~Overtaking
    BY <1>4 DEF Watch
  <2>2. /\ request' # -1 => ~ChangesByItself'
        /\ ~(request' # -1 /\ engine'.status = "stopped" /\ engine.status # "stopped")
        /\ ~(Pressed("previous") /\ request' = From)
        /\ ~(Taken("previous") /\ "seek" \in Range(engine'.inbox))
        /\ ~(Taken("select") /\ "skip" \in Range(engine.inbox))
        /\ ~(request # -1 /\ request' = -1 /\ (asked' # <<>> \/ engine'.skipBy # 0))
    BY <2>1 DEF Overtaking
  <2>3. ChangesByItself' <=> Itself(engine')
    BY <1>1 DEF ChangesByItself, Itself
  <2>4. Requested(engine, asked, request)
    BY <2>1 DEF Asking
  <2>5. CASE request # -1 /\ request' = -1
    BY <1>2, <2>2, <2>5 DEF Requested
  <2>6. CASE ~(request # -1 /\ request' = -1)
    BY <1>1, <2>2, <2>3, <2>4, <2>6 DEF Undisturbed
  <2> QED BY <2>5, <2>6
<1> QED BY <1>3, <1>4

LEMMA NoMoveMore ==
  ASSUME NEW s \in Seq(Presses), NEW c \in Presses
  PROVE  NoMove(Append(s, c)) <=> NoMove(s) /\ ~Move(c)
<1> DEFINE a == Append(s, c)
<1>1. /\ DOMAIN a = 1 .. Len(s) + 1 /\ DOMAIN s = 1 .. Len(s) /\ Len(s) \in Nat
      /\ a[Len(s) + 1] = c /\ \A k \in 1 .. Len(s) : a[k] = s[k]
  OBVIOUS
<1> HIDE DEF a
<1>2. /\ \A k \in 1 .. Len(s) : k \in 1 .. Len(s) + 1
      /\ Len(s) + 1 \in 1 .. Len(s) + 1
      /\ \A k \in 1 .. Len(s) + 1 : k \in 1 .. Len(s) \/ k = Len(s) + 1
  BY <1>1
<1>3. NoMove(a) <=> NoMove(s) /\ ~Move(c)
  BY <1>1, <1>2 DEF NoMove
<1> QED BY <1>3 DEF a

LEMMA NoMoveLess ==
  ASSUME NEW s \in Seq(Presses), s # <<>>
  PROVE  NoMove(s) <=> NoMove(Tail(s)) /\ ~Move(Head(s))
<1> DEFINE t == Tail(s)
<1>1. /\ DOMAIN s = 1 .. Len(s) /\ Len(s) \in Nat \ {0}
      /\ DOMAIN t = 1 .. Len(s) - 1 /\ Head(s) = s[1]
      /\ \A k \in 1 .. Len(s) - 1 : t[k] = s[k + 1]
  OBVIOUS
<1> HIDE DEF t
<1>2. /\ 1 \in 1 .. Len(s)
      /\ \A k \in 1 .. Len(s) - 1 : k + 1 \in 1 .. Len(s)
      /\ \A k \in 1 .. Len(s) : k = 1 \/ (k - 1 \in 1 .. Len(s) - 1 /\ (k - 1) + 1 = k)
  BY <1>1
<1>3. NoMove(s) => NoMove(t) /\ ~Move(Head(s))
  BY <1>1, <1>2 DEF NoMove
<1>4. NoMove(t) /\ ~Move(Head(s)) => NoMove(s)
  <2> SUFFICES ASSUME NoMove(t), ~Move(Head(s)), NEW k \in 1 .. Len(s)
               PROVE  ~Move(s[k])
    BY <1>1 DEF NoMove
  <2>1. CASE k = 1
    BY <1>1, <2>1
  <2>2. CASE k # 1
    <3>1. k - 1 \in 1 .. Len(s) - 1 /\ (k - 1) + 1 = k
      BY <1>2, <2>2
    <3>2. t[k - 1] = s[k]
      BY <1>1, <3>1
    <3> QED BY <1>1, <3>1, <3>2 DEF NoMove
  <2> QED BY <2>1, <2>2
<1> QED BY <1>3, <1>4 DEF t

LEMMA RequestPress ==
  ASSUME Ruled, Pending(engine), Undisturbed, NEW c, Pressing(c)
  PROVE  Requested(engine', asked', request')
<1> DEFINE L == Length(engine.q)
           at == engine.q.index + engine.skipBy
           from == From
           none == -1
<1>1. /\ c \in Presses /\ asked' = Append(asked, c) /\ engine' = engine
      /\ asked \in Seq(Presses)
  BY DEF Pressing, Ruled
<1>2. /\ L \in Nat \ {0} /\ engine.q.index \in Nat /\ engine.q.index < L
      /\ engine.skipBy \in Int /\ from \in 0 .. L - 1
      /\ request \in none .. L - 1
  BY RuledIs DEF Ruled
<1>3. from = IF request # none THEN request ELSE engine.q.index
  BY DEF From
<1>4. /\ request' # none => ~Itself(engine')
      /\ Pressed("previous") => request' # from
      /\ Requested(engine, asked, request)
  BY DEF Undisturbed
<1>5. \A n \in {-1, 1} : Adjacent(from, n) # none => Adjacent(from, n) = from + n
  BY DEF Adjacent, Pending
<1>6. /\ request = none => engine.skipBy = 0 /\ NoMove(asked)
      /\ request # none => Way(asked, at, request, L)
      /\ engine.status = "stopped" => engine.skipBy = 0
      /\ request # none /\ NoMove(asked) => Expected(engine)
  BY <1>4 DEF Requested
<1>7. NoMove(asked') <=> NoMove(asked) /\ ~Move(c)
  BY <1>1, NoMoveMore
<1>8. Way(asked, at, from, L)
  <2>1. CASE request = none
    <3>1. at = engine.q.index /\ engine.q.index \in 0 .. L - 1 /\ L \in Nat
      BY <1>2, <1>6, <2>1
    <3>2. Way(asked, engine.q.index, engine.q.index, L)
      <4> HIDE DEF L
      <4> QED BY <1>1, <1>6, <2>1, <3>1, WayNone
    <3> QED BY <1>3, <2>1, <3>1, <3>2
  <2>2. CASE request # none
    BY <1>3, <1>6, <2>2
  <2> QED BY <2>1, <2>2
<1>9. Pressed(c.id)
  BY <1>1 DEF Pressed
<1>10. CASE Move(c)
  <2>1. request' \in 0 .. L - 1 /\ Leg(c, from, request')
    <3>1. CASE c.id = "next"
      <4>1. request' = Adjacent(from, 1) /\ request' # none
        BY <3>1 DEF Pressing
      <4>2. request' = from + 1
        BY <1>5, <4>1
      <4>3. request' \in none .. L - 1
        BY <4>1, RuledIs
      <4> HIDE DEF L, from
      <4> QED BY <1>2, <3>1, <4>1, <4>2, <4>3 DEF Leg
    <3>2. CASE c.id = "previous"
      <4>1. request' = Adjacent(from, -1) /\ request' # none
        BY <1>4, <1>9, <3>2 DEF Pressing
      <4>2. request' = from + (-1)
        BY <1>5, <4>1
      <4>3. request' \in none .. L - 1
        BY <4>1, RuledIs
      <4> HIDE DEF L, from
      <4> QED BY <1>2, <3>2, <4>1, <4>2, <4>3 DEF Leg
    <3>3. CASE c.id = "select"
      BY <3>3 DEF Pressing, Leg
    <3> QED BY <1>10, <3>1, <3>2, <3>3 DEF Move
  <2>2. Way(asked', at, request', L)
    <3>1. L \in Nat
      BY <1>2
    <3> HIDE DEF L, at, from
    <3> QED BY <1>1, <1>8, <2>1, <3>1, WayMore
  <2>3. request' # none
    <3> HIDE DEF L
    <3> QED BY <1>2, <2>1
  <2>4. ~Itself(engine')
    BY <1>4, <2>3
  <2> QED BY <1>1, <1>6, <1>7, <1>10, <2>2, <2>3, <2>4 DEF Requested
<1>11. CASE ~Move(c)
  <2>1. request' = request
    BY <1>11 DEF Pressing, Move
  <2>2. CASE request = none
    BY <1>1, <1>6, <1>7, <1>11, <2>1, <2>2 DEF Requested
  <2>3. CASE request # none
    <3>1. Leg(c, request, request)
      BY <1>11 DEF Leg, Move
    <3>2. Way(asked', at, request, L)
      <4>1. request \in 0 .. L - 1 /\ L \in Nat
        BY <1>2, <1>3, <2>3
      <4> HIDE DEF L, at
      <4> QED BY <1>1, <1>6, <2>3, <3>1, <4>1, WayMore
    <3>3. ~Itself(engine')
      BY <1>4, <2>1, <2>3
    <3> QED BY <1>1, <1>6, <1>7, <2>1, <2>3, <3>2, <3>3 DEF Requested
  <2> QED BY <2>2, <2>3
<1> QED BY <1>10, <1>11

\* In a queue that does not repeat, a step is to the entry next to the position.
LEMMA StepIs ==
  ASSUME NEW q, Sane(q), q.repeat = "off", NEW k \in Int
  PROVE  /\ NextIndex(q, k) # -1 <=> q.index + k \in 0 .. Length(q) - 1
         /\ Check(q, k) <=> q.index + k \in 0 .. Length(q) - 1
         /\ q.index + k \in 0 .. Length(q) - 1 => NextIndex(q, k) = q.index + k
<1> DEFINE i == q.index + k
<1>1. q \in Queue /\ i \in Int
  BY DEF Sane, Queue
<1>2. NextIndex(q, k) = Normalize(q, i, TRUE)
  BY DEF NextIndex
<1>3. Check(q, k) <=> Normalize(q, i, FALSE) # -1
  BY DEF Check
<1>4. Length(q) \in Nat
  BY <1>1, LengthType
<1> HIDE DEF i
<1>5. \A wraps \in BOOLEAN :
         /\ i \in 0 .. Length(q) - 1 => Normalize(q, i, wraps) = i
         /\ i \notin 0 .. Length(q) - 1 => Normalize(q, i, wraps) = -1
  BY <1>1, NormalizeIs
<1>6. i \in 0 .. Length(q) - 1 => i # -1
  BY <1>4
<1>7. TRUE \in BOOLEAN /\ FALSE \in BOOLEAN
  OBVIOUS
<1> QED BY <1>2, <1>3, <1>5, <1>6, <1>7 DEF i

LEMMA RequestTake ==
  ASSUME Ruled, Pending(engine), Undisturbed,
         NEW m \in Brief \cup {"play", "skip", "seek", "nothing"}, Posts(m)
  PROVE  Requested(engine', asked', request')
<1> DEFINE L == Length(engine.q)
           at == engine.q.index + engine.skipBy
           c == Head(asked)
           n == IF c.id = "next" THEN 1 ELSE -1
           none == -1
           to == engine'.q.index + engine'.skipBy
<1>1. /\ asked \in Seq(Presses) /\ asked # <<>> /\ asked' = Tail(asked)
      /\ request' = request /\ c \in Presses
  BY AskedLess DEF Ruled, Posts
<1>2. /\ L \in Nat \ {0} /\ engine.q.index \in Nat /\ engine.skipBy \in Int
      /\ Sane(engine.q) /\ engine.q.repeat = "off" /\ engine.q \in Queue
  BY RuledIs DEF Pending
<1>3. /\ request' # none => ~Itself(engine')
      /\ Taken("previous") => ~In(engine'.inbox, "seek")
      /\ Taken("select") => ~In(engine.inbox, "skip")
      /\ Requested(engine, asked, request)
  BY DEF Undisturbed
<1>4. Taken(c.id)
  <2>1. Len(Tail(asked)) < Len(asked)
    BY <1>1
  <2> QED BY <1>1, <2>1 DEF Taken
<1>5. NoMove(asked) <=> NoMove(asked') /\ ~Move(c)
  BY <1>1, NoMoveLess
<1>6. m # "nothing" => Adds(engine', engine, m)
  BY DEF Posts
<1>7. /\ m # "play" => engine'.q = engine.q
      /\ Length(engine'.q) = L
      /\ m # "skip" => engine'.skipBy = engine.skipBy
      /\ engine'.status = engine.status
  <2>1. CASE m = "nothing"
    <3>1. engine' = engine
      BY <2>1 DEF Posts, Brief
    <3> QED BY <3>1
  <2>2. CASE m # "nothing"
    <3>1. /\ Only(engine', engine, {"q", "inbox", "skipBy"})
          /\ engine'.q.paths = engine.q.paths
          /\ m # "skip" => engine'.skipBy = engine.skipBy
      BY <1>6, <2>2 DEF Adds
    <3>2. engine'.status = engine.status
      BY <3>1 DEF Only, Fields
    <3>3. m # "play" => engine'.q = engine.q
      BY DEF Posts
    <3> QED BY <3>1, <3>2, <3>3 DEF Length
  <2> QED BY <2>1, <2>2
<1>8. m \in Brief => c.id \in {"play", "pause", "stop"}
  BY DEF Posts, Brief
<1>9. m \notin Brief => Move(c) /\ m \in {"play", "skip", "seek", "nothing"}
  BY DEF Posts, Brief, Move
<1>10. CASE request = none
  <2>1. engine.skipBy = 0 /\ NoMove(asked)
    BY <1>3, <1>10 DEF Requested
  <2>2. m \in Brief
    BY <1>5, <1>9, <2>1
  <2>3. m # "skip"
    BY <2>2 DEF Brief
  <2> QED BY <1>1, <1>5, <1>7, <1>10, <2>1, <2>3 DEF Requested
<1>11. CASE request # none
  <2>1. /\ Way(asked, at, request, L)
        /\ engine.status = "stopped" => engine.skipBy = 0
        /\ NoMove(asked) => Expected(engine)
    BY <1>3, <1>11 DEF Requested
  <2>2. PICK next \in 0 .. L - 1 : Leg(c, at, next) /\ Way(asked', next, request, L)
    <3>1. L \in Nat
      BY <1>2
    <3> HIDE DEF L, at
    <3> QED BY <1>1, <2>1, <3>1, WayLess
  <2>3. ~Itself(engine')
    BY <1>1, <1>3, <1>11
  <2>4. SUFFICES /\ next = to
                 /\ engine'.status = "stopped" => engine'.skipBy = 0
                 /\ NoMove(asked') => Expected(engine')
    BY <1>1, <1>7, <1>11, <2>2, <2>3 DEF Requested
  <2>5. CASE m \in Brief
    <3>1. m \notin {"play", "skip", "nothing"}
      BY <2>5 DEF Brief
    <3>2. ~Move(c)
      BY <1>8, <2>5 DEF Move
    <3>3. next = to
      BY <1>7, <2>2, <3>1, <3>2 DEF Move, Leg
    <3>4. Expected(engine) => Expected(engine')
      <4>1. Only(engine', engine, {"q", "inbox", "skipBy"}) /\ Alike(engine', engine, {m})
        BY <1>6, <3>1 DEF Adds
      <4>2. /\ engine'.cur = engine.cur /\ engine'.list = engine.list
            /\ engine'.loading = engine.loading
        BY <4>1 DEF Only, Fields
      <4>3. Audio(engine') <=> Audio(engine)
        BY <4>2, AudioIs
      <4>4. \A x \in {"play", "skip"} : In(engine.inbox, x) => In(engine'.inbox, x)
        BY <3>1, <4>1 DEF Alike
      <4> QED BY <1>7, <4>3, <4>4 DEF Expected
    <3> QED BY <1>5, <1>7, <2>1, <3>1, <3>2, <3>3, <3>4
  <2>6. CASE m = "play"
    <3>1. In(engine'.inbox, "play")
      BY <1>6, <2>6 DEF Adds
    <3>2. \/ c.id = "select" /\ engine'.q = GoTo(engine.q, c.at)
          \/ /\ c.id \in {"next", "previous"} /\ engine.status = "stopped"
             /\ NextIndex(engine.q, n) \in 0 .. Length(engine.q) - 1
             /\ engine'.q = GoTo(engine.q, NextIndex(engine.q, n))
      BY <2>6 DEF Posts, Brief
    <3>3. engine'.skipBy = engine.skipBy /\ engine.skipBy = 0
      <4>1. CASE c.id = "select"
        BY <1>3, <1>4, <1>7, <2>6, <4>1 DEF Pending
      <4>2. CASE engine.status = "stopped"
        BY <1>7, <2>1, <2>6, <4>2
      <4> QED BY <3>2, <4>1, <4>2
    <3>4. next = engine'.q.index
      <4>1. CASE c.id = "select" /\ engine'.q = GoTo(engine.q, c.at)
        <5>1. engine'.q.index = c.at
          BY <1>2, <4>1, GoToPaths
        <5> QED BY <2>2, <4>1, <5>1 DEF Leg
      <4>2. CASE /\ c.id \in {"next", "previous"}
                 /\ NextIndex(engine.q, n) \in 0 .. Length(engine.q) - 1
                 /\ engine'.q = GoTo(engine.q, NextIndex(engine.q, n))
        <5>1. engine'.q.index = NextIndex(engine.q, n) /\ n \in Int
          BY <1>2, <4>2, GoToPaths
        <5>2. NextIndex(engine.q, n) # -1
          <6> HIDE DEF n
          <6> QED BY <1>2, <4>2
        <5>3. NextIndex(engine.q, n) = engine.q.index + n
          <6> HIDE DEF n
          <6> QED BY <1>2, <5>1, <5>2, StepIs
        <5>4. next = engine.q.index + n
          BY <1>2, <2>2, <3>3, <4>2 DEF Leg
        <5> QED BY <5>1, <5>3, <5>4
      <4> QED BY <3>2, <4>1, <4>2
    <3>5. engine'.q.index \in Int
      BY <2>2, <3>4
    <3> QED BY <3>1, <3>3, <3>4, <3>5 DEF Expected
  <2>7. CASE m \in {"skip", "nothing"}
    <3>1. c.id \in {"next", "previous"} /\ next = at + n /\ engine'.q = engine.q
      <4>1. c.id \in {"next", "previous"}
        BY <2>7 DEF Posts, Brief
      <4>2. engine'.q = engine.q
        BY <1>7, <2>7
      <4> QED BY <1>2, <2>2, <4>1, <4>2 DEF Leg
    <3>2. CASE m = "skip"
      <4>1. engine.status # "stopped" /\ engine'.skipBy = engine.skipBy + n
        BY <3>2 DEF Posts, Brief
      <4>2. In(engine'.inbox, "skip")
        BY <1>6, <3>2 DEF Adds
      <4>3. next = to
        BY <1>2, <3>1, <4>1
      <4> QED BY <1>7, <4>1, <4>2, <4>3 DEF Expected
    <3>3. CASE m = "nothing"
      <4> SUFFICES FALSE
        OBVIOUS
      <4>1. IF engine.status = "stopped"
            THEN NextIndex(engine.q, n) = -1 ELSE ~CanSkip(n)
        BY <3>3 DEF Posts, Brief
      <4>2. n \in Int /\ engine.skipBy + n \in Int
            /\ next = engine.q.index + (engine.skipBy + n)
        BY <1>2, <3>1
      <4>3. CASE engine.status = "stopped"
        <5>1. next = engine.q.index + n
          BY <1>2, <2>1, <4>2, <4>3
        <5> HIDE DEF n
        <5> QED BY <1>2, <2>2, <4>1, <4>2, <4>3, <5>1, StepIs
      <4>4. CASE engine.status # "stopped"
        <5> DEFINE k == engine.skipBy + n
        <5>1. ~Check(engine.q, k)
          BY <4>1, <4>4 DEF CanSkip
        <5>2. k \in Int /\ next = engine.q.index + k
          BY <4>2
        <5> HIDE DEF k
        <5> QED BY <1>2, <2>2, <5>1, <5>2, StepIs
      <4> QED BY <4>3, <4>4
    <3> QED BY <2>7, <3>2, <3>3
  <2>8. CASE m = "seek"
    <3>1. c.id = "previous"
      BY <2>8 DEF Posts, Brief
    <3>2. In(engine'.inbox, "seek")
      BY <1>6, <2>8 DEF Adds
    <3> QED BY <1>3, <1>4, <3>1, <3>2
  <2> QED BY <2>5, <2>6, <2>7, <2>8
<1> QED BY <1>10, <1>11

LEMMA RequestMessage ==
  ASSUME Calm, Ruled, Pending(engine), Undisturbed, HandleMessage,
         NEW m, NEW t, NEW r, Handles(m, t, r), Kept(engine'), Pending(engine')
  PROVE  Requested(engine', asked', request')
<1> DEFINE L == Length(engine.q)
           at == engine.q.index + engine.skipBy
           none == -1
           to == engine'.q.index + engine'.skipBy
<1>1. /\ m = Head(engine.inbox) /\ t = [engine EXCEPT !.inbox = Tail(@)]
      /\ m \in Messages /\ Took(t, engine, m) /\ Only(t, engine, {"inbox"})
      /\ Sound(t, FALSE) /\ r \in Handle(t, m) /\ Only(engine', r, {"stat"})
      /\ AllOk(file) /\ Waited(ui, doing, engine.inbox) /\ asked \in Seq(Presses)
      /\ In(engine.inbox, m)
  BY DEF Handles, Took, WithInbox, Ruled
<1>2. Handled(t, m)
  BY <1>1 DEF HandleMessage
<1>3. request' \in {request, none} /\ asked' = asked
  BY <1>2, HandledIs
<1>4. /\ Answers(engine'.inbox, engine.inbox, m) /\ Turned(engine', engine, m)
      /\ engine'.skipBy = (IF m = "skip" THEN 0 ELSE engine.skipBy)
      /\ engine'.q.paths = engine.q.paths
  BY Answering
<1>5. /\ Requested(engine, asked, request)
      /\ request' # none =>
            ~Itself(engine') /\ (engine'.status = "stopped" => engine.status = "stopped")
      /\ request # none => request' # none
  BY DEF Undisturbed
<1>6. /\ L \in Nat \ {0} /\ engine.q.index \in Nat /\ engine.skipBy \in Int
      /\ Sane(engine.q) /\ engine.q.repeat = "off" /\ engine.q \in Queue
      /\ L = Length(engine'.q)
  BY <1>4, RuledIs DEF Pending, Length
<1>7. /\ t.q = engine.q /\ t.skipBy = engine.skipBy /\ t.skip = engine.skip
      /\ t.status = engine.status /\ t.late = engine.late
  BY <1>1 DEF Only, Fields
<1>8. /\ engine'.q = r.q /\ engine'.status = r.status /\ engine'.playing = r.playing
      /\ engine'.cur = r.cur /\ engine'.list = r.list /\ engine'.loading = r.loading
  BY <1>1 DEF Only, Fields
<1>9. CASE request = none
  BY <1>3, <1>4, <1>5, <1>9 DEF Requested
<1>10. CASE request # none
  <2>1. request' = request /\ ~Itself(engine')
        /\ (engine'.status = "stopped" => engine.status = "stopped")
    BY <1>3, <1>5, <1>10
  <2>2. /\ ~Itself(engine) /\ Way(asked, at, request, L)
        /\ engine.status = "stopped" => engine.skipBy = 0
        /\ NoMove(asked) => Expected(engine)
    BY <1>5, <1>10 DEF Requested
  <2>3. /\ engine.skip = "none" /\ ~engine.late
        /\ m # "complete" /\ m # "rebuffer"
    BY <1>1, <2>2 DEF Itself, Waited
  <2>4. at \in 0 .. L - 1 /\ request \in 0 .. L - 1
    <3>1. L \in Nat
      BY <1>6
    <3> HIDE DEF L, at
    <3> QED BY <1>1, <2>2, <3>1, WayEnds
  <2>5. to = at
    <3>1. CASE m = "skip" /\ engine.status = "stopped"
      <4>1. r \in OnSkip(t)
        BY <1>1, <3>1 DEF Handle
      <4>2. r.q = t.q
        BY <1>1, <1>7, <3>1, <4>1, SkipIs
      <4> QED BY <1>4, <1>7, <1>8, <2>2, <3>1, <4>2
    <3>2. CASE m = "skip" /\ engine.status # "stopped"
      <4> DEFINE i == NextIndex(t.q, QueueSteps(t, t.skipBy))
      <4>1. r \in OnSkip(t)
        BY <1>1, <3>2 DEF Handle
      <4>2. QueueSteps(t, t.skipBy) = engine.skipBy
        BY <1>7, <2>3 DEF QueueSteps
      <4>3. NextIndex(engine.q, engine.skipBy) = at /\ i = at
        <5>1. NextIndex(engine.q, engine.skipBy) = at
          BY <1>6, <2>4, StepIs
        <5> QED BY <1>7, <4>2, <5>1
      <4>4. at # -1
        <5> HIDE DEF at, L
        <5> QED BY <1>6, <2>4
      <4>5. r.q = GoTo(engine.q, at)
        <5> DEFINE p == FALSE
        <5>1. p \in BOOLEAN /\ Sound(t, p) /\ AllOk(file)
          BY <1>1
        <5>2. i # -1 /\ t.status # "stopped"
          BY <1>7, <3>2, <4>3, <4>4
        <5> HIDE DEF p, i, at
        <5>3. r.q = GoTo(t.q, i)
          <6> USE DEF i
          <6> QED BY <4>1, <5>1, <5>2, SkipIs
        <5> QED BY <1>7, <4>3, <5>3
      <4>6. engine'.q.index = at
        BY <1>6, <1>8, <4>5, GoToPaths
      <4>7. engine'.skipBy = 0
        BY <1>4, <3>2
      <4> QED BY <2>4, <4>6, <4>7
    <3>3. CASE m # "skip"
      <4>1. r.q = t.q
        <5>1. AllOk(file) /\ ~t.late /\ m \notin {"skip", "complete", "rebuffer"}
          BY <1>1, <1>7, <2>3, <3>3
        <5> QED BY <5>1, QueueStays
      <4> QED BY <1>4, <1>7, <1>8, <3>3, <4>1
    <3> QED BY <3>1, <3>2, <3>3
  <2>6. engine'.status = "stopped" => engine'.skipBy = 0
    BY <1>4, <2>1, <2>2
  <2>7. NoMove(asked) => Expected(engine')
    <3> SUFFICES ASSUME NoMove(asked), ~Expected(engine') PROVE FALSE
      OBVIOUS
    <3>1. ~In(engine'.inbox, "play") /\ (m # "play" => ~In(engine.inbox, "play"))
      BY <1>4 DEF Expected, Answers, Reports
    <3>2. engine.status # "stopped" => engine'.status # "stopped"
      BY <2>1
    <3>3. engine'.status # "stopped"
      <4>1. CASE m = "play"
        BY <1>4, <4>1 DEF Turned
      <4>2. CASE m # "play"
        <5>1. engine.status # "stopped"
          BY <2>2, <3>1, <4>2 DEF Expected
        <5> QED BY <2>1, <5>1
      <4> QED BY <4>1, <4>2
    <3>4. ~In(engine'.inbox, "skip") /\ Audio(engine')
      BY <3>3 DEF Expected
    <3>5. Good(engine')
      BY <3>1, <3>3, RunsIs DEF Kept
    <3>6. engine'.skipBy = 0
      BY <3>4 DEF Pending
    <3>7. engine'.q.index = request
      <4>1. at = request
        <5>1. L \in Nat
          BY <1>6
        <5> HIDE DEF L, at
        <5> QED BY <1>1, <2>2, <5>1, WayEnds
      <4>2. engine'.q.index \in Nat
        BY DEF Kept, Sound, Fit, Engine, Queue
      <4> QED BY <2>5, <3>6, <4>1, <4>2
    <3>8. engine'.playing # None => engine'.playing = At(engine'.q, request)
      <4>1. Sane(engine'.q) /\ Length(engine'.q) > 0
        BY <1>6 DEF Kept, Sound, Fit
      <4>2. Peek(engine'.q, 0) = At(engine'.q, engine'.q.index)
        BY <4>1, PeekHere
      <4> QED BY <3>5, <3>7, <4>2 DEF Good, Buffer, Heard
    <3>9. ASSUME TrackReady(t, m) \/ ChangeEnds(t, m), engine'.playing # None
          PROVE  FALSE
      <4>1. TrackEvent
        BY <1>2, <3>9 DEF Handled
      <4>2. /\ request \in 0 .. Length(engine'.q) - 1
            /\ At(engine'.q, request) = engine'.playing
        BY <1>6, <2>4, <3>8, <3>9
      <4>3. request' = -1
        BY <4>1, <4>2 DEF TrackEvent
      <4> QED BY <1>10, <2>1, <4>3
    <3>10. Audio(r)
      BY <1>8, <3>4, AudioIs
    <3>11. CASE m = "play"
      <4>1. r = OnPlay(t)
        BY <1>1, <3>11 DEF Handle
      <4>2. ~Audio(r)
        BY <1>1, <4>1, PlayIs
      <4> QED BY <3>10, <4>2
    <3>12. CASE m # "play"
      <4>1. engine.status # "stopped" /\ ~In(engine.inbox, "play")
        BY <2>2, <3>1, <3>12 DEF Expected
      <4>2. Runs(engine)
        BY <4>1, RunsIs
      <4>3. CASE m = "skip"
        <5>1. Good(engine)
          BY <4>2 DEF Ruled, Kept
        <5>2. Good(t)
          BY <1>1, <4>3, <5>1, TookKeeps DEF Good
        <5>3. r \in OnSkip(t)
          BY <1>1, <4>3 DEF Handle
        <5>4. r.playing # None
          BY <1>1, <1>7, <1>8, <3>3, <3>10, <4>1, <5>2, <5>3, SkipShows
        <5>5. ChangeEnds(t, m)
          BY <1>8, <3>3, <4>3, <5>4 DEF ChangeEnds
        <5> QED BY <1>8, <3>9, <5>4, <5>5
      <4>4. CASE m # "skip"
        <5>1. ~In(engine.inbox, "skip")
          BY <1>4, <3>4, <4>4 DEF Answers, Reports
        <5>2. ~Audio(engine)
          BY <2>2, <4>1, <5>1 DEF Expected
        <5>3. TrackReady(t, m) /\ r.playing # None
          BY <1>8, <2>3, <3>3, <3>10, <3>12, <4>2, <4>4, <5>2, Waiting
        <5> QED BY <1>8, <3>9, <5>3
      <4> QED BY <4>3, <4>4
    <3> QED BY <3>11, <3>12
  <2> QED BY <1>3, <1>6, <1>10, <2>1, <2>2, <2>5, <2>6, <2>7 DEF Requested
<1> QED BY <1>9, <1>10

LEMMA PendingStep ==
  ASSUME Ruled, Pending(engine), [CommandsNext]_allVars
  PROVE  Pending(engine')
<1>1. ASSUME engine'.q.repeat = engine.q.repeat, engine'.skipBy \in {0, engine.skipBy},
             engine'.skipBy = engine.skipBy
             => (In(engine.inbox, "skip") => In(engine'.inbox, "skip"))
      PROVE  Pending(engine')
  <2>1. CASE engine'.skipBy = 0
    BY <1>1, <2>1 DEF Pending
  <2>2. CASE engine'.skipBy = engine.skipBy
    BY <1>1, <2>2 DEF Pending
  <2> QED BY <1>1, <2>1, <2>2
<1>2. CASE engine' = engine
  BY <1>2 DEF Pending
<1>3. ASSUME NEW m, Adds(engine', engine, m) PROVE Pending(engine')
  <2>1. /\ engine'.q.repeat = engine.q.repeat /\ In(engine'.inbox, m)
        /\ Alike(engine', engine, {m})
        /\ m # "skip" => engine'.skipBy = engine.skipBy
    BY <1>3 DEF Adds
  <2>2. CASE m = "skip"
    BY <2>1, <2>2 DEF Pending
  <2>3. CASE m # "skip"
    <3>1. In(engine.inbox, "skip") => In(engine'.inbox, "skip")
      BY <2>1, <2>3 DEF Alike
    <3> QED BY <1>1, <2>1, <2>3, <3>1
  <2> QED BY <2>2, <2>3
<1>4. CASE \/ PressNext \/ PressPrevious \/ PressToggle \/ PressStop
           \/ \E i \in 0 .. Length(engine.q) - 1 : PressSelect(i)
  <2>1. PICK c : Pressing(c)
    BY <1>4, PressingIs
  <2> QED BY <1>2, <2>1 DEF Pressing
<1>5. CASE TakeCommand
  <2>1. PICK m \in Brief \cup {"play", "skip", "seek", "nothing"} : Posts(m)
    BY <1>5, PostsIs
  <2>2. CASE m = "nothing"
    <3>1. engine' = engine
      BY <2>1, <2>2 DEF Posts, Brief
    <3> QED BY <1>2, <3>1
  <2>3. CASE m # "nothing"
    <3>1. Adds(engine', engine, m)
      BY <2>1, <2>3 DEF Posts
    <3> QED BY <1>3, <3>1
  <2> QED BY <2>2, <2>3
<1>6. CASE EndCommand
  BY <1>2, <1>6 DEF EndCommand, vars
<1>7. CASE HandleMessage
  <2>1. PICK m, t, r : Handles(m, t, r)
    BY <1>7, Taking DEF Ruled, HandleMessage
  <2>2. /\ Answers(engine'.inbox, engine.inbox, m)
        /\ engine'.q.repeat = engine.q.repeat
        /\ engine'.skipBy = (IF m = "skip" THEN 0 ELSE engine.skipBy)
    BY <2>1, Answering
  <2>3. CASE m = "skip"
    BY <2>2, <2>3 DEF Pending
  <2>4. CASE m # "skip"
    <3>1. In(engine.inbox, "skip") => In(engine'.inbox, "skip")
      BY <2>2, <2>4 DEF Answers, Reports
    <3> QED BY <1>1, <2>2, <2>4, <3>1
  <2> QED BY <2>3, <2>4
<1>8. CASE HandleChange
  <2>1. PICK r : Changes(r)
    BY <1>8, ChangingIs DEF HandleChange
  <2>2. /\ engine'.q.repeat = engine.q.repeat /\ engine'.skipBy = engine.skipBy
        /\ Alike(engine', engine, Reports)
    BY <2>1, ChangedIs
  <2>3. In(engine.inbox, "skip") => In(engine'.inbox, "skip")
    BY <2>2 DEF Alike, Reports
  <2> QED BY <1>1, <2>2, <2>3
<1>9. CASE Background
  <2>1. Beside
    BY <1>9, BesideIs
  <2>2. CASE /\ Only(engine', engine, {"inbox", "loading", "codec", "mark"})
             /\ \A x : x \notin Reports => (In(engine'.inbox, x) <=> In(engine.inbox, x))
    <3>1. engine'.q = engine.q /\ engine'.skipBy = engine.skipBy
      BY <2>2 DEF Only, Fields
    <3>2. In(engine.inbox, "skip") => In(engine'.inbox, "skip")
      BY <2>2 DEF Reports
    <3> QED BY <1>1, <3>1, <3>2
  <2>3. CASE Adds(engine', engine, "resume")
    BY <1>3, <2>3
  <2> QED BY <2>1, <2>2, <2>3 DEF Beside
<1>10. CASE UNCHANGED allVars
  BY <1>2, <1>10 DEF allVars, codeVars, vars
<1> QED BY <1>4, <1>5, <1>6, <1>7, <1>8, <1>9, <1>10 DEF CommandsNext

LEMMA AskingStep ==
  ASSUME Calm, Ruled, Asking, [CommandsNext]_allVars
  PROVE  Pending(engine') /\ (~overtaken' => Requested(engine', asked', request'))
<1>1. Pending(engine) /\ Pending(engine')
  BY PendingStep DEF Asking
<1>2. CASE UNCHANGED allVars
  <2>1. /\ overtaken' = overtaken /\ engine' = engine
        /\ asked' = asked /\ request' = request
    BY <1>2 DEF allVars, codeVars, vars, pressVars
  <2> QED BY <1>1, <2>1 DEF Asking
<1>3. CASE CommandsNext
  <2>1. Watch
    BY <1>3 DEF CommandsNext
  <2> SUFFICES ASSUME Undisturbed PROVE Requested(engine', asked', request')
    BY <1>1, <2>1, Undisturbing
  <2>2. /\ Requested(engine, asked, request)
        /\ request' # -1 => ~Itself(engine')
    BY DEF Undisturbed
  <2>3. CASE \/ PressNext \/ PressPrevious \/ PressToggle \/ PressStop
             \/ \E i \in 0 .. Length(engine.q) - 1 : PressSelect(i)
    <3>1. PICK c : Pressing(c)
      BY <2>3, PressingIs
    <3> QED BY <1>1, <3>1, RequestPress
  <2>4. CASE TakeCommand
    <3>1. PICK m \in Brief \cup {"play", "skip", "seek", "nothing"} : Posts(m)
      BY <2>4, PostsIs
    <3> QED BY <1>1, <3>1, RequestTake
  <2>5. CASE EndCommand
    <3>1. engine' = engine /\ asked' = asked /\ request' = request
      BY <2>5 DEF EndCommand, vars
    <3> QED BY <2>2, <3>1
  <2>6. CASE HandleMessage
    <3>1. AllOk(file) /\ Kept(engine) /\ TakeMessage
      BY <2>6 DEF Ruled, HandleMessage
    <3>2. PICK m, t, r : Handles(m, t, r)
      BY <3>1, Taking
    <3>3. Kept(engine')
      BY <3>1, KeptTakeMessage
    <3> QED BY <1>1, <2>6, <3>2, <3>3, RequestMessage
  <2>7. CASE HandleChange
    <3>1. TrackChanged /\ request' \in {request, -1} /\ asked' = asked
      BY <2>7, HandledIs DEF HandleChange
    <3>2. PICK r : Changes(r)
      BY <3>1, ChangingIs
    <3>3. engine.mark = "played" /\ engine'.skipBy = engine.skipBy
      BY <3>2, ChangedIs DEF Changes
    <3>4. request = -1
      BY <2>2, <3>3 DEF Requested, Itself
    <3> QED BY <2>2, <3>1, <3>3, <3>4 DEF Requested
  <2>8. CASE Background
    <3>1. Beside
      BY <2>8, BesideIs
    <3>2. asked' = asked /\ request' = request /\ engine'.q = engine.q
      BY <3>1 DEF Beside
    <3>3. /\ engine'.cur = engine.cur /\ engine'.list = engine.list
          /\ engine'.loading = "no" <=> engine.loading = "no"
      BY <3>1 DEF Beside, Adds, Only, Fields
    <3>4. engine'.status = engine.status /\ engine'.skipBy = engine.skipBy
      BY <3>1 DEF Beside, Adds, Only, Fields
    <3>5. \A x \in {"play", "skip"} : In(engine.inbox, x) => In(engine'.inbox, x)
      BY <3>1 DEF Beside, Adds, Alike, Reports
    <3>6. Audio(engine') <=> Audio(engine)
      BY <3>3, AudioIs
    <3>7. Expected(engine) => Expected(engine')
      BY <3>4, <3>5, <3>6 DEF Expected
    <3> QED BY <2>2, <3>2, <3>4, <3>7 DEF Requested
  <2> QED BY <1>3, <2>3, <2>4, <2>5, <2>6, <2>7, <2>8 DEF CommandsNext
<1> QED BY <1>2, <1>3

(* When all is quiet, a request has been met, unless it has been overtaken *)
(* in one of the ways that Overtaking lists: in a queue that does not      *)
(* repeat, where a press moves by one entry or not at all.                 *)
THEOREM CommandsMet ==
  ASSUME RoughSpots = {}, Modes \subseteq {"off"}
  PROVE  CommandsSpec => []RequestMet
<1> DEFINE I == Ruled /\ Asking
<1>1. Calm
  BY DEF Calm, Plain
<1>2. CommandsInit => I
  <2> SUFFICES ASSUME CommandsInit PROVE I
    OBVIOUS
  <2>1. Ruled /\ engine.skipBy = 0 /\ engine.q.repeat = "off"
    BY RuledInit
  <2>2. asked = <<>> /\ request = -1
    BY DEF CommandsInit
  <2> QED BY <2>1, <2>2 DEF Asking, Pending, Requested, NoMove
<1>3. I /\ [CommandsNext]_allVars => I'
  <2> SUFFICES ASSUME I, [CommandsNext]_allVars PROVE I'
    OBVIOUS
  <2>1. Ruled'
    BY RuledStep
  <2>2. Pending(engine') /\ (~overtaken' => Requested(engine', asked', request'))
    BY <1>1, AskingStep
  <2>3. Asking'
    BY <2>2 DEF Asking, Pending, Requested, Itself, Expected, Audio, HasAudio,
                InLoad, In, NoMove, Move, Way, Passes, Leg, Length
  <2> QED BY <2>1, <2>3
<1>4. I => RequestMet
  <2> SUFFICES ASSUME I, Quiet, ~overtaken, request # -1
               PROVE  FALSE
    BY DEF RequestMet
  <2>1. asked = <<>> /\ engine.inbox = <<>> /\ engine.loading = "no"
    BY DEF Quiet
  <2>2. ~In(engine.inbox, "play") /\ ~In(engine.inbox, "skip") /\ NoMove(asked)
    BY <2>1 DEF In, NoMove
  <2>3. engine.status # "stopped" /\ ~Audio(engine)
    BY <2>2 DEF Asking, Requested, Expected
  <2>4. Good(engine) /\ AllOk(file)
    BY <1>1, <2>2, <2>3, RunsIs DEF Ruled, Kept
  <2>5. engine.cur # 0
    BY <2>4 DEF Good, Steady
  <2> QED BY <2>1, <2>3, <2>5, AudioIs
<1> QED BY <1>2, <1>3, <1>4, PTL DEF CommandsSpec

=============================================================================
