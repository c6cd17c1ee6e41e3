------------------------------ MODULE PlayQueue ------------------------------
(***************************************************************************)
(* The play queue (apps/crazypod/crazypod_playlist.c) as operators on a    *)
(* record: the paths in playing order, the paths in the order they were    *)
(* queued in, the position (counted from 0, as in the code), and the       *)
(* shuffle and repeat modes.  Each operator is one critical section under  *)
(* the queue's mutex.                                                      *)
(*                                                                         *)
(* Left out: the generation and the restore from the disk (StateSave has   *)
(* them), queue_started, which only reports, and the storage, which grows. *)
(***************************************************************************)
EXTENDS Integers, Sequences

CONSTANTS Tracks, None

ASSUME NoneAssumption == None \notin Tracks

RepeatModes == {"off", "all", "one"}

Queue == [paths : Seq(Tracks), original : Seq(Tracks), index : Nat,
          shuffle : BOOLEAN, repeat : RepeatModes]

Empty(mode) == [paths |-> <<>>, original |-> <<>>, index |-> 0,
                shuffle |-> FALSE, repeat |-> mode]

Length(q) == Len(q.paths)
At(q, i) == q.paths[i + 1]

(* normalize_index: -1 if there is no such entry.                          *)
Normalize(q, i, wraps) ==
    IF i \in 0 .. Length(q) - 1 THEN i
    ELSE IF Length(q) > 0 /\ wraps /\ q.repeat = "all" THEN i % Length(q)
    ELSE -1

(* playlist_peek and playlist_check.                                       *)
Peek(q, steps) ==
    LET i == Normalize(q, q.index + steps, TRUE)
    IN  IF i = -1 THEN None ELSE At(q, i)

Check(q, steps) == Normalize(q, q.index + steps, FALSE) # -1

(* playlist_next: the new position, -1 if there is none.                   *)
NextIndex(q, steps) ==
    IF q.repeat = "one" /\ steps # 0 THEN q.index
    ELSE Normalize(q, q.index + steps, TRUE)

GoTo(q, i) == [q EXCEPT !.index = i]

Without(s, i) == [k \in 1 .. Len(s) - 1 |-> IF k < i THEN s[k] ELSE s[k + 1]]

Bug_SkipEntryKeepsIndex(q, steps) ==
    LET i == Normalize(q, q.index + steps, FALSE)
    IN  IF i = -1 THEN q
        ELSE [q EXCEPT !.paths = Without(@, i + 1),
                       !.original = Without(@, i + 1)]

(* playlist_skip_entry: the entry is removed from both orders by position. *)
SkipEntry(q, steps) ==
    LET i == Normalize(q, q.index + steps, FALSE)
        last == Length(q) - 2
    IN  IF i = -1 THEN q
        ELSE [q EXCEPT !.paths = Without(@, i + 1),
                       !.original = Without(@, i + 1),
                       !.index = IF last < 0 THEN 0
                                 ELSE IF @ > last THEN last ELSE @]

Orders(n) ==
    {f \in [1 .. n -> 1 .. n] : \A k, l \in 1 .. n : f[k] = f[l] => k = l}

(* queue_set_shuffle_locked; perm is what the random numbers amount to.    *)
(* The current track is looked up by its path.                             *)
Arranged(q, on, perm) ==
    IF on THEN [k \in 1 .. Length(q) |-> q.paths[perm[k]]] ELSE q.original

Found(paths, track, default) ==
    LET at == {k \in 1 .. Len(paths) : paths[k] = track}
    IN  IF at = {} THEN default
        ELSE (CHOOSE k \in at : \A j \in at : k <= j) - 1

SetShuffle(q, on, perm) ==
    IF Length(q) = 0 THEN [q EXCEPT !.shuffle = on]
    ELSE [q EXCEPT !.paths = Arranged(q, on, perm),
                   !.index = Found(Arranged(q, on, perm), At(q, @), @),
                   !.shuffle = on]

SetRepeat(q, mode) == [q EXCEPT !.repeat = mode]

(* queue_replace between its audio_stop and its audio_play.                *)
Replace(q, paths, start, perm) ==
    LET fresh == [q EXCEPT !.paths = paths, !.original = paths, !.index = 0]
        mixed == IF q.shuffle THEN SetShuffle(fresh, TRUE, perm) ELSE fresh
    IN  [mixed EXCEPT !.index = IF q.shuffle
                                THEN Found(mixed.paths, paths[start + 1], start)
                                ELSE start]

(* crazypod_queue_replace_shuffled: shuffle is turned on, and whatever     *)
(* comes first begins.                                                     *)
ReplaceShuffled(q, paths, perm) ==
    LET fresh == [q EXCEPT !.paths = paths, !.original = paths, !.index = 0]
    IN  [SetShuffle(fresh, TRUE, perm) EXCEPT !.index = 0]
=============================================================================
