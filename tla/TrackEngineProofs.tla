-------------------------- MODULE TrackEngineProofs --------------------------
(***************************************************************************)
(* Theorems about the playback engine, for any tracks and queues, any      *)
(* size of the buffer and any number of broken files and commands.  The    *)
(* types hold whatever a run lets happen (RoughSpots) and in every repeat  *)
(* mode; the rest needs what the engine is built for, see Calm.            *)
(* First comes what the operators of PlayQueue return, for any queue: a    *)
(* position stays in the queue, both orders stay equally long, and a       *)
(* removed entry moves nothing in front of it.                             *)
(***************************************************************************)
EXTENDS TrackEngine, FiniteSetTheorems, SequenceTheorems, WellFoundedInduction,
        TLAPS

-----------------------------------------------------------------------------
(* A set of naturals has a least element, and induction with a set in the  *)
(* place of the predicate.                                                 *)
LEMMA Least ==
  ASSUME NEW T \in SUBSET Nat, T # {}
  PROVE  \E m \in T : \A k \in T : m <= k
<1> DEFINE R == {pair \in Nat \X Nat : pair[1] < pair[2]}
<1>1. OpToRel(<, Nat) = R
  BY DEF OpToRel
<1>2. IsWellFoundedOn(R, Nat)
  BY <1>1, NatLessThanWellFounded
<1>3. PICK m \in T : \A k \in T : ~(<<k, m>> \in R)
  <2> HIDE DEF R
  <2> QED BY <1>2, WFMin
<1>4. \A k \in T : ~(k < m)
  BY <1>3
<1> QED BY <1>4

LEMMA Induction ==
  ASSUME NEW N \in Nat, NEW T, 0 \in T,
         \A n \in 0 .. N - 1 : n \in T => n + 1 \in T
  PROVE  0 .. N \subseteq T
<1> DEFINE Bad == {n \in 0 .. N : n \notin T}
<1>1. SUFFICES ASSUME Bad # {} PROVE FALSE
  OBVIOUS
<1>2. PICK m \in Bad : \A k \in Bad : m <= k
  <2>1. Bad \in SUBSET Nat
    OBVIOUS
  <2> HIDE DEF Bad
  <2> QED BY <1>1, <2>1, Least
<1>3. m \in 1 .. N /\ m \notin T
  BY <1>2
<1>4. m - 1 \in 0 .. N - 1 /\ m - 1 \notin Bad
  BY <1>2, <1>3
<1>5. m - 1 \in T
  BY <1>4
<1>6. (m - 1) + 1 \in T
  BY <1>4, <1>5
<1> QED BY <1>3, <1>6

-----------------------------------------------------------------------------
(* A queue whose position is one of it, and whose two orders are equally   *)
(* long.                                                                   *)
Sane(q) ==
    /\ q \in Queue
    /\ Len(q.original) = Len(q.paths)
    /\ q.index < Length(q) \/ Length(q) = 0

LEMMA LengthType ==
  ASSUME NEW q \in Queue
  PROVE  Length(q) \in Nat /\ DOMAIN q.paths = 1 .. Length(q)
BY DEF Queue, Length

\* What an entry is, and what comes before and behind the queue.
LEMMA NormalizeIs ==
  ASSUME NEW q \in Queue, NEW i \in Int, NEW wraps \in BOOLEAN
  PROVE  /\ i \in 0 .. Length(q) - 1 => Normalize(q, i, wraps) = i
         /\ Normalize(q, i, wraps) \in -1 .. Length(q) - 1
         /\ i \notin 0 .. Length(q) - 1 /\ (~wraps \/ q.repeat # "all")
               => Normalize(q, i, wraps) = -1
         /\ wraps /\ q.repeat = "all" /\ Length(q) > 0
               => Normalize(q, i, wraps) = i % Length(q)
<1>1. Length(q) \in Nat
  BY LengthType
<1>2. ASSUME Length(q) > 0 PROVE i % Length(q) \in 0 .. Length(q) - 1
  BY <1>1, <1>2
<1>3. ASSUME i \in 0 .. Length(q) - 1 PROVE i % Length(q) = i
  BY <1>1, <1>3
<1> QED BY <1>1, <1>2, <1>3 DEF Normalize

\* An entry that is there is a track.
LEMMA PeekIs ==
  ASSUME NEW q \in Queue, NEW k \in Int
  PROVE  /\ Normalize(q, q.index + k, TRUE) = -1 => Peek(q, k) = None
         /\ Normalize(q, q.index + k, TRUE) # -1
               => /\ Peek(q, k) = At(q, Normalize(q, q.index + k, TRUE))
                  /\ Peek(q, k) \in Tracks
         /\ Peek(q, k) # None <=> Normalize(q, q.index + k, TRUE) # -1
         /\ Peek(q, k) \in Tracks \cup {None}
<1>1. q.index + k \in Int
  BY DEF Queue
<1> DEFINE i == Normalize(q, q.index + k, TRUE)
<1>2. i \in -1 .. Length(q) - 1
  BY <1>1, NormalizeIs
<1>3. Length(q) \in Nat
  BY LengthType
<1>4. Peek(q, k) = IF i = -1 THEN None ELSE At(q, i)
  BY DEF Peek
<1> HIDE DEF i
<1>5. ASSUME i # -1 PROVE At(q, i) \in Tracks
  <2>1. i + 1 \in 1 .. Len(q.paths)
    BY <1>2, <1>3, <1>5 DEF Length
  <2> QED BY <2>1 DEF At, Queue
<1>6. i # -1 => Peek(q, k) # None
  BY <1>4, <1>5, NoneAssumption
<1> QED BY <1>4, <1>5, <1>6 DEF i

LEMMA NextIndexIs ==
  ASSUME NEW q, Sane(q), NEW k \in Int, NextIndex(q, k) # -1
  PROVE  Sane(GoTo(q, NextIndex(q, k)))
<1>1. q \in Queue /\ q.index + k \in Int /\ q.index \in Nat
  BY DEF Queue, Sane
<1>2. Length(q) \in Nat
  BY <1>1, LengthType
<1> DEFINE i == NextIndex(q, k)
<1>3. i \in Nat /\ (i < Length(q) \/ Length(q) = 0)
  <2>1. Normalize(q, q.index + k, TRUE) \in -1 .. Length(q) - 1
    BY <1>1, NormalizeIs
  <2>2. i = q.index \/ i = Normalize(q, q.index + k, TRUE)
    BY DEF NextIndex
  <2>3. i # -1
    OBVIOUS
  <2> HIDE DEF i
  <2>4. ASSUME i = q.index PROVE i \in Nat /\ (i < Length(q) \/ Length(q) = 0)
    BY <1>1, <2>4 DEF Sane
  <2>5. ASSUME i = Normalize(q, q.index + k, TRUE)
        PROVE  i \in Nat /\ (i < Length(q) \/ Length(q) = 0)
    <3>1. i \in -1 .. Length(q) - 1
      BY <2>1, <2>5
    <3> QED BY <1>2, <2>3, <3>1
  <2> QED BY <2>2, <2>4, <2>5
<1> HIDE DEF i
<1>4. GoTo(q, i) \in Queue /\ GoTo(q, i).paths = q.paths
      /\ GoTo(q, i).original = q.original /\ GoTo(q, i).index = i
  BY <1>1, <1>3 DEF GoTo, Queue
<1>5. Sane(GoTo(q, i))
  BY <1>3, <1>4 DEF Sane, Length
<1> QED BY <1>5 DEF i

\* A removed entry.
LEMMA WithoutIs ==
  ASSUME NEW S, NEW s \in Seq(S), NEW i \in 1 .. Len(s)
  PROVE  /\ Without(s, i) \in Seq(S)
         /\ Len(Without(s, i)) = Len(s) - 1
         /\ \A k \in 1 .. Len(s) - 1 :
               Without(s, i)[k] = IF k < i THEN s[k] ELSE s[k + 1]
<1>1. Len(s) \in Nat /\ Len(s) - 1 \in Nat
  OBVIOUS
<1>2. \A k \in 1 .. Len(s) - 1 : (IF k < i THEN s[k] ELSE s[k + 1]) \in S
  BY <1>1
<1>3. Without(s, i) = [k \in 1 .. Len(s) - 1 |-> IF k < i THEN s[k] ELSE s[k + 1]]
  BY DEF Without
<1> QED BY <1>1, <1>2, <1>3

\* playlist_skip_entry: the queue after it, entry by entry.
LEMMA SkipEntryIs ==
  ASSUME NEW q, Sane(q), NEW k \in Int
  PROVE  LET i == q.index + k
             r == SkipEntry(q, k)
         IN  /\ Sane(r) /\ r.repeat = q.repeat /\ r.shuffle = q.shuffle
             /\ i \notin 0 .. Length(q) - 1 => r = q
             /\ i \in 0 .. Length(q) - 1 =>
                   /\ Length(r) = Length(q) - 1
                   /\ \A j \in 0 .. Length(q) - 2 :
                         At(r, j) = At(q, IF j < i THEN j ELSE j + 1)
                   /\ q.index <= Length(q) - 2 => r.index = q.index
                   /\ q.index > Length(q) - 2 /\ Length(q) > 1
                         => r.index = Length(q) - 2
<1> DEFINE i == q.index + k
           r == SkipEntry(q, k)
           n == Length(q)
           last == n - 2
           where == IF last < 0 THEN 0 ELSE IF q.index > last THEN last ELSE q.index
<1>1. q \in Queue /\ i \in Int /\ q.index \in Nat /\ n \in Nat
      /\ Len(q.original) = n /\ Len(q.paths) = n
  BY LengthType DEF Queue, Sane, Length
<1> HIDE DEF i
<1>2. CASE i \notin 0 .. n - 1
  <2>1. Normalize(q, i, FALSE) = -1
    BY <1>1, <1>2, NormalizeIs
  <2>2. r = q
    BY <2>1 DEF SkipEntry, i
  <2> QED BY <1>2, <2>2 DEF i
<1>3. CASE i \in 0 .. n - 1
  <2> DEFINE paths == Without(q.paths, i + 1)
             original == Without(q.original, i + 1)
  <2>1. Normalize(q, i, FALSE) = i
    BY <1>1, <1>3, NormalizeIs
  <2>0. i # -1
    BY <1>1, <1>3
  <2>2. r = [q EXCEPT !.paths = paths, !.original = original, !.index = where]
    BY <2>0, <2>1 DEF SkipEntry, i
  <2>3. i + 1 \in 1 .. n /\ q.paths \in Seq(Tracks) /\ q.original \in Seq(Tracks)
    BY <1>1, <1>3 DEF Queue
  <2>4. /\ paths \in Seq(Tracks) /\ Len(paths) = n - 1
        /\ original \in Seq(Tracks) /\ Len(original) = n - 1
        /\ \A j \in 1 .. n - 1 :
              paths[j] = IF j < i + 1 THEN q.paths[j] ELSE q.paths[j + 1]
    <3> DEFINE p == q.paths
               o == q.original
    <3>1. p \in Seq(Tracks) /\ i + 1 \in 1 .. Len(p) /\ Len(p) = n
      BY <1>1, <2>3
    <3>2. o \in Seq(Tracks) /\ i + 1 \in 1 .. Len(o) /\ Len(o) = n
      BY <1>1, <2>3
    <3> HIDE DEF p, o, n
    <3>3. /\ Without(p, i + 1) \in Seq(Tracks) /\ Len(Without(p, i + 1)) = n - 1
          /\ \A j \in 1 .. n - 1 :
                Without(p, i + 1)[j] = IF j < i + 1 THEN p[j] ELSE p[j + 1]
      BY <3>1, WithoutIs
    <3>4. Without(o, i + 1) \in Seq(Tracks) /\ Len(Without(o, i + 1)) = n - 1
      BY <3>2, WithoutIs
    <3> QED BY <3>3, <3>4 DEF p, o
  <2>5. where \in Nat /\ (where < n - 1 \/ n - 1 = 0)
    BY <1>1, <1>3 DEF Sane
  <2> HIDE DEF paths, original, where, r
  <2>6. /\ r \in Queue /\ r.paths = paths /\ r.original = original
        /\ r.index = where /\ r.repeat = q.repeat /\ r.shuffle = q.shuffle
    BY <1>1, <2>2, <2>4, <2>5 DEF Queue
  <2>7. Length(r) = n - 1 /\ Sane(r)
    BY <2>4, <2>5, <2>6 DEF Sane, Length
  <2>8. ASSUME NEW j \in 0 .. n - 2
        PROVE  At(r, j) = At(q, IF j < i THEN j ELSE j + 1)
    <3>1. j + 1 \in 1 .. n - 1 /\ j \in Int
      BY <1>1
    <3>2. paths[j + 1] = IF j + 1 < i + 1 THEN q.paths[j + 1] ELSE q.paths[j + 1 + 1]
      BY <2>4, <3>1
    <3>3. j + 1 < i + 1 <=> j < i
      BY <1>1, <3>1
    <3> QED BY <2>6, <3>2, <3>3 DEF At
  <2>9. /\ q.index <= n - 2 => where = q.index
        /\ q.index > n - 2 /\ n > 1 => where = n - 2
    BY <1>1 DEF where
  <2> QED BY <1>3, <2>6, <2>7, <2>8, <2>9 DEF r, i
<1> QED BY <1>2, <1>3

\* A track that is looked up by its path.
LEMMA FoundType ==
  ASSUME NEW paths \in Seq(Tracks), NEW track, NEW default \in 0 .. Len(paths) - 1
  PROVE  Found(paths, track, default) \in 0 .. Len(paths) - 1
<1> DEFINE at == {k \in 1 .. Len(paths) : paths[k] = track}
<1>1. CASE at = {}
  BY <1>1 DEF Found
<1>2. CASE at # {}
  <2>1. at \in SUBSET Nat
    OBVIOUS
  <2>2. \E k \in at : \A j \in at : k <= j
    BY <1>2, <2>1, Least
  <2> DEFINE first == CHOOSE k \in at : \A j \in at : k <= j
  <2>3. first \in at
    BY <2>2
  <2>4. Found(paths, track, default) = first - 1
    BY <1>2 DEF Found
  <2> HIDE DEF first
  <2>5. first \in 1 .. Len(paths)
    BY <2>3
  <2> QED BY <2>4, <2>5
<1> QED BY <1>1, <1>2

\* Shuffling and its end leave a position of the queue.
LEMMA SetShuffleSane ==
  ASSUME NEW q, Sane(q), NEW on \in BOOLEAN, NEW perm \in Orders(Length(q))
  PROVE  /\ Sane(SetShuffle(q, on, perm))
         /\ Length(SetShuffle(q, on, perm)) = Length(q)
         /\ SetShuffle(q, on, perm).repeat = q.repeat
<1> DEFINE n == Length(q)
           mixed == Arranged(q, on, perm)
           r == SetShuffle(q, on, perm)
<1>1. q \in Queue /\ q.index \in Nat /\ n \in Nat
      /\ Len(q.original) = n /\ Len(q.paths) = n
  BY LengthType DEF Queue, Sane, Length
<1>2. CASE n = 0
  <2>1. r = [q EXCEPT !.shuffle = on]
    BY <1>2 DEF SetShuffle
  <2> HIDE DEF r
  <2>2. r \in Queue /\ r.paths = q.paths /\ r.original = q.original
        /\ r.index = q.index /\ r.repeat = q.repeat
    BY <1>1, <2>1 DEF Queue
  <2>3. Sane(r) /\ Length(r) = n
    BY <2>2 DEF Sane, Length
  <2> QED BY <2>2, <2>3 DEF r
<1>3. CASE n # 0
  <2>1. mixed \in Seq(Tracks) /\ Len(mixed) = n
    <3>1. q.paths \in Seq(Tracks) /\ q.original \in Seq(Tracks)
      BY <1>1 DEF Queue
    <3>2. perm \in [1 .. n -> 1 .. n]
      BY DEF Orders
    <3>3. \A k \in 1 .. n : q.paths[perm[k]] \in Tracks
      BY <1>1, <3>1, <3>2
    <3>4. mixed = IF on THEN [k \in 1 .. n |-> q.paths[perm[k]]] ELSE q.original
      BY DEF Arranged
    <3> HIDE DEF n, mixed
    <3>5. CASE on
      BY <1>1, <3>3, <3>4, <3>5
    <3> QED BY <1>1, <3>1, <3>4, <3>5
  <2> DEFINE where == Found(mixed, At(q, q.index), q.index)
  <2>2. q.index \in 0 .. Len(mixed) - 1
    BY <1>1, <1>3, <2>1 DEF Sane
  <2>3. where \in 0 .. n - 1
    BY <2>1, <2>2, FoundType
  <2>7. where \in Nat /\ q.original \in Seq(Tracks)
    BY <1>1, <2>3 DEF Queue
  <2>4. r = [q EXCEPT !.paths = mixed, !.index = where, !.shuffle = on]
    BY <1>3 DEF SetShuffle
  <2> HIDE DEF where, mixed, r
  <2>5. r \in Queue /\ r.paths = mixed /\ r.original = q.original
        /\ r.index = where /\ r.repeat = q.repeat
    <3>1. q \in Queue /\ mixed \in Seq(Tracks)
      BY <1>1, <2>1
    <3> QED BY <2>7, <2>4, <3>1 DEF Queue
  <2>6. Sane(r) /\ Length(r) = n
    BY <1>1, <2>1, <2>3, <2>5 DEF Sane, Length
  <2> QED BY <2>5, <2>6 DEF r
<1> QED BY <1>2, <1>3

\* queue_replace begins with an entry of the new queue.
LEMMA ReplaceSane ==
  ASSUME NEW q \in Queue, NEW paths \in Seq(Tracks), paths # <<>>,
         NEW start \in 0 .. Len(paths) - 1, NEW perm \in Orders(Len(paths))
  PROVE  /\ Sane(Replace(q, paths, start, perm))
         /\ Length(Replace(q, paths, start, perm)) = Len(paths)
         /\ Replace(q, paths, start, perm).repeat = q.repeat
<1> DEFINE fresh == [q EXCEPT !.paths = paths, !.original = paths, !.index = 0]
           mixed == IF q.shuffle THEN SetShuffle(fresh, TRUE, perm) ELSE fresh
           where == IF q.shuffle THEN Found(mixed.paths, paths[start + 1], start)
                    ELSE start
           r == Replace(q, paths, start, perm)
<1>1. Len(paths) \in Nat /\ Len(paths) > 0
  OBVIOUS
<1>2. fresh \in Queue /\ fresh.paths = paths /\ fresh.original = paths
      /\ fresh.index = 0 /\ fresh.repeat = q.repeat
  BY DEF Queue
<1> HIDE DEF fresh
<1>3. Sane(fresh) /\ Length(fresh) = Len(paths)
  BY <1>1, <1>2 DEF Sane, Length
<1>4. Sane(mixed) /\ Length(mixed) = Len(paths) /\ mixed.repeat = q.repeat
  BY <1>2, <1>3, SetShuffleSane
<1> HIDE DEF mixed
<1>5. mixed.paths \in Seq(Tracks) /\ Len(mixed.paths) = Len(paths)
      /\ Len(mixed.original) = Len(paths) /\ mixed \in Queue
  BY <1>4 DEF Sane, Queue, Length
<1>6. Found(mixed.paths, paths[start + 1], start) \in 0 .. Len(paths) - 1
  BY <1>5, FoundType
<1>7. where \in 0 .. Len(paths) - 1
  BY <1>6
<1>8. r = [mixed EXCEPT !.index = where]
  BY DEF Replace, mixed, fresh
<1>11. where \in Nat
  BY <1>7
<1> HIDE DEF where, r
<1>9. r \in Queue /\ r.paths = mixed.paths /\ r.original = mixed.original
      /\ r.index = where /\ r.repeat = mixed.repeat
  <2>1. mixed \in Queue
    BY <1>5
  <2> QED BY <1>8, <1>11, <2>1 DEF Queue
<1>10. Sane(r) /\ Length(r) = Len(paths)
  BY <1>1, <1>5, <1>7, <1>9 DEF Sane, Length
<1> QED BY <1>4, <1>9, <1>10 DEF r

\* So does the shuffled replacement.
LEMMA ReplaceShuffledSane ==
  ASSUME NEW q \in Queue, NEW paths \in Seq(Tracks), paths # <<>>,
         NEW perm \in Orders(Len(paths))
  PROVE  /\ Sane(ReplaceShuffled(q, paths, perm))
         /\ Length(ReplaceShuffled(q, paths, perm)) = Len(paths)
         /\ ReplaceShuffled(q, paths, perm).repeat = q.repeat
<1> DEFINE fresh == [q EXCEPT !.paths = paths, !.original = paths, !.index = 0]
           mixed == SetShuffle(fresh, TRUE, perm)
           r == ReplaceShuffled(q, paths, perm)
<1>1. Len(paths) \in Nat /\ Len(paths) > 0
  OBVIOUS
<1>2. fresh \in Queue /\ fresh.paths = paths /\ fresh.original = paths
      /\ fresh.index = 0 /\ fresh.repeat = q.repeat
  BY DEF Queue
<1> HIDE DEF fresh
<1>3. Sane(fresh) /\ Length(fresh) = Len(paths)
  BY <1>1, <1>2 DEF Sane, Length
<1>4. Sane(mixed) /\ Length(mixed) = Len(paths) /\ mixed.repeat = q.repeat
  BY <1>2, <1>3, SetShuffleSane
<1>5. r = [mixed EXCEPT !.index = 0]
  BY DEF ReplaceShuffled, fresh
<1> HIDE DEF mixed, r
<1>6. mixed \in Queue /\ 0 \in Nat
  BY <1>4 DEF Sane
<1>7. r \in Queue /\ r.paths = mixed.paths /\ r.original = mixed.original
      /\ r.index = 0 /\ r.repeat = mixed.repeat
  BY <1>5, <1>6 DEF Queue
<1>8. Sane(r) /\ Length(r) = Len(paths)
  BY <1>1, <1>4, <1>7 DEF Sane, Length
<1> QED BY <1>4, <1>7, <1>8 DEF r

-----------------------------------------------------------------------------
(* Looking ahead.                                                          *)

\* Without wrapping, what is ahead is what stands there.
LEMMA PeekOff ==
  ASSUME NEW q \in Queue, q.repeat # "all", NEW k \in Int
  PROVE  /\ q.index + k \in 0 .. Length(q) - 1 => Peek(q, k) = At(q, q.index + k)
         /\ q.index + k \notin 0 .. Length(q) - 1 => Peek(q, k) = None
<1> DEFINE i == q.index + k
<1>1. i \in Int /\ Length(q) \in Nat
  BY LengthType DEF Queue
<1>2. Peek(q, k) = IF Normalize(q, i, TRUE) = -1 THEN None
                   ELSE At(q, Normalize(q, i, TRUE))
  BY DEF Peek
<1> HIDE DEF i
<1>5. i \in 0 .. Length(q) - 1 => Normalize(q, i, TRUE) = i
  BY <1>1, NormalizeIs
<1>6. i \in 0 .. Length(q) - 1 => i # -1
  BY <1>1
<1>3. i \in 0 .. Length(q) - 1 => Normalize(q, i, TRUE) = i /\ i # -1
  BY <1>5, <1>6
<1>4. i \notin 0 .. Length(q) - 1 => Normalize(q, i, TRUE) = -1
  BY <1>1, NormalizeIs
<1> QED BY <1>2, <1>3, <1>4 DEF i

\* With wrapping, what is ahead is found by the remainder.
LEMMA PeekAll ==
  ASSUME NEW q \in Queue, q.repeat = "all", Length(q) > 0, NEW k \in Int
  PROVE  /\ Normalize(q, q.index + k, TRUE) = (q.index + k) % Length(q)
         /\ Peek(q, k) = At(q, (q.index + k) % Length(q))
<1> DEFINE i == q.index + k
<1>1. i \in Int /\ Length(q) \in Nat
  BY LengthType DEF Queue
<1>2. Peek(q, k) = IF Normalize(q, i, TRUE) = -1 THEN None
                   ELSE At(q, Normalize(q, i, TRUE))
  BY DEF Peek
<1> HIDE DEF i
<1>3. Normalize(q, i, TRUE) = i % Length(q)
  BY <1>1, NormalizeIs
<1>4. i % Length(q) # -1
  BY <1>1
<1> QED BY <1>2, <1>3, <1>4 DEF i

\* Remainders one after the other.
LEMMA RemainderOfSum ==
  ASSUME NEW n \in Int, n > 0, NEW a \in Int, NEW b \in Int
  PROVE  ((a % n) + b) % n = (a + b) % n
BY SMT

Plain == {"off", "all"}

\* The position is an entry, and only an empty queue has none.
LEMMA PeekHere ==
  ASSUME NEW q, Sane(q)
  PROVE  /\ Length(q) > 0 => Peek(q, 0) = At(q, q.index) /\ Peek(q, 0) \in Tracks
         /\ Length(q) = 0 => Peek(q, 0) = None
<1>1. q \in Queue /\ q.index \in Nat /\ q.index + 0 = q.index /\ q.index \in Int
  BY DEF Sane, Queue
<1>2. Length(q) \in Nat
  BY <1>1, LengthType
<1>3. ASSUME Length(q) > 0
      PROVE  Normalize(q, q.index, TRUE) = q.index /\ q.index # -1
  <2>1. q.index \in 0 .. Length(q) - 1
    BY <1>1, <1>2, <1>3 DEF Sane
  <2>2. Normalize(q, q.index, TRUE) = q.index
    BY <1>1, <2>1, NormalizeIs
  <2>3. q.index # -1
    BY <1>1
  <2> QED BY <2>2, <2>3
<1>4. ASSUME Length(q) = 0 PROVE Normalize(q, q.index, TRUE) = -1
  <2> DEFINE v == Normalize(q, q.index, TRUE)
  <2>1. v \in -1 .. Length(q) - 1
    BY <1>1, NormalizeIs
  <2> HIDE DEF v
  <2>2. v = -1
    BY <1>4, <2>1
  <2> QED BY <2>2 DEF v
<1>6. /\ Normalize(q, q.index, TRUE) = -1 => Peek(q, 0) = None
      /\ Normalize(q, q.index, TRUE) # -1
               => /\ Peek(q, 0) = At(q, Normalize(q, q.index, TRUE))
                  /\ Peek(q, 0) \in Tracks
  <2> DEFINE x == q.index + 0
  <2>1. /\ Normalize(q, x, TRUE) = -1 => Peek(q, 0) = None
        /\ Normalize(q, x, TRUE) # -1
               => /\ Peek(q, 0) = At(q, Normalize(q, x, TRUE))
                  /\ Peek(q, 0) \in Tracks
    <3>1. 0 \in Int
      OBVIOUS
    <3> QED BY <1>1, <3>1, PeekIs
  <2>2. x = q.index
    BY <1>1
  <2> HIDE DEF x
  <2> QED BY <2>1, <2>2
<1> QED BY <1>3, <1>4, <1>6

\* Where there is no entry there is none behind it.
LEMMA Beyond ==
  ASSUME NEW q, Sane(q), q.repeat \in Plain, NEW k \in Nat, NEW j \in Nat,
         k <= j, Peek(q, k) = None
  PROVE  Peek(q, j) = None
<1>1. q \in Queue /\ q.index \in Nat /\ Length(q) \in Nat /\ k \in Int /\ j \in Int
  BY LengthType DEF Sane, Queue
<1>2. CASE q.repeat = "off"
  <2>1. q.index + k \in 0 .. Length(q) - 1 => At(q, q.index + k) = None
    BY <1>1, <1>2, PeekOff
  <2>2. q.index + k \in 0 .. Length(q) - 1 => At(q, q.index + k) \in Tracks
    <3>1. q.index + k \in 0 .. Length(q) - 1 => q.index + k + 1 \in 1 .. Len(q.paths)
      BY <1>1 DEF Length
    <3> QED BY <1>1, <3>1 DEF At, Queue
  <2>3. q.index + k \notin 0 .. Length(q) - 1
    BY <2>1, <2>2, NoneAssumption
  <2>4. q.index + j \notin 0 .. Length(q) - 1
    BY <1>1, <2>3
  <2> QED BY <1>1, <1>2, <2>4, PeekOff
<1>3. CASE q.repeat = "all"
  <2>1. Length(q) > 0 => Normalize(q, q.index + k, TRUE) = (q.index + k) % Length(q)
    BY <1>1, <1>3, PeekAll
  <2>2. Length(q) > 0 => (q.index + k) % Length(q) # -1
    BY <1>1
  <2>3. Normalize(q, q.index + k, TRUE) = -1
    BY <1>1, PeekIs
  <2>4. ~(Length(q) > 0)
    BY <2>1, <2>2, <2>3
  <2>5. q.index + j \in Int /\ Length(q) = 0
    BY <1>1, <2>4
  <2> DEFINE v == Normalize(q, q.index + j, TRUE)
  <2>6. v \in -1 .. Length(q) - 1
    BY <1>1, <2>5, NormalizeIs
  <2> HIDE DEF v
  <2>7. v = -1
    BY <2>5, <2>6
  <2>8. Normalize(q, q.index + j, TRUE) = -1
    BY <2>7 DEF v
  <2> QED BY <1>1, <2>8, PeekIs
<1> QED BY <1>2, <1>3 DEF Plain

\* A position there is, and the entry there.
LEMMA NextIndexPeek ==
  ASSUME NEW q, Sane(q), q.repeat \in Plain, NEW k \in Int
  PROVE  NextIndex(q, k) = -1 <=> Peek(q, k) = None
<1>1. NextIndex(q, k) = Normalize(q, q.index + k, TRUE)
  BY DEF NextIndex, Plain
<1>2. q \in Queue
  BY DEF Sane
<1> QED BY <1>1, <1>2, PeekIs

\* What is ahead of a new position was ahead of the old one, further on.
LEMMA PeekShift ==
  ASSUME NEW q, Sane(q), q.repeat \in Plain, NEW k \in Int, NextIndex(q, k) # -1,
         NEW j \in Int
  PROVE  Peek(GoTo(q, NextIndex(q, k)), j) = Peek(q, k + j)
<1> DEFINE i == NextIndex(q, k)
           r == GoTo(q, i)
<1> SUFFICES Peek(r, j) = Peek(q, k + j)
  OBVIOUS
<1>1. q \in Queue /\ q.index \in Nat /\ Length(q) \in Nat /\ k + j \in Int
      /\ q.index + k \in Int /\ q.repeat # "one"
  BY LengthType DEF Sane, Queue, Plain
<1>2. i = Normalize(q, q.index + k, TRUE)
  BY <1>1 DEF NextIndex
<1>3. i \in 0 .. Length(q) - 1
  <2>1. Normalize(q, q.index + k, TRUE) \in -1 .. Length(q) - 1
    BY <1>1, NormalizeIs
  <2>2. i # -1
    OBVIOUS
  <2>3. i \in -1 .. Length(q) - 1
    BY <1>2, <2>1
  <2> HIDE DEF i
  <2> QED BY <1>1, <2>2, <2>3
<1> HIDE DEF i
<1>8. i \in Nat
  BY <1>1, <1>3
<1>4. r \in Queue /\ r.index = i /\ r.repeat = q.repeat /\ r.paths = q.paths
  BY <1>1, <1>8 DEF GoTo, Queue
<1>5. Length(r) = Length(q) /\ \A m : At(r, m) = At(q, m)
  BY <1>4 DEF Length, At
<1> HIDE DEF r
<1>6. CASE q.repeat = "off"
  <2>1. i = q.index + k
    <3>1. q.index + k \notin 0 .. Length(q) - 1 => i = -1
      BY <1>1, <1>2, <1>6, NormalizeIs
    <3>2. i # -1
      BY <1>3
    <3>3. q.index + k \in 0 .. Length(q) - 1
      BY <3>1, <3>2
    <3> QED BY <1>1, <1>2, <3>3, NormalizeIs
  <2> DEFINE u == i + j
             v == q.index + (k + j)
  <2>2. u = v
    BY <1>1, <2>1
  <2>3. /\ u \in 0 .. Length(q) - 1 => Peek(r, j) = At(q, u)
        /\ u \notin 0 .. Length(q) - 1 => Peek(r, j) = None
    BY <1>4, <1>5, <1>6, PeekOff
  <2>4. /\ v \in 0 .. Length(q) - 1 => Peek(q, k + j) = At(q, v)
        /\ v \notin 0 .. Length(q) - 1 => Peek(q, k + j) = None
    BY <1>1, <1>6, PeekOff
  <2> HIDE DEF u, v
  <2> QED BY <2>2, <2>3, <2>4
<1>7. CASE q.repeat = "all"
  <2>1. Length(q) > 0
    BY <1>1, <1>3
  <2>2. i = (q.index + k) % Length(q)
    BY <1>1, <1>2, <1>7, <2>1, PeekAll
  <2>3. Peek(r, j) = At(q, (i + j) % Length(q))
    BY <1>4, <1>5, <1>7, <2>1, PeekAll
  <2>4. Peek(q, k + j) = At(q, (q.index + (k + j)) % Length(q))
    BY <1>1, <1>7, <2>1, PeekAll
  <2> DEFINE a == q.index + k
             n == Length(q)
             u == i + j
             v == q.index + (k + j)
  <2>5. a \in Int /\ n \in Int /\ n > 0
    BY <1>1, <2>1
  <2>6. ((a % n) + j) % n = (a + j) % n
    <3> HIDE DEF a, n
    <3> QED BY <2>5, RemainderOfSum
  <2>7. a + j = v
    BY <1>1
  <2>8. u = (a % n) + j
    BY <2>2
  <2>9. u % n = v % n
    <3> HIDE DEF a, n, u, v
    <3> QED BY <2>6, <2>7, <2>8
  <2> QED BY <2>3, <2>4, <2>9
<1> QED BY <1>6, <1>7 DEF Plain

\* Without wrapping: an entry ahead is removed that is not the last, or that is
\* not the current one.
LEMMA SkipEntryPeek ==
  ASSUME NEW q, Sane(q), q.repeat = "off", NEW p \in Nat, Peek(q, p) # None,
         p > 0 \/ Peek(q, p + 1) # None
  PROVE  /\ Length(SkipEntry(q, p)) = Length(q) - 1
         /\ \A k \in Int : Peek(SkipEntry(q, p), k)
                             = IF k < p THEN Peek(q, k) ELSE Peek(q, k + 1)
<1> DEFINE r == SkipEntry(q, p)
           n == Length(q)
           x == q.index
<1>1. q \in Queue /\ x \in Nat /\ n \in Nat /\ p \in Int /\ q.repeat # "all"
      /\ p + 1 \in Int
  BY LengthType DEF Sane, Queue
<1>2. x + p \in 0 .. n - 1 /\ (p > 0 \/ x + (p + 1) \in 0 .. n - 1)
  BY <1>1, PeekOff
<1>3. x <= n - 2
  BY <1>1, <1>2
<1>4. /\ Sane(r) /\ r.repeat = q.repeat /\ Length(r) = n - 1 /\ r.index = x
      /\ \A j \in 0 .. n - 2 : At(r, j) = IF j < x + p THEN At(q, j) ELSE At(q, j + 1)
  BY <1>1, <1>2, <1>3, SkipEntryIs
<1>5. r \in Queue
  BY <1>4 DEF Sane
<1> HIDE DEF r, n, x
<1>6. ASSUME NEW k \in Int
      PROVE  Peek(r, k) = IF k < p THEN Peek(q, k) ELSE Peek(q, k + 1)
  <2>1. /\ x + k \in 0 .. n - 2 => Peek(r, k) = At(r, x + k)
        /\ x + k \notin 0 .. n - 2 => Peek(r, k) = None
    <3>1. (n - 1) - 1 = n - 2
      BY <1>1
    <3> QED BY <1>1, <1>4, <1>5, <3>1, PeekOff
  <2>2. /\ x + k \in 0 .. n - 1 => Peek(q, k) = At(q, x + k)
        /\ x + k \notin 0 .. n - 1 => Peek(q, k) = None
    BY <1>1, PeekOff DEF n, x
  <2>3. /\ x + (k + 1) \in 0 .. n - 1 => Peek(q, k + 1) = At(q, x + (k + 1))
        /\ x + (k + 1) \notin 0 .. n - 1 => Peek(q, k + 1) = None
    <3>1. k + 1 \in Int
      OBVIOUS
    <3> QED BY <1>1, <3>1, PeekOff DEF n, x
  <2>4. CASE k < p
    <3>1. x + k < x + p /\ (x + k \in 0 .. n - 2 <=> x + k \in 0 .. n - 1)
      BY <1>1, <1>2, <2>4
    <3> QED BY <1>4, <2>1, <2>2, <2>4, <3>1
  <2>5. CASE ~(k < p)
    <3>1. ~(x + k < x + p) /\ x + (k + 1) = (x + k) + 1
          /\ (x + k \in 0 .. n - 2 <=> x + (k + 1) \in 0 .. n - 1)
      BY <1>1, <1>2, <2>5
    <3> QED BY <1>4, <2>1, <2>3, <2>5, <3>1
  <2> QED BY <2>4, <2>5
<1> QED BY <1>4, <1>6 DEF r, n

-----------------------------------------------------------------------------
(* The inbox.                                                              *)

In(s, m) == \E i \in DOMAIN s : s[i] = m

\* There are no two such messages.
Once(s, m) == \A i, j \in DOMAIN s : s[i] = m /\ s[j] = m => i = j

\* Of some places of a list, exactly one has n of them up to itself.
LEMMA PlaceExists ==
  ASSUME NEW at, IsFiniteSet(at), at \subseteq Nat,
         NEW n \in 1 .. Cardinality(at)
  PROVE  \E k \in at : Cardinality({j \in at : j <= k}) = n
<1> DEFINE Upto(k) == {j \in at : j <= k}
           Rank(k) == Cardinality(Upto(k))
           rank == [k \in at |-> Rank(k)]
           places == 1 .. Cardinality(at)
<1>1. Cardinality(at) \in Nat
  BY FS_CardinalityType
<1>2. ASSUME NEW k \in at
      PROVE  IsFiniteSet(Upto(k)) /\ Rank(k) \in places
  <2>1. Upto(k) \in SUBSET at
    OBVIOUS
  <2>2. IsFiniteSet(Upto(k)) /\ Rank(k) <= Cardinality(at)
    BY <2>1, FS_Subset
  <2>3. k \in Upto(k)
    OBVIOUS
  <2>4. Rank(k) # 0
    BY <2>2, <2>3, FS_EmptySet
  <2>5. Rank(k) \in Nat
    BY <2>2, FS_CardinalityType
  <2> HIDE DEF Rank
  <2> QED BY <1>1, <2>2, <2>4, <2>5
<1>3. ASSUME NEW k \in at, NEW l \in at, k < l
      PROVE  Rank(k) # Rank(l)
  <2>1. \A j \in at : j <= k => j <= l
    BY <1>3
  <2>2. Upto(k) \in SUBSET Upto(l)
    BY <2>1
  <2>3. l \in Upto(l) /\ ~ (l <= k)
    BY <1>3
  <2>4. Upto(k) # Upto(l)
    BY <2>3
  <2> QED BY <1>2, <2>2, <2>4, FS_Subset
<1> HIDE DEF Rank
<1>4. rank \in [at -> places]
  BY <1>2
<1>5. \A k, l \in at : rank[k] = rank[l] => k = l
  BY <1>3
<1> HIDE DEF rank, places
<1>6. rank \in Injection(at, places)
  BY <1>4, <1>5 DEF Injection, IsInjective
<1>7. IsFiniteSet(places) /\ Cardinality(places) = Cardinality(at)
  <2>1. IsFiniteSet(1 .. Cardinality(at))
        /\ Cardinality(1 .. Cardinality(at)) = Cardinality(at)
    BY <1>1, FS_Interval
  <2> QED BY <2>1 DEF places
<1>8. rank \in Surjection(at, places)
  BY <1>6, <1>7, FS_Injection
<1>9. n \in places
  BY DEF places
<1>10. \E k \in at : rank[k] = n
  BY <1>8, <1>9 DEF Surjection
<1> QED BY <1>10 DEF rank, Rank

\* A place of a list counts for a number up to how many there are.
LEMMA PlaceCounts ==
  ASSUME NEW at, IsFiniteSet(at), at \subseteq Nat, NEW k \in at
  PROVE  /\ Cardinality({j \in at : j <= k}) \in 1 .. Cardinality(at)
         /\ \A l \in at : Cardinality({j \in at : j <= k})
                            = Cardinality({j \in at : j <= l}) => l = k
<1> DEFINE Upto(l) == {j \in at : j <= l}
<1>1. \A l \in at : Upto(l) \in SUBSET at /\ l \in Upto(l)
  OBVIOUS
<1>2. \A l \in at : /\ IsFiniteSet(Upto(l))
                    /\ Cardinality(Upto(l)) <= Cardinality(at)
  BY <1>1, FS_Subset
<1>3. Cardinality(at) \in Nat /\ \A l \in at : Cardinality(Upto(l)) \in Nat
  BY <1>2, FS_CardinalityType
<1>4. \A l \in at : Cardinality(Upto(l)) # 0
  BY <1>1, <1>2, FS_EmptySet
<1>5. Cardinality(Upto(k)) \in 1 .. Cardinality(at)
  <2> HIDE DEF Upto
  <2> QED BY <1>2, <1>3, <1>4
<1>6. ASSUME NEW l \in at, NEW m \in at, l < m
      PROVE  Cardinality(Upto(l)) # Cardinality(Upto(m))
  <2>1. \A j \in at : j <= l => j <= m
    BY <1>6
  <2>2. Upto(l) \in SUBSET Upto(m)
    BY <2>1
  <2>3. Upto(l) # Upto(m)
    BY <1>6
  <2> QED BY <1>2, <2>2, <2>3, FS_Subset
<1>7. \A l \in at : Cardinality(Upto(k)) = Cardinality(Upto(l)) => l = k
  <2> HIDE DEF Upto
  <2>1. \A l \in at : l < k \/ k < l \/ l = k
    OBVIOUS
  <2> QED BY <1>6, <2>1
<1> QED BY <1>5, <1>7

\* One message is taken out, the others are still there.
LEMMA OthersAre ==
  ASSUME NEW s \in Seq(Messages), NEW m
  PROVE  /\ Others(s, m) \in Seq(Messages)
         /\ \A x : In(Others(s, m), x) <=> x # m /\ In(s, x)
         /\ \A x : Once(s, x) => Once(Others(s, m), x)
<1> DEFINE at == {k \in DOMAIN s : s[k] # m}
           Rank(k) == Cardinality({j \in at : j <= k})
           Place(n) == CHOOSE k \in at : Rank(k) = n
           N == Cardinality(at)
           r == Others(s, m)
<1>1. DOMAIN s = 1 .. Len(s) /\ Len(s) \in Nat
  OBVIOUS
<1>2. IsFiniteSet(1 .. Len(s))
  BY <1>1, FS_Interval
<1>3. at \in SUBSET (1 .. Len(s)) /\ at \subseteq Nat
  BY <1>1
<1>4. IsFiniteSet(at) /\ N \in Nat
  BY <1>2, <1>3, FS_Subset, FS_CardinalityType
<1>5. ASSUME NEW n \in 1 .. N PROVE Place(n) \in at /\ Rank(Place(n)) = n
  <2>1. \E k \in at : Rank(k) = n
    BY <1>3, <1>4, PlaceExists
  <2> HIDE DEF Rank, at
  <2> QED BY <2>1
<1>6. \A k \in at : Rank(k) \in 1 .. N
                    /\ \A l \in at : Rank(k) = Rank(l) => l = k
  BY <1>3, <1>4, PlaceCounts
<1>7. r = [n \in 1 .. N |-> s[Place(n)]]
  BY DEF Others
<1>8. \A k \in at : s[k] # m /\ s[k] \in Messages /\ k \in DOMAIN s
  OBVIOUS
<1>9. \A k \in DOMAIN s : s[k] # m => k \in at
  OBVIOUS
<1> HIDE DEF Place, Rank, N, r, at
<1>10. \A n \in 1 .. N : r[n] = s[Place(n)] /\ r[n] \in Messages
  BY <1>5, <1>7, <1>8
<1>11. r \in Seq(Messages) /\ DOMAIN r = 1 .. N
  BY <1>4, <1>7, <1>10
<1>12. ASSUME NEW x, In(r, x) PROVE x # m /\ In(s, x)
  <2>1. PICK n \in 1 .. N : r[n] = x
    BY <1>11, <1>12 DEF In
  <2> QED BY <1>5, <1>8, <1>10, <2>1 DEF In
<1>13. ASSUME NEW x, x # m, In(s, x) PROVE In(r, x)
  <2>1. PICK k \in DOMAIN s : s[k] = x
    BY <1>13 DEF In
  <2>2. k \in at
    BY <1>9, <1>13, <2>1
  <2>3. PICK n \in 1 .. N : n = Rank(k)
    BY <1>6, <2>2
  <2>4. Place(n) = k
    BY <1>5, <1>6, <2>2, <2>3
  <2> QED BY <1>10, <1>11, <2>1, <2>4 DEF In
<1>14. ASSUME NEW x, \A i, j \in DOMAIN s : s[i] = x /\ s[j] = x => i = j,
              NEW k \in 1 .. N, NEW l \in 1 .. N, r[k] = x, r[l] = x
       PROVE  k = l
  <2>1. Place(k) = Place(l)
    BY <1>5, <1>8, <1>10, <1>14
  <2> QED BY <1>5, <2>1
<1> QED BY <1>11, <1>12, <1>13, <1>14 DEF r, Once

\* One message is added at the end.
LEMMA PostIs ==
  ASSUME NEW s \in Seq(Messages), NEW m \in Messages
  PROVE  /\ Append(s, m) \in Seq(Messages)
         /\ \A x : In(Append(s, m), x) <=> x = m \/ In(s, x)
         /\ \A x : Once(s, x) /\ (m # x \/ ~In(s, x)) => Once(Append(s, m), x)
<1> DEFINE r == Append(s, m)
           n == Len(s)
<1>1. n \in Nat /\ DOMAIN s = 1 .. n /\ r \in Seq(Messages)
      /\ DOMAIN r = 1 .. n + 1 /\ r[n + 1] = m
      /\ \A k \in 1 .. n : r[k] = s[k]
  OBVIOUS
<1> HIDE DEF r, n
<1>2. \A k \in 1 .. n + 1 : k \in 1 .. n \/ k = n + 1
  BY <1>1
<1>3. 1 .. n \subseteq 1 .. n + 1 /\ n + 1 \in 1 .. n + 1
  BY <1>1
<1>4. \A x : In(r, x) <=> x = m \/ In(s, x)
  BY <1>1, <1>2, <1>3 DEF In
<1>5. ASSUME NEW x, \A i, j \in DOMAIN s : s[i] = x /\ s[j] = x => i = j,
             m # x \/ ~In(s, x),
             NEW k \in DOMAIN r, NEW l \in DOMAIN r, r[k] = x, r[l] = x
      PROVE  k = l
  BY <1>1, <1>2, <1>5 DEF In
<1> QED BY <1>1, <1>4, <1>5 DEF r, Once

\* The rest of a list: it holds what does not stand in front.
LEMMA RestIs ==
  ASSUME NEW s \in Seq(Messages), NEW f \in 1 .. Len(s) + 1
  PROVE  LET r == SubSeq(s, f, Len(s))
         IN  /\ r \in Seq(Messages)
             /\ \A x : In(r, x) => In(s, x)
             /\ \A x : In(s, x) /\ (\A i \in 1 .. f - 1 : s[i] # x) => In(r, x)
             /\ \A x : Once(s, x) =>
                   /\ Once(r, x)
                   /\ (\E i \in 1 .. f - 1 : s[i] = x) => ~In(r, x)
<1> DEFINE r == SubSeq(s, f, Len(s))
           n == Len(s)
<1>1. n \in Nat /\ DOMAIN s = 1 .. n /\ f \in Nat
  OBVIOUS
<1>2. /\ r \in Seq(Messages) /\ DOMAIN r = 1 .. n - f + 1
      /\ \A k \in 1 .. n - f + 1 : r[k] = s[f + k - 1]
  OBVIOUS
<1> HIDE DEF r, n
<1>3. \A k \in 1 .. n - f + 1 : f + k - 1 \in 1 .. n /\ f + k - 1 >= f
  BY <1>1
<1>4. \A i \in 1 .. n : i \in 1 .. f - 1
                        \/ (i - f + 1 \in 1 .. n - f + 1 /\ f + (i - f + 1) - 1 = i)
  BY <1>1
<1>5. ASSUME NEW x, In(r, x) PROVE In(s, x)
  BY <1>1, <1>2, <1>3, <1>5 DEF In
<1>6. ASSUME NEW x, In(s, x), \A i \in 1 .. f - 1 : s[i] # x PROVE In(r, x)
  <2>1. PICK i \in 1 .. n : s[i] = x
    BY <1>1, <1>6 DEF In
  <2>2. i - f + 1 \in 1 .. n - f + 1 /\ f + (i - f + 1) - 1 = i
    BY <1>4, <1>6, <2>1
  <2>3. r[i - f + 1] = x
    BY <1>2, <2>1, <2>2
  <2> QED BY <1>2, <2>2, <2>3 DEF In
<1>7. ASSUME NEW x, \A i, j \in DOMAIN s : s[i] = x /\ s[j] = x => i = j
      PROVE  /\ \A k, l \in DOMAIN r : r[k] = x /\ r[l] = x => k = l
             /\ (\E i \in 1 .. f - 1 : s[i] = x) => ~In(r, x)
  <2>1. ASSUME NEW k \in 1 .. n - f + 1, NEW l \in 1 .. n - f + 1,
               r[k] = x, r[l] = x
        PROVE  k = l
    <3>1. f + k - 1 = f + l - 1
      BY <1>1, <1>2, <1>3, <1>7, <2>1
    <3> QED BY <1>1, <3>1
  <2>2. ASSUME NEW i \in 1 .. f - 1, s[i] = x, In(r, x) PROVE FALSE
    <3>1. PICK k \in 1 .. n - f + 1 : r[k] = x
      BY <1>2, <2>2 DEF In
    <3>2. f + k - 1 \in 1 .. n /\ s[f + k - 1] = x /\ f + k - 1 >= f
      BY <1>2, <1>3, <3>1
    <3>3. i \in 1 .. n
      BY <1>1, <2>2
    <3>4. f + k - 1 = i
      BY <1>1, <1>7, <2>2, <3>2, <3>3
    <3> QED BY <1>1, <2>2, <3>2, <3>4
  <2> QED BY <1>2, <2>1, <2>2
<1> QED BY <1>2, <1>5, <1>6, <1>7 DEF r, n, Once

-----------------------------------------------------------------------------
(* Types.                                                                  *)

\* The engine's part of the type invariant, with what else a stopped engine is.
Fit(e) ==
    /\ e \in Engine
    /\ Sane(e.q)
    /\ e.cur <= Len(e.list) /\ (e.cur = 0 <=> e.list = <<>>)
    /\ e.loading # "no" => e.list # <<>>
    /\ e.status = "stopped" =>
          /\ e.list = <<>> /\ e.mark = "none" /\ ~e.late
          /\ e.skip = "none" /\ e.playing = None /\ e.codec = "idle"

LEMMA FitPost ==
  ASSUME NEW e, Fit(e), NEW m \in Messages
  PROVE  Fit(Post(e, m))
<1>1. e.inbox \in Seq(Messages)
  BY DEF Fit, Engine
<1>2. Append(e.inbox, m) \in Seq(Messages)
  BY <1>1, PostIs
<1>3. Post(e, m) = [e EXCEPT !.inbox = Append(e.inbox, m)]
  BY DEF Post
<1>4. Post(e, m) \in Engine
  BY <1>2, <1>3 DEF Fit, Engine
<1> QED BY <1>3, <1>4 DEF Fit, Engine

LEMMA FitDrop ==
  ASSUME NEW e, Fit(e), NEW m
  PROVE  Fit(Drop(e, m))
<1>1. e.inbox \in Seq(Messages)
  BY DEF Fit, Engine
<1>2. Others(e.inbox, m) \in Seq(Messages)
  BY <1>1, OthersAre
<1>3. Drop(e, m) = [e EXCEPT !.inbox = Others(e.inbox, m)]
  BY DEF Drop
<1>4. Drop(e, m) \in Engine
  BY <1>2, <1>3 DEF Fit, Engine
<1> QED BY <1>3, <1>4 DEF Fit, Engine

\* Another list.
WithList(e, list, cur) == [e EXCEPT !.list = list, !.cur = cur]

LEMMA FitList ==
  ASSUME NEW e, Fit(e), NEW list \in Seq(Tracks), NEW cur \in Nat,
         cur <= Len(list), cur = 0 <=> list = <<>>,
         e.loading = "no" \/ list # <<>>, e.status # "stopped" \/ list = <<>>
  PROVE  Fit(WithList(e, list, cur))
<1> DEFINE r == WithList(e, list, cur)
<1>1. r \in Engine
  BY DEF Fit, Engine, WithList
<1>2. /\ r.list = list /\ r.cur = cur /\ r.q = e.q /\ r.loading = e.loading
      /\ r.status = e.status /\ r.mark = e.mark /\ r.late = e.late
      /\ r.skip = e.skip /\ r.playing = e.playing /\ r.codec = e.codec
  BY DEF Fit, Engine, WithList
<1> HIDE DEF r
<1>3. Sane(r.q) /\ r.cur <= Len(r.list) /\ (r.cur = 0 <=> r.list = <<>>)
  BY <1>2 DEF Fit
<1>4. r.loading # "no" => r.list # <<>>
  BY <1>2
<1>5. r.status = "stopped" =>
          /\ r.list = <<>> /\ r.mark = "none" /\ ~r.late
          /\ r.skip = "none" /\ r.playing = None /\ r.codec = "idle"
  BY <1>2 DEF Fit
<1>6. Fit(r)
  BY <1>1, <1>3, <1>4, <1>5 DEF Fit
<1> QED BY <1>6 DEF r

LEMMA FitNoList ==
  ASSUME NEW e, Fit(e), e.loading = "no"
  PROVE  Fit(WithList(e, <<>>, 0))
<1> DEFINE none == <<>>
           r == WithList(e, none, 0)
<1>1. none \in Seq(Tracks) /\ Len(none) = 0 /\ (none = <<>>) = TRUE
  OBVIOUS
<1> HIDE DEF none
<1>2. r \in Engine
  BY <1>1 DEF Fit, Engine, WithList
<1>3. /\ r.list = none /\ r.cur = 0 /\ r.q = e.q /\ r.loading = e.loading
      /\ r.status = e.status /\ r.mark = e.mark /\ r.late = e.late
      /\ r.skip = e.skip /\ r.playing = e.playing /\ r.codec = e.codec
  BY DEF Fit, Engine, WithList
<1> HIDE DEF r
<1>4. Sane(r.q) /\ r.cur <= Len(r.list) /\ (r.cur = 0 <=> r.list = <<>>)
  BY <1>1, <1>3 DEF Fit
<1>5. r.status = "stopped" =>
          /\ r.list = <<>> /\ r.mark = "none" /\ ~r.late
          /\ r.skip = "none" /\ r.playing = None /\ r.codec = "idle"
  BY <1>1, <1>3 DEF Fit
<1>6. Fit(r)
  BY <1>2, <1>3, <1>4, <1>5 DEF Fit
<1> QED BY <1>6 DEF r, none

\* The metadata of an entry of the list.
LEMMA Id3Is ==
  ASSUME NEW e, Fit(e), NEW i \in 1 .. Len(e.list)
  PROVE  Id3(e, i) \in Tracks \cup {None}
<1>1. e.list[i] \in Tracks
  BY DEF Fit, Engine
<1> QED BY <1>1 DEF Id3

-----------------------------------------------------------------------------
(* What holds whatever the listener does.                                  *)

\* What the engine is built for: queues that play once or all over, no change of
\* the mode or the order while it runs, and neither seeks nor repeats with
\* broken files.
Calm == RoughSpots = {} /\ Modes \subseteq Plain

AllOk(f) == \A t \in Tracks : f[t] = "ok"

\* The message that the metadata of a track is there is sent once, and it is in
\* the inbox only while the track waits for it; a stopped engine has no report of
\* the codec.
Mailed(e) ==
    /\ Once(e.inbox, "finish")
    /\ In(e.inbox, "finish") => e.loading = "read" /\ e.filling # "full"
    /\ e.filling = "full" => e.loading # "reading"
    /\ e.status = "stopped" => ~In(e.inbox, "complete")

Tame(e, f) ==
    /\ AllOk(f) => Length(e.q) > 0 /\ ~e.hung
    /\ Calm => /\ e.q.repeat \in Plain
               /\ e.q.repeat = "all" => AllOk(f)
               /\ In(e.inbox, "seek") => AllOk(f)
               /\ ~e.hung

\* p: the engine does not run, or is about to be started anew.
Sound(e, p) ==
    /\ Fit(e) /\ Mailed(e) /\ Tame(e, file)
    /\ p => In(e.inbox, "play") \/ e.status = "stopped"

Fields == {"q", "inbox", "status", "list", "cur", "loading", "peek", "filling",
           "skip", "late", "codec", "mark", "playing", "skipBy", "stat", "hung"}

\* r and e differ in these fields at most.
Only(r, e, some) == \A f \in Fields \ some : r[f] = e[f]

WithQ(e, v) == [e EXCEPT !.q = v]
WithInbox(e, v) == [e EXCEPT !.inbox = v]
WithStatus(e, v) == [e EXCEPT !.status = v]
WithLoading(e, v) == [e EXCEPT !.loading = v]
WithPeek(e, v) == [e EXCEPT !.peek = v]
WithFilling(e, v) == [e EXCEPT !.filling = v]
WithSkip(e, v) == [e EXCEPT !.skip = v]
WithLate(e, v) == [e EXCEPT !.late = v]
WithCodec(e, v) == [e EXCEPT !.codec = v]
WithMark(e, v) == [e EXCEPT !.mark = v]
WithPlaying(e, v) == [e EXCEPT !.playing = v]
WithSkipBy(e, v) == [e EXCEPT !.skipBy = v]
WithStat(e, v) == [e EXCEPT !.stat = v]
WithCur(e, v) == [e EXCEPT !.cur = v]

\* What neither the messages nor the queue hang on.
Harmless == {"list", "cur", "peek", "skip", "late", "codec", "mark", "playing",
             "skipBy", "stat"}

LEMMA Mildly ==
  ASSUME NEW p \in BOOLEAN, NEW e, Sound(e, p), NEW r, Fit(r),
         NEW some \in SUBSET Harmless, Only(r, e, some)
  PROVE  Sound(r, p)
<1>1. /\ r.q = e.q /\ r.inbox = e.inbox /\ r.status = e.status
      /\ r.loading = e.loading /\ r.filling = e.filling /\ r.hung = e.hung
  BY DEF Only, Fields, Harmless
<1> QED BY <1>1 DEF Sound, Mailed, Tame

LEMMA QSet ==
  ASSUME NEW p \in BOOLEAN, NEW e, Sound(e, p), NEW v,
         Sane(v), v.repeat = e.q.repeat,
         AllOk(file) => Length(v) > 0
  PROVE  /\ Sound(WithQ(e, v), p) /\ WithQ(e, v).q = v
         /\ Only(WithQ(e, v), e, {"q"})
<1>1. Fit(WithQ(e, v))
  BY DEF WithQ, Sound, Fit, Engine, Sane
<1>2. WithQ(e, v).q = v
  BY DEF WithQ, Sound, Fit, Engine
<1>3. Only(WithQ(e, v), e, {"q"})
  BY DEF WithQ, Only, Fields, Sound, Fit, Engine
<1> DEFINE r == WithQ(e, v)
<1>5. r.inbox = e.inbox /\ r.status = e.status /\ r.loading = e.loading
      /\ r.filling = e.filling /\ r.hung = e.hung
  BY <1>3 DEF Only, Fields
<1>7. Fit(r) /\ r.q = v
  BY <1>1, <1>2
<1> HIDE DEF r
<1>6. Sound(r, p)
  BY <1>5, <1>7 DEF Sound, Mailed, Tame
<1> QED BY <1>2, <1>3, <1>6 DEF r

LEMMA InboxSet ==
  ASSUME NEW p \in BOOLEAN, NEW e, Sound(e, p), NEW v \in Seq(Messages),
         Mailed(WithInbox(e, v)),
         Tame(WithInbox(e, v), file), p => In(v, "play") \/ e.status = "stopped"
  PROVE  /\ Sound(WithInbox(e, v), p) /\ WithInbox(e, v).inbox = v
         /\ Only(WithInbox(e, v), e, {"inbox"})
<1>1. Fit(WithInbox(e, v))
  BY DEF WithInbox, Sound, Fit, Engine
<1>2. WithInbox(e, v).inbox = v
  BY DEF WithInbox, Sound, Fit, Engine
<1>3. Only(WithInbox(e, v), e, {"inbox"})
  BY DEF WithInbox, Only, Fields, Sound, Fit, Engine
<1> DEFINE r == WithInbox(e, v)
<1>5. r.q = e.q /\ r.status = e.status /\ r.loading = e.loading
      /\ r.filling = e.filling /\ r.hung = e.hung
  BY <1>3 DEF Only, Fields
<1>7. Fit(r) /\ r.inbox = v
  BY <1>1, <1>2
<1>8. Mailed(r) /\ Tame(r, file)
  OBVIOUS
<1> HIDE DEF r
<1>6. Sound(r, p)
  BY <1>5, <1>7, <1>8 DEF Sound
<1> QED BY <1>2, <1>3, <1>6 DEF r

LEMMA StatusSet ==
  ASSUME NEW p \in BOOLEAN, NEW e, Sound(e, p),
         NEW v \in {"playing", "paused"},
         e.status # "stopped" \/ ~p
  PROVE  /\ Sound(WithStatus(e, v), p) /\ WithStatus(e, v).status = v
         /\ Only(WithStatus(e, v), e, {"status"})
<1>1. Fit(WithStatus(e, v))
  BY DEF WithStatus, Sound, Fit, Engine
<1>2. WithStatus(e, v).status = v
  BY DEF WithStatus, Sound, Fit, Engine
<1>3. Only(WithStatus(e, v), e, {"status"})
  BY DEF WithStatus, Only, Fields, Sound, Fit, Engine
<1> DEFINE r == WithStatus(e, v)
<1>5. r.q = e.q /\ r.inbox = e.inbox /\ r.loading = e.loading
      /\ r.filling = e.filling /\ r.hung = e.hung
  BY <1>3 DEF Only, Fields
<1>7. Fit(r) /\ r.status = v
  BY <1>1, <1>2
<1> HIDE DEF r
<1>6. Sound(r, p)
  BY <1>5, <1>7 DEF Sound, Mailed, Tame
<1> QED BY <1>2, <1>3, <1>6 DEF r

LEMMA LoadingSet ==
  ASSUME NEW p \in BOOLEAN, NEW e, Sound(e, p),
         NEW v \in {"no", "reading", "read"},
         v = "no" \/ e.list # <<>>,
         v = "read" \/ ~In(e.inbox, "finish"), v # "reading" \/ e.filling # "full"
  PROVE  /\ Sound(WithLoading(e, v), p) /\ WithLoading(e, v).loading = v
         /\ Only(WithLoading(e, v), e, {"loading"})
<1>1. Fit(WithLoading(e, v))
  BY DEF WithLoading, Sound, Fit, Engine
<1>2. WithLoading(e, v).loading = v
  BY DEF WithLoading, Sound, Fit, Engine
<1>3. Only(WithLoading(e, v), e, {"loading"})
  BY DEF WithLoading, Only, Fields, Sound, Fit, Engine
<1> DEFINE r == WithLoading(e, v)
<1>5. r.q = e.q /\ r.inbox = e.inbox /\ r.status = e.status
      /\ r.filling = e.filling /\ r.hung = e.hung
  BY <1>3 DEF Only, Fields
<1>7. Fit(r) /\ r.loading = v
  BY <1>1, <1>2
<1> HIDE DEF r
<1>6. Sound(r, p)
  BY <1>5, <1>7 DEF Sound, Mailed, Tame
<1> QED BY <1>2, <1>3, <1>6 DEF r

LEMMA PeekSet ==
  ASSUME NEW p \in BOOLEAN, NEW e, Sound(e, p), NEW v \in Int
  PROVE  /\ Sound(WithPeek(e, v), p) /\ WithPeek(e, v).peek = v
         /\ Only(WithPeek(e, v), e, {"peek"})
<1>1. Fit(WithPeek(e, v))
  BY DEF WithPeek, Sound, Fit, Engine
<1>2. WithPeek(e, v).peek = v
  BY DEF WithPeek, Sound, Fit, Engine
<1>3. Only(WithPeek(e, v), e, {"peek"})
  BY DEF WithPeek, Only, Fields, Sound, Fit, Engine
<1>4. Sound(WithPeek(e, v), p)
  <2>1. {"peek"} \in SUBSET Harmless
    BY DEF Harmless
  <2> QED BY <1>1, <1>3, <2>1, Mildly
<1> QED BY <1>2, <1>3, <1>4

LEMMA FillingSet ==
  ASSUME NEW p \in BOOLEAN, NEW e, Sound(e, p),
         NEW v \in {"idle", "filling", "full", "end", "finished", "ending", "ended"},
         v # "full" \/ (~In(e.inbox, "finish") /\ e.loading # "reading")
  PROVE  /\ Sound(WithFilling(e, v), p) /\ WithFilling(e, v).filling = v
         /\ Only(WithFilling(e, v), e, {"filling"})
<1>1. Fit(WithFilling(e, v))
  BY DEF WithFilling, Sound, Fit, Engine
<1>2. WithFilling(e, v).filling = v
  BY DEF WithFilling, Sound, Fit, Engine
<1>3. Only(WithFilling(e, v), e, {"filling"})
  BY DEF WithFilling, Only, Fields, Sound, Fit, Engine
<1> DEFINE r == WithFilling(e, v)
<1>5. r.q = e.q /\ r.inbox = e.inbox /\ r.status = e.status
      /\ r.loading = e.loading /\ r.hung = e.hung
  BY <1>3 DEF Only, Fields
<1>7. Fit(r) /\ r.filling = v
  BY <1>1, <1>2
<1> HIDE DEF r
<1>6. Sound(r, p)
  BY <1>5, <1>7 DEF Sound, Mailed, Tame
<1> QED BY <1>2, <1>3, <1>6 DEF r

LEMMA SkipSet ==
  ASSUME NEW p \in BOOLEAN, NEW e, Sound(e, p),
         NEW v \in {"none", "auto", "newlist", "endlist"},
         v = "none" \/ e.status # "stopped"
  PROVE  /\ Sound(WithSkip(e, v), p) /\ WithSkip(e, v).skip = v
         /\ Only(WithSkip(e, v), e, {"skip"})
<1>1. Fit(WithSkip(e, v))
  BY DEF WithSkip, Sound, Fit, Engine
<1>2. WithSkip(e, v).skip = v
  BY DEF WithSkip, Sound, Fit, Engine
<1>3. Only(WithSkip(e, v), e, {"skip"})
  BY DEF WithSkip, Only, Fields, Sound, Fit, Engine
<1>4. Sound(WithSkip(e, v), p)
  <2>1. {"skip"} \in SUBSET Harmless
    BY DEF Harmless
  <2> QED BY <1>1, <1>3, <2>1, Mildly
<1> QED BY <1>2, <1>3, <1>4

LEMMA LateSet ==
  ASSUME NEW p \in BOOLEAN, NEW e, Sound(e, p), NEW v \in BOOLEAN,
         v = FALSE \/ e.status # "stopped"
  PROVE  /\ Sound(WithLate(e, v), p) /\ WithLate(e, v).late = v
         /\ Only(WithLate(e, v), e, {"late"})
<1>1. Fit(WithLate(e, v))
  BY DEF WithLate, Sound, Fit, Engine
<1>2. WithLate(e, v).late = v
  BY DEF WithLate, Sound, Fit, Engine
<1>3. Only(WithLate(e, v), e, {"late"})
  BY DEF WithLate, Only, Fields, Sound, Fit, Engine
<1>4. Sound(WithLate(e, v), p)
  <2>1. {"late"} \in SUBSET Harmless
    BY DEF Harmless
  <2> QED BY <1>1, <1>3, <2>1, Mildly
<1> QED BY <1>2, <1>3, <1>4

LEMMA CodecSet ==
  ASSUME NEW p \in BOOLEAN, NEW e, Sound(e, p),
         NEW v \in {"idle", "decoding"},
         v = "idle" \/ e.status # "stopped"
  PROVE  /\ Sound(WithCodec(e, v), p) /\ WithCodec(e, v).codec = v
         /\ Only(WithCodec(e, v), e, {"codec"})
<1>1. Fit(WithCodec(e, v))
  BY DEF WithCodec, Sound, Fit, Engine
<1>2. WithCodec(e, v).codec = v
  BY DEF WithCodec, Sound, Fit, Engine
<1>3. Only(WithCodec(e, v), e, {"codec"})
  BY DEF WithCodec, Only, Fields, Sound, Fit, Engine
<1>4. Sound(WithCodec(e, v), p)
  <2>1. {"codec"} \in SUBSET Harmless
    BY DEF Harmless
  <2> QED BY <1>1, <1>3, <2>1, Mildly
<1> QED BY <1>2, <1>3, <1>4

LEMMA MarkSet ==
  ASSUME NEW p \in BOOLEAN, NEW e, Sound(e, p),
         NEW v \in {"none", "buffered", "played"},
         v = "none" \/ e.status # "stopped"
  PROVE  /\ Sound(WithMark(e, v), p) /\ WithMark(e, v).mark = v
         /\ Only(WithMark(e, v), e, {"mark"})
<1>1. Fit(WithMark(e, v))
  BY DEF WithMark, Sound, Fit, Engine
<1>2. WithMark(e, v).mark = v
  BY DEF WithMark, Sound, Fit, Engine
<1>3. Only(WithMark(e, v), e, {"mark"})
  BY DEF WithMark, Only, Fields, Sound, Fit, Engine
<1>4. Sound(WithMark(e, v), p)
  <2>1. {"mark"} \in SUBSET Harmless
    BY DEF Harmless
  <2> QED BY <1>1, <1>3, <2>1, Mildly
<1> QED BY <1>2, <1>3, <1>4

LEMMA PlayingSet ==
  ASSUME NEW p \in BOOLEAN, NEW e, Sound(e, p), NEW v \in Tracks \cup {None},
         v = None \/ e.status # "stopped"
  PROVE  /\ Sound(WithPlaying(e, v), p) /\ WithPlaying(e, v).playing = v
         /\ Only(WithPlaying(e, v), e, {"playing"})
<1>1. Fit(WithPlaying(e, v))
  BY DEF WithPlaying, Sound, Fit, Engine
<1>2. WithPlaying(e, v).playing = v
  BY DEF WithPlaying, Sound, Fit, Engine
<1>3. Only(WithPlaying(e, v), e, {"playing"})
  BY DEF WithPlaying, Only, Fields, Sound, Fit, Engine
<1>4. Sound(WithPlaying(e, v), p)
  <2>1. {"playing"} \in SUBSET Harmless
    BY DEF Harmless
  <2> QED BY <1>1, <1>3, <2>1, Mildly
<1> QED BY <1>2, <1>3, <1>4

LEMMA SkipBySet ==
  ASSUME NEW p \in BOOLEAN, NEW e, Sound(e, p), NEW v \in Int
  PROVE  /\ Sound(WithSkipBy(e, v), p) /\ WithSkipBy(e, v).skipBy = v
         /\ Only(WithSkipBy(e, v), e, {"skipBy"})
<1>1. Fit(WithSkipBy(e, v))
  BY DEF WithSkipBy, Sound, Fit, Engine
<1>2. WithSkipBy(e, v).skipBy = v
  BY DEF WithSkipBy, Sound, Fit, Engine
<1>3. Only(WithSkipBy(e, v), e, {"skipBy"})
  BY DEF WithSkipBy, Only, Fields, Sound, Fit, Engine
<1>4. Sound(WithSkipBy(e, v), p)
  <2>1. {"skipBy"} \in SUBSET Harmless
    BY DEF Harmless
  <2> QED BY <1>1, <1>3, <2>1, Mildly
<1> QED BY <1>2, <1>3, <1>4

LEMMA StatSet ==
  ASSUME NEW p \in BOOLEAN, NEW e, Sound(e, p),
         NEW v \in {"ok", "ready", "busy", "failed", "nomore"}
  PROVE  /\ Sound(WithStat(e, v), p) /\ WithStat(e, v).stat = v
         /\ Only(WithStat(e, v), e, {"stat"})
<1>1. Fit(WithStat(e, v))
  BY DEF WithStat, Sound, Fit, Engine
<1>2. WithStat(e, v).stat = v
  BY DEF WithStat, Sound, Fit, Engine
<1>3. Only(WithStat(e, v), e, {"stat"})
  BY DEF WithStat, Only, Fields, Sound, Fit, Engine
<1>4. Sound(WithStat(e, v), p)
  <2>1. {"stat"} \in SUBSET Harmless
    BY DEF Harmless
  <2> QED BY <1>1, <1>3, <2>1, Mildly
<1> QED BY <1>2, <1>3, <1>4

LEMMA CurSet ==
  ASSUME NEW p \in BOOLEAN, NEW e, Sound(e, p), NEW v \in 1 .. Len(e.list)
  PROVE  /\ Sound(WithCur(e, v), p) /\ WithCur(e, v).cur = v
         /\ Only(WithCur(e, v), e, {"cur"})
<1>1. Fit(WithCur(e, v))
  BY DEF WithCur, Sound, Fit, Engine
<1>2. WithCur(e, v).cur = v
  BY DEF WithCur, Sound, Fit, Engine
<1>3. Only(WithCur(e, v), e, {"cur"})
  BY DEF WithCur, Only, Fields, Sound, Fit, Engine
<1>4. Sound(WithCur(e, v), p)
  <2>1. {"cur"} \in SUBSET Harmless
    BY DEF Harmless
  <2> QED BY <1>1, <1>3, <2>1, Mildly
<1> QED BY <1>2, <1>3, <1>4

-----------------------------------------------------------------------------
(* Messages and the list.                                                  *)

\* r and e have the same messages but for these.
Alike(r, e, some) ==
    \A m : m \notin some => /\ In(r.inbox, m) <=> In(e.inbox, m)
                            /\ Once(e.inbox, m) => Once(r.inbox, m)

\* What the operators on the inbox and the list leave alone.
LEMMA Keeps ==
  ASSUME NEW e, Fit(e)
  PROVE  /\ \A m : Only(Post(e, m), e, {"inbox"}) /\ Only(Drop(e, m), e, {"inbox"})
         /\ \A list, cur : Only(WithList(e, list, cur), e, {"list", "cur"})
         /\ \A list, cur : /\ WithList(e, list, cur).list = list
                          /\ WithList(e, list, cur).cur = cur
         /\ \A m : /\ Post(e, m).inbox = Append(e.inbox, m)
                  /\ Drop(e, m).inbox = Others(e.inbox, m)
<1>1. ASSUME NEW m
      PROVE  /\ Only(Post(e, m), e, {"inbox"}) /\ Only(Drop(e, m), e, {"inbox"})
             /\ Post(e, m).inbox = Append(e.inbox, m)
             /\ Drop(e, m).inbox = Others(e.inbox, m)
  BY DEF Post, Drop, Only, Fields, Fit, Engine
<1>2. ASSUME NEW list, NEW cur
      PROVE  /\ Only(WithList(e, list, cur), e, {"list", "cur"})
             /\ WithList(e, list, cur).list = list
             /\ WithList(e, list, cur).cur = cur
  BY DEF WithList, Only, Fields, Fit, Engine
<1> QED BY <1>1, <1>2

\* A message is posted.
LEMMA Posted ==
  ASSUME NEW p \in BOOLEAN, NEW e, Sound(e, p), NEW m \in Messages,
         m = "finish" => /\ ~In(e.inbox, "finish") /\ e.loading = "read"
                         /\ e.filling # "full",
         m = "complete" => e.status # "stopped",
         m = "seek" => AllOk(file) \/ ~Calm
  PROVE  /\ Sound(Post(e, m), p)
         /\ Only(Post(e, m), e, {"inbox"})
         /\ Alike(Post(e, m), e, {m}) /\ In(Post(e, m).inbox, m)
         /\ ~In(e.inbox, m) => Once(Post(e, m).inbox, m)
<1> DEFINE r == Post(e, m)
<1>1. Fit(e) /\ e.inbox \in Seq(Messages)
  BY DEF Sound, Fit, Engine
<1>2. Fit(r) /\ Only(r, e, {"inbox"}) /\ r.inbox = Append(e.inbox, m)
  BY <1>1, FitPost, Keeps
<1> HIDE DEF r
<1>3. /\ \A x : In(r.inbox, x) <=> x = m \/ In(e.inbox, x)
      /\ \A x : Once(e.inbox, x) /\ (m # x \/ ~In(e.inbox, x)) => Once(r.inbox, x)
  BY <1>1, <1>2, PostIs
<1>4. /\ r.q = e.q /\ r.status = e.status /\ r.loading = e.loading
      /\ r.filling = e.filling /\ r.hung = e.hung
  BY <1>2 DEF Only, Fields
<1>5. Mailed(r)
  BY <1>3, <1>4 DEF Sound, Mailed
<1>6. Tame(r, file)
  BY <1>3, <1>4 DEF Sound, Tame
<1>7. Sound(r, p)
  BY <1>2, <1>3, <1>4, <1>5, <1>6 DEF Sound
<1>8. ~In(e.inbox, m) => Once(e.inbox, m)
  BY DEF In, Once
<1> QED BY <1>2, <1>3, <1>7, <1>8 DEF r, Alike

\* A message is taken back.
LEMMA Dropped ==
  ASSUME NEW p \in BOOLEAN, NEW e, Sound(e, p), NEW m \in {"finish", "complete"}
  PROVE  /\ Sound(Drop(e, m), p)
         /\ Only(Drop(e, m), e, {"inbox"})
         /\ Alike(Drop(e, m), e, {m}) /\ ~In(Drop(e, m).inbox, m)
<1> DEFINE r == Drop(e, m)
<1>1. Fit(e) /\ e.inbox \in Seq(Messages)
  BY DEF Sound, Fit, Engine
<1>2. Fit(r) /\ Only(r, e, {"inbox"}) /\ r.inbox = Others(e.inbox, m)
  BY <1>1, FitDrop, Keeps
<1> HIDE DEF r
<1>3. /\ \A x : In(r.inbox, x) <=> x # m /\ In(e.inbox, x)
      /\ \A x : Once(e.inbox, x) => Once(r.inbox, x)
  BY <1>1, <1>2, OthersAre
<1>4. /\ r.q = e.q /\ r.status = e.status /\ r.loading = e.loading
      /\ r.filling = e.filling /\ r.hung = e.hung
  BY <1>2 DEF Only, Fields
<1>5. Mailed(r)
  BY <1>3, <1>4 DEF Sound, Mailed
<1>6. Tame(r, file)
  BY <1>3, <1>4 DEF Sound, Tame
<1>7. Sound(r, p)
  BY <1>2, <1>3, <1>4, <1>5, <1>6 DEF Sound
<1> QED BY <1>2, <1>3, <1>7 DEF r, Alike

\* A load is forgotten, with its message.
LEMMA Forgotten ==
  ASSUME NEW p \in BOOLEAN, NEW e, Sound(e, p)
  PROVE  /\ Sound(ForgetLoad(e), p)
         /\ Only(ForgetLoad(e), e, {"inbox", "loading"})
         /\ Alike(ForgetLoad(e), e, {"finish"})
         /\ ~In(ForgetLoad(e).inbox, "finish") /\ ForgetLoad(e).loading = "no"
<1> DEFINE d == Drop(e, "finish")
           r == WithLoading(d, "no")
<1>1. /\ Sound(d, p) /\ Only(d, e, {"inbox"}) /\ Alike(d, e, {"finish"})
      /\ ~In(d.inbox, "finish")
  BY Dropped
<1>2. ForgetLoad(e) = r
  BY DEF ForgetLoad, WithLoading
<1> HIDE DEF d
<1>3. Sound(r, p) /\ Only(r, d, {"loading"}) /\ r.loading = "no"
  BY <1>1, LoadingSet
<1> HIDE DEF r
<1>4. Only(r, e, {"inbox", "loading"}) /\ r.inbox = d.inbox
  BY <1>1, <1>3 DEF Only, Fields
<1>5. Alike(r, e, {"finish"})
  BY <1>1, <1>4 DEF Alike
<1> QED BY <1>1, <1>2, <1>3, <1>4, <1>5

\* Another list.
LEMMA ListSet ==
  ASSUME NEW p \in BOOLEAN, NEW e, Sound(e, p), NEW list \in Seq(Tracks),
         NEW cur \in Nat, cur <= Len(list), cur = 0 <=> list = <<>>,
         e.loading = "no" \/ list # <<>>, e.status # "stopped" \/ list = <<>>
  PROVE  /\ Sound(WithList(e, list, cur), p)
         /\ WithList(e, list, cur).list = list /\ WithList(e, list, cur).cur = cur
         /\ Only(WithList(e, list, cur), e, {"list", "cur"})
<1> DEFINE r == WithList(e, list, cur)
<1>1. Fit(e)
  BY DEF Sound
<1>2. Fit(r)
  BY <1>1, FitList
<1>3. Only(r, e, {"list", "cur"}) /\ r.list = list /\ r.cur = cur
  BY <1>1, Keeps
<1>4. {"list", "cur"} \in SUBSET Harmless
  BY DEF Harmless
<1> HIDE DEF r
<1>5. Sound(r, p)
  BY <1>2, <1>3, <1>4, Mildly
<1> QED BY <1>3, <1>5 DEF r

\* No list.
LEMMA NoListSet ==
  ASSUME NEW p \in BOOLEAN, NEW e, Sound(e, p), e.loading = "no"
  PROVE  /\ Sound(WithList(e, <<>>, 0), p)
         /\ WithList(e, <<>>, 0).list = <<>> /\ WithList(e, <<>>, 0).cur = 0
         /\ Only(WithList(e, <<>>, 0), e, {"list", "cur"})
<1> DEFINE none == <<>>
           r == WithList(e, none, 0)
<1>1. Fit(e)
  BY DEF Sound
<1>2. Fit(r)
  BY <1>1, FitNoList
<1> HIDE DEF none
<1>3. Only(r, e, {"list", "cur"}) /\ r.list = none /\ r.cur = 0
  BY <1>1, Keeps
<1>4. {"list", "cur"} \in SUBSET Harmless
  BY DEF Harmless
<1> HIDE DEF r
<1>5. Sound(r, p)
  BY <1>2, <1>3, <1>4, Mildly
<1> QED BY <1>3, <1>5 DEF r, none

\* What is freed of the list, and what stays of it.
LEMMA ClearNone ==
  ASSUME NEW p \in BOOLEAN, NEW e, Sound(e, p)
  PROVE  LET r == Clear(e, "none")
         IN  /\ Sound(r, p) /\ r.list = <<>> /\ r.cur = 0 /\ r.loading = "no"
             /\ Only(r, e, {"inbox", "loading", "list", "cur"})
             /\ Alike(r, e, {"finish"}) /\ ~In(r.inbox, "finish")
<1> DEFINE f == ForgetLoad(e)
           none == <<>>
           r == WithList(f, none, 0)
<1>1. /\ Sound(f, p) /\ f.loading = "no" /\ Only(f, e, {"inbox", "loading"})
      /\ Alike(f, e, {"finish"}) /\ ~In(f.inbox, "finish")
  BY Forgotten
<1>2. Clear(e, "none") = r
  BY DEF Clear, WithList
<1> HIDE DEF f
<1>3. Sound(r, p) /\ r.list = none /\ r.cur = 0 /\ Only(r, f, {"list", "cur"})
  BY <1>1, NoListSet
<1> HIDE DEF r, none
<1>4. Only(r, e, {"inbox", "loading", "list", "cur"}) /\ r.inbox = f.inbox
      /\ r.loading = "no"
  BY <1>1, <1>3 DEF Only, Fields
<1>5. Alike(r, e, {"finish"})
  BY <1>1, <1>4 DEF Alike
<1> QED BY <1>1, <1>2, <1>3, <1>4, <1>5 DEF none

LEMMA ClearNew ==
  ASSUME NEW p \in BOOLEAN, NEW e, Sound(e, p), e.cur # 0
  PROVE  LET r == Clear(e, "new")
         IN  /\ Sound(r, p) /\ r.cur = 1 /\ Len(r.list) = Len(e.list) - e.cur + 1
             /\ \A i \in DOMAIN r.list : /\ r.list[i] = e.list[e.cur + i - 1]
                                         /\ e.cur + i - 1 \in DOMAIN e.list
             /\ Only(r, e, {"list", "cur"})
<1> DEFINE list == SubSeq(e.list, e.cur, Len(e.list))
           r == WithList(e, list, 1)
<1>1. /\ e.list \in Seq(Tracks) /\ e.cur \in Nat /\ e.cur <= Len(e.list)
      /\ e.status # "stopped"
  BY DEF Sound, Fit, Engine
<1>2. /\ list \in Seq(Tracks) /\ Len(list) = Len(e.list) - e.cur + 1
      /\ DOMAIN list = 1 .. Len(list)
      /\ \A i \in 1 .. Len(list) : list[i] = e.list[e.cur + i - 1]
  BY <1>1
<1>3. /\ \A i \in 1 .. Len(list) : e.cur + i - 1 \in DOMAIN e.list
      /\ 1 <= Len(list) /\ list # <<>>
  <2>1. Len(e.list) \in Nat /\ DOMAIN e.list = 1 .. Len(e.list)
    BY <1>1
  <2>2. Len(list) >= 1
    BY <1>1, <1>2, <2>1
  <2> HIDE DEF list
  <2> QED BY <1>1, <1>2, <2>1, <2>2
<1>4. Clear(e, "new") = r
  BY DEF Clear, WithList
<1> HIDE DEF list
<1>6. list \in Seq(Tracks) /\ 1 <= Len(list) /\ list # <<>> /\ 1 \in Nat /\ 1 # 0
  BY <1>2, <1>3
<1>5. Sound(r, p) /\ r.list = list /\ r.cur = 1 /\ Only(r, e, {"list", "cur"})
  BY <1>1, <1>6, ListSet
<1> HIDE DEF r
<1> QED BY <1>2, <1>3, <1>4, <1>5

LEMMA ClearCurrent ==
  ASSUME NEW p \in BOOLEAN, NEW e, Sound(e, p), e.cur # 0
  PROVE  LET r == Clear(e, "current")
         IN  /\ Sound(r, p) /\ r.cur = 1 /\ r.list = <<e.list[e.cur]>>
             /\ Only(r, e, {"inbox", "loading", "list", "cur"})
             /\ Alike(r, e, {"finish"})
             /\ e.cur = Len(e.list) => r.loading = e.loading /\ r.inbox = e.inbox
             /\ e.cur # Len(e.list) => r.loading = "no"
<1> DEFINE f == ForgetLoad(e)
           kept == IF e.cur = Len(e.list) THEN e ELSE f
           list == <<e.list[e.cur]>>
           r == WithList(kept, list, 1)
<1>1. /\ e.list \in Seq(Tracks) /\ e.cur \in Nat /\ e.cur <= Len(e.list)
      /\ e.status # "stopped"
  BY DEF Sound, Fit, Engine
<1>2. list \in Seq(Tracks) /\ Len(list) = 1 /\ list # <<>>
  BY <1>1
<1>3. /\ Sound(f, p) /\ f.loading = "no" /\ Only(f, e, {"inbox", "loading"})
      /\ Alike(f, e, {"finish"})
  BY Forgotten
<1>4. Clear(e, "current") = r
  BY DEF Clear, WithList
<1> HIDE DEF f
<1>5. /\ Sound(kept, p) /\ Only(kept, e, {"inbox", "loading"})
      /\ Alike(kept, e, {"finish"})
      /\ e.cur = Len(e.list) => kept.loading = e.loading /\ kept.inbox = e.inbox
      /\ e.cur # Len(e.list) => kept.loading = "no"
  <2>1. Only(e, e, {"inbox", "loading"}) /\ Alike(e, e, {"finish"})
    BY DEF Only, Alike
  <2> QED BY <1>3, <2>1
<1> HIDE DEF kept, list
<1>6. kept.status # "stopped"
  BY <1>1, <1>5 DEF Only, Fields
<1>7. /\ Sound(r, p) /\ r.list = list /\ r.cur = 1 /\ Only(r, kept, {"list", "cur"})
  BY <1>2, <1>5, <1>6, ListSet
<1> HIDE DEF r
<1>8. Only(r, e, {"inbox", "loading", "list", "cur"}) /\ r.inbox = kept.inbox
      /\ r.loading = kept.loading
  BY <1>5, <1>7 DEF Only, Fields
<1>9. Alike(r, e, {"finish"})
  BY <1>5, <1>8 DEF Alike
<1> QED BY <1>4, <1>5, <1>7, <1>8, <1>9 DEF list

LEMMA Freed ==
  ASSUME NEW p \in BOOLEAN, NEW e, Sound(e, p), e.list # <<>>
  PROVE  LET r == FreeLast(e)
             n == Len(e.list) - 1
         IN  /\ Sound(r, p) /\ Len(r.list) = n /\ r.loading = "no"
             /\ r.cur = IF e.cur > n THEN n ELSE e.cur
             /\ \A i \in DOMAIN r.list : i \in DOMAIN e.list /\ r.list[i] = e.list[i]
             /\ Only(r, e, {"inbox", "loading", "list", "cur"})
             /\ Alike(r, e, {"finish"}) /\ ~In(r.inbox, "finish")
<1> DEFINE n == Len(e.list) - 1
           f == ForgetLoad(e)
           list == SubSeq(e.list, 1, n)
           cur == IF e.cur > n THEN n ELSE e.cur
           r == WithList(f, list, cur)
<1>1. /\ e.list \in Seq(Tracks) /\ e.cur \in Nat /\ e.cur # 0
      /\ e.status # "stopped"
  BY DEF Sound, Fit, Engine
<1>2. /\ n \in Nat /\ list \in Seq(Tracks) /\ (n = 0 <=> list = <<>>) /\ Len(list) = n
      /\ \A i \in DOMAIN list : i \in DOMAIN e.list /\ list[i] = e.list[i]
  <2>1. Len(e.list) \in Nat /\ Len(e.list) # 0
    BY <1>1
  <2>2. n \in Nat /\ n <= Len(e.list)
    BY <2>1
  <2>3. /\ list \in Seq(Tracks) /\ Len(list) = n
        /\ DOMAIN list = 1 .. n
        /\ \A i \in 1 .. n : list[i] = e.list[i]
    BY <1>1, <2>1, <2>2
  <2>4. Len(list) = 0 <=> list = <<>>
    <3> HIDE DEF list
    <3> QED BY <2>3, EmptySeq
  <2>5. \A i \in 1 .. n : i \in DOMAIN e.list
    BY <1>1, <2>1, <2>2
  <2> HIDE DEF list
  <2> QED BY <2>2, <2>3, <2>4, <2>5
<1>3. cur \in Nat /\ cur <= n /\ (cur = 0 <=> n = 0)
  BY <1>1, <1>2
<1>4. /\ Sound(f, p) /\ f.loading = "no" /\ Only(f, e, {"inbox", "loading"})
      /\ Alike(f, e, {"finish"}) /\ ~In(f.inbox, "finish")
  BY Forgotten
<1>5. FreeLast(e) = r
  <2>1. f.list = e.list /\ f.cur = e.cur
    BY <1>4 DEF Only, Fields
  <2> QED BY <2>1 DEF FreeLast, WithList
<1>6. f.status # "stopped"
  BY <1>1, <1>4 DEF Only, Fields
<1> HIDE DEF f, list, cur, n
<1>7. /\ Sound(r, p) /\ r.list = list /\ r.cur = cur /\ Only(r, f, {"list", "cur"})
  BY <1>2, <1>3, <1>4, <1>6, ListSet
<1> HIDE DEF r
<1>8. /\ Only(r, e, {"inbox", "loading", "list", "cur"}) /\ r.inbox = f.inbox
      /\ r.loading = f.loading
  BY <1>4, <1>7 DEF Only, Fields
<1>9. Alike(r, e, {"finish"})
  BY <1>4, <1>8 DEF Alike
<1> QED BY <1>2, <1>4, <1>5, <1>7, <1>8, <1>9 DEF cur, n

-----------------------------------------------------------------------------
(* Passing over missing files.                                             *)

\* The queue after n turns of the loop, and when it ends.
Passing(q, peek) ==
    LET After[n \in 0 .. Length(q)] ==
            IF n = 0 THEN q ELSE SkipEntry(After[n - 1], peek)
    IN  After

Passed(q, peek) ==
    \/ Peek(q, peek) = None
    \/ file[Peek(q, peek)] # "missing"
    \/ Peek(q, peek + 1) = None

LEMMA PresentIs ==
  ASSUME NEW e
  PROVE  LET after == Passing(e.q, e.peek)
             turns == {n \in 0 .. Length(e.q) : Passed(after[n], e.peek)}
         IN  Present(e) =
                IF turns = {} THEN [e EXCEPT !.hung = TRUE]
                ELSE [e EXCEPT !.q = after[CHOOSE n \in turns :
                                              \A m \in turns : n <= m]]
BY DEF Present, Passing, Passed

\* The loop is a function of the turns taken.
LEMMA PassingIs ==
  ASSUME NEW q, NEW k, Length(q) \in Nat
  PROVE  /\ Passing(q, k)[0] = q
         /\ \A n \in 0 .. Length(q) - 1 :
               Passing(q, k)[n + 1] = SkipEntry(Passing(q, k)[n], k)
<1> DEFINE L == Length(q)
           Steps(f, m) == [n \in 0 .. m |-> IF n = 0 THEN q
                                            ELSE SkipEntry(f[n - 1], k)]
           Reached == {m \in 0 .. L : \E f : f = Steps(f, m)}
<1>1. 0 \in Reached
  <2> DEFINE f == [n \in 0 .. 0 |-> q]
  <2>1. f = Steps(f, 0)
    OBVIOUS
  <2>2. 0 \in 0 .. L
    OBVIOUS
  <2> HIDE DEF f, Steps
  <2> QED BY <2>1, <2>2
<1>2. ASSUME NEW m \in 0 .. L - 1, m \in Reached PROVE m + 1 \in Reached
  <2>1. PICK f : f = Steps(f, m)
    BY <1>2
  <2> DEFINE g == [n \in 0 .. m + 1 |-> IF n <= m THEN f[n] ELSE SkipEntry(f[m], k)]
  <2>2. \A n \in 0 .. m : f[n] = IF n = 0 THEN q ELSE SkipEntry(f[n - 1], k)
    BY <2>1
  <2>3. ASSUME NEW n \in 0 .. m + 1
        PROVE  g[n] = IF n = 0 THEN q ELSE SkipEntry(g[n - 1], k)
    <3>1. CASE n = 0
      <4>1. 0 \in 0 .. m /\ 0 <= m /\ 0 \in 0 .. m + 1
        OBVIOUS
      <4>2. g[0] = f[0] /\ f[0] = q
        BY <2>2, <4>1
      <4> QED BY <3>1, <4>2
    <3>2. CASE n # 0 /\ n <= m
      <4>1. n - 1 \in 0 .. m + 1 /\ n - 1 <= m /\ n \in 0 .. m
        BY <3>2
      <4>2. g[n] = f[n] /\ g[n - 1] = f[n - 1]
        BY <3>2, <4>1
      <4>3. f[n] = SkipEntry(f[n - 1], k)
        BY <2>2, <3>2, <4>1
      <4> QED BY <3>2, <4>2, <4>3
    <3>3. CASE n = m + 1
      <4>1. n - 1 = m /\ m \in 0 .. m + 1 /\ m <= m /\ ~(n <= m) /\ n # 0
        BY <3>3
      <4>2. g[n] = SkipEntry(f[m], k)
        BY <4>1
      <4>3. g[m] = f[m]
        BY <4>1
      <4> QED BY <4>1, <4>2, <4>3
    <3>4. n <= m \/ n = m + 1
      OBVIOUS
    <3> QED BY <3>1, <3>2, <3>3, <3>4
  <2>4. g = Steps(g, m + 1)
    <3>1. g = [n \in 0 .. m + 1 |-> g[n]]
      OBVIOUS
    <3> HIDE DEF g
    <3> QED BY <2>3, <3>1
  <2>5. m + 1 \in 0 .. L
    OBVIOUS
  <2> HIDE DEF g, Steps
  <2> QED BY <2>4, <2>5
<1>3. L \in 0 .. L
  OBVIOUS
<1> HIDE DEF Reached
<1>4. 0 .. L \subseteq Reached
  BY <1>1, <1>2, Induction
<1>5. PICK f : f = Steps(f, L)
  BY <1>3, <1>4 DEF Reached
<1> DEFINE After == Passing(q, k)
<1>6. After = Steps(After, L)
  <2>1. After = CHOOSE g : g = Steps(g, L)
    BY DEF Passing
  <2> HIDE DEF Steps, After
  <2> QED BY <1>5, <2>1
<1>7. \A n \in 0 .. L : After[n] = IF n = 0 THEN q ELSE SkipEntry(After[n - 1], k)
  <2> HIDE DEF After
  <2> QED BY <1>6
<1>8. 0 \in 0 .. L /\ \A n \in 0 .. L - 1 : /\ n + 1 \in 0 .. L /\ n + 1 # 0
                                           /\ (n + 1) - 1 = n
  OBVIOUS
<1> HIDE DEF After, L
<1>9. After[0] = q
  BY <1>7, <1>8
<1>10. ASSUME NEW n \in 0 .. L - 1 PROVE After[n + 1] = SkipEntry(After[n], k)
  <2>1. After[n + 1] = SkipEntry(After[(n + 1) - 1], k)
    BY <1>7, <1>8
  <2> QED BY <1>8, <2>1
<1> QED BY <1>9, <1>10 DEF After, L

\* Every turn leaves a queue whose position is one of it.
LEMMA PassingSane ==
  ASSUME NEW q, Sane(q), NEW k \in Int
  PROVE  \A n \in 0 .. Length(q) :
            /\ Sane(Passing(q, k)[n]) /\ Passing(q, k)[n].repeat = q.repeat
            /\ Passing(q, k)[n].shuffle = q.shuffle
<1> DEFINE After == Passing(q, k)
           L == Length(q)
           Good(p) == Sane(p) /\ p.repeat = q.repeat /\ p.shuffle = q.shuffle
           T == {n \in 0 .. L : Good(After[n])}
<1>1. L \in Nat
  BY LengthType DEF Sane
<1>2. After[0] = q /\ \A n \in 0 .. L - 1 : After[n + 1] = SkipEntry(After[n], k)
  BY <1>1, PassingIs
<1> HIDE DEF After, L
<1>3. 0 \in T
  BY <1>1, <1>2
<1>4. ASSUME NEW n \in 0 .. L - 1, n \in T PROVE n + 1 \in T
  <2>1. Good(SkipEntry(After[n], k))
    BY <1>4, SkipEntryIs
  <2>2. n + 1 \in 0 .. L
    BY <1>1
  <2> QED BY <1>2, <2>1, <2>2
<1>5. 0 .. L \subseteq T
  <2> HIDE DEF T
  <2> QED BY <1>1, <1>3, <1>4, Induction
<1> QED BY <1>5 DEF After, L

\* The turn that the loop ends with, if it ends.
LEMMA LeastTurn ==
  ASSUME NEW e, Sane(e.q), e.peek \in Int
  PROVE  LET after == Passing(e.q, e.peek)
             L == Length(e.q)
         IN  \/ /\ \A n \in 0 .. L : ~Passed(after[n], e.peek)
                /\ Present(e) = [e EXCEPT !.hung = TRUE]
             \/ \E n \in 0 .. L :
                   /\ Passed(after[n], e.peek)
                   /\ \A m \in 0 .. n - 1 : ~Passed(after[m], e.peek)
                   /\ Present(e) = [e EXCEPT !.q = after[n]]
<1> DEFINE after == Passing(e.q, e.peek)
           L == Length(e.q)
           turns == {n \in 0 .. L : Passed(after[n], e.peek)}
           n0 == CHOOSE n \in turns : \A m \in turns : n <= m
<1>1. L \in Nat
  BY LengthType DEF Sane
<1>2. Present(e) = IF turns = {} THEN [e EXCEPT !.hung = TRUE]
                   ELSE [e EXCEPT !.q = after[n0]]
  BY PresentIs
<1> HIDE DEF after, L
<1>3. CASE turns = {}
  BY <1>2, <1>3 DEF after, L
<1>4. CASE turns # {}
  <2>1. turns \in SUBSET Nat
    BY <1>1
  <2>2. \E n \in turns : \A m \in turns : n <= m
    <3> HIDE DEF turns
    <3> QED BY <1>4, <2>1, Least
  <2>3. n0 \in turns /\ \A m \in turns : n0 <= m
    <3> HIDE DEF turns
    <3> QED BY <2>2
  <2> HIDE DEF n0
  <2>4. n0 \in 0 .. L /\ Passed(after[n0], e.peek)
    BY <2>3
  <2>5. ASSUME NEW m \in 0 .. n0 - 1 PROVE ~Passed(after[m], e.peek)
    <3>1. m \in 0 .. L /\ ~(n0 <= m)
      BY <1>1, <2>4
    <3> QED BY <2>3, <3>1
  <2> QED BY <1>2, <1>4, <2>4, <2>5 DEF after, L
<1> QED BY <1>3, <1>4

\* In a queue that does not repeat, every turn but the last removes an entry that
\* has one behind it, so that the loop ends.
LEMMA Turns ==
  ASSUME NEW q, Sane(q), q.repeat = "off", NEW k \in Int, NEW N \in 0 .. Length(q),
         \A n \in 0 .. N - 1 : ~Passed(Passing(q, k)[n], k)
  PROVE  /\ Length(Passing(q, k)[N]) = Length(q) - N
         /\ k >= 0 => /\ \A j \in Int : j < k => Peek(Passing(q, k)[N], j) = Peek(q, j)
                      /\ N > 0 => Peek(Passing(q, k)[N], k) # None
<1> DEFINE After == Passing(q, k)
           L == Length(q)
           Shorter(n) == Length(After[n]) = L - n
           Same(n) == /\ \A j \in Int : j < k => Peek(After[n], j) = Peek(q, j)
                      /\ n > 0 => Peek(After[n], k) # None
           T == {n \in 0 .. N : Shorter(n) /\ (k >= 0 => Same(n))}
<1>1. L \in Nat /\ N \in Nat /\ N <= L
  BY LengthType DEF Sane
<1>2. After[0] = q /\ \A n \in 0 .. L - 1 : After[n + 1] = SkipEntry(After[n], k)
  BY <1>1, PassingIs
<1>3. \A n \in 0 .. L : Sane(After[n]) /\ After[n].repeat = "off"
  BY PassingSane
<1>7. Length(q) = L
  OBVIOUS
<1> HIDE DEF After, L
<1>4. 0 \in T
  <2>1. Shorter(0) /\ 0 \in 0 .. N /\ ~(0 > 0)
    BY <1>1, <1>2, <1>7
  <2> QED BY <1>2, <2>1
<1>5. ASSUME NEW n \in 0 .. N - 1, n \in T PROVE n + 1 \in T
  <2>1. n \in 0 .. L /\ n \in 0 .. L - 1 /\ n + 1 \in 0 .. N /\ n \in Nat
    BY <1>1
  <2> DEFINE x == After[n]
             y == After[n + 1]
  <2>2. y = SkipEntry(x, k) /\ Sane(x) /\ x.repeat = "off" /\ ~Passed(x, k)
    BY <1>2, <1>3, <2>1 DEF After
  <2>3. Length(x) = L - n /\ (k >= 0 => Same(n))
    BY <1>5
  <2> HIDE DEF x, y
  <2>4. Peek(x, k) # None /\ Peek(x, k + 1) # None
    BY <2>2 DEF Passed
  <2>5. x \in Queue /\ x.repeat # "all" /\ x.index \in Nat /\ Length(x) \in Nat
    BY <2>2, LengthType DEF Sane, Queue
  <2>6. x.index + k \in 0 .. Length(x) - 1
    BY <2>4, <2>5, PeekOff
  <2>7. Length(y) = Length(x) - 1
    BY <2>2, <2>6, SkipEntryIs
  <2>8. Length(y) = L - (n + 1)
    BY <1>1, <2>1, <2>3, <2>7
  <2>9. ASSUME k >= 0
        PROVE  /\ \A j \in Int : j < k => Peek(y, j) = Peek(q, j)
               /\ Peek(y, k) # None
    <3>1. k \in Nat
      BY <2>9
    <3>2. \A j \in Int : Peek(y, j) = IF j < k THEN Peek(x, j) ELSE Peek(x, j + 1)
      BY <2>2, <2>4, <3>1, SkipEntryPeek
    <3>3. ~(k < k)
      BY <3>1
    <3> QED BY <2>3, <2>4, <2>9, <3>2, <3>3 DEF x
  <2> QED BY <2>1, <2>8, <2>9 DEF y
<1>6. N \in T
  <2>1. 0 .. N \subseteq T
    <3> HIDE DEF T
    <3> QED BY <1>1, <1>4, <1>5, Induction
  <2>2. N \in 0 .. N
    BY <1>1
  <2> QED BY <2>1, <2>2
<1> QED BY <1>6 DEF After, L

\* What is ahead after missing files have been passed over: the loop does not hang,
\* what comes before is as it was, and there is nothing only if there was nothing.
Looked(r, q, k) ==
    /\ \A j \in Int : j < k => Peek(r, j) = Peek(q, j)
    /\ Peek(r, k) = None <=> Peek(q, k) = None
    /\ r # q => file[Peek(q, k)] = "missing"

LEMMA Presented ==
  ASSUME NEW p \in BOOLEAN, NEW e, Sound(e, p)
  PROVE  /\ Sound(Present(e), p)
         /\ Only(Present(e), e, {"q", "hung"})
         /\ AllOk(file) \/ Peek(e.q, e.peek) = None => Present(e) = e
         /\ Calm /\ e.peek >= 0 => Looked(Present(e).q, e.q, e.peek)
<1> DEFINE after == Passing(e.q, e.peek)
           L == Length(e.q)
           r == Present(e)
           Ends(n) == /\ Passed(after[n], e.peek)
                      /\ \A m \in 0 .. n - 1 : ~Passed(after[m], e.peek)
                      /\ r = [e EXCEPT !.q = after[n]]
<1>1. /\ Fit(e) /\ e \in Engine /\ Sane(e.q) /\ e.peek \in Int /\ L \in Nat
      /\ e.q \in Queue /\ Tame(e, file)
  BY LengthType DEF Sound, Fit, Engine, Sane
<1>2. after[0] = e.q
  BY <1>1, PassingIs
<1>3. \A n \in 0 .. L : Sane(after[n]) /\ after[n].repeat = e.q.repeat
  BY <1>1, PassingSane
<1>4. ASSUME AllOk(file) \/ Peek(e.q, e.peek) = None
      PROVE  Passed(after[0], e.peek)
  <2>1. Peek(e.q, e.peek) \in Tracks \cup {None}
    BY <1>1, PeekIs
  <2> QED BY <1>2, <1>4, <2>1 DEF Passed, AllOk
<1>5. \/ /\ \A n \in 0 .. L : ~Passed(after[n], e.peek)
         /\ r = [e EXCEPT !.hung = TRUE]
      \/ \E n \in 0 .. L : Ends(n)
  BY <1>1, LeastTurn
<1>6. Calm /\ e.q.repeat # "off" => AllOk(file)
  BY <1>1 DEF Tame, Plain
<1>7. 0 \in 0 .. L
  BY <1>1
<1>8. ASSUME NEW n \in 0 .. L, Passed(after[0], e.peek),
             \A m \in 0 .. n - 1 : ~Passed(after[m], e.peek)
      PROVE  n = 0
  <2>1. n > 0 => 0 \in 0 .. n - 1
    OBVIOUS
  <2> QED BY <1>8, <2>1
<1> HIDE DEF after, r
<1>9. ASSUME \A n \in 0 .. L : ~Passed(after[n], e.peek), r = [e EXCEPT !.hung = TRUE]
      PROVE  /\ Sound(r, p) /\ Only(r, e, {"q", "hung"}) /\ ~Calm
             /\ ~(AllOk(file) \/ Peek(e.q, e.peek) = None)
  <2>1. ~Passed(after[0], e.peek)
    BY <1>7, <1>9
  <2>2. ~(AllOk(file) \/ Peek(e.q, e.peek) = None)
    BY <1>4, <2>1
  <2>3. ASSUME Calm PROVE FALSE
    <3>1. e.q.repeat = "off" /\ L \in 0 .. L
      BY <1>1, <1>6, <2>2, <2>3
    <3>2. \A n \in 0 .. L - 1 : n \in 0 .. L
      BY <1>1
    <3>3. Length(after[L]) = L - L
      BY <1>1, <1>9, <3>1, <3>2, Turns DEF after
    <3>4. Sane(after[L]) /\ Length(after[L]) = 0 /\ after[L].repeat = "off"
      BY <1>1, <1>3, <3>1, <3>3
    <3> DEFINE x == after[L]
    <3>5. x \in Queue /\ x.index \in Nat /\ x.repeat # "all" /\ Length(x) = 0
      BY <3>4 DEF Sane, Queue
    <3> HIDE DEF x
    <3>6. x.index + e.peek \notin 0 .. Length(x) - 1
      BY <1>1, <3>5
    <3>7. Peek(x, e.peek) = None
      BY <1>1, <3>5, <3>6, PeekOff
    <3> QED BY <1>9, <3>1, <3>7 DEF Passed, x
  <2>4. Fit(r) /\ Only(r, e, {"hung"})
    BY <1>1, <1>9 DEF Fit, Engine, Only, Fields
  <2>5. /\ Only(r, e, {"q", "hung"}) /\ r.q = e.q /\ r.inbox = e.inbox
        /\ r.status = e.status /\ r.loading = e.loading /\ r.filling = e.filling
    BY <2>4 DEF Only, Fields
  <2>6. Sound(r, p)
    BY <2>2, <2>3, <2>4, <2>5 DEF Sound, Mailed, Tame
  <2> QED BY <2>2, <2>3, <2>5, <2>6
<1>10. ASSUME NEW n \in 0 .. L, Ends(n)
       PROVE  /\ Sound(r, p) /\ Only(r, e, {"q", "hung"})
              /\ AllOk(file) \/ Peek(e.q, e.peek) = None => r = e
              /\ Calm /\ e.peek >= 0 => Looked(r.q, e.q, e.peek)
  <2>1. r = WithQ(e, after[n])
    BY <1>10 DEF WithQ
  <2>2. AllOk(file) \/ Peek(e.q, e.peek) = None => n = 0
    BY <1>4, <1>8, <1>10
  <2>3. n = 0 => r = e
    <3>1. WithQ(e, e.q) = e
      BY <1>1 DEF WithQ, Engine
    <3> QED BY <1>2, <2>1, <3>1
  <2>4. AllOk(file) => Length(after[n]) > 0
    BY <1>1, <1>2, <2>2 DEF Tame
  <2>5. Sound(r, p) /\ r.q = after[n] /\ Only(r, e, {"q"})
    BY <1>3, <2>1, <2>4, QSet
  <2>6. Only(r, e, {"q", "hung"})
    BY <2>5 DEF Only
  <2>7. ASSUME Calm, e.peek >= 0 PROVE Looked(r.q, e.q, e.peek)
    <3>1. CASE n = 0
      BY <2>3, <3>1 DEF Looked
    <3>2. CASE n # 0
      <4>1. e.q.repeat = "off"
        BY <1>6, <2>2, <2>7, <3>2
      <4>2. /\ \A j \in Int : j < e.peek => Peek(after[n], j) = Peek(e.q, j)
            /\ Peek(after[n], e.peek) # None
        <5>1. n > 0
          BY <3>2
        <5> QED BY <1>1, <1>10, <2>7, <4>1, <5>1, Turns DEF after
      <4>3. 0 \in 0 .. n - 1
        BY <3>2
      <4>4. ~Passed(e.q, e.peek)
        BY <1>2, <1>10, <4>3
      <4> QED BY <2>5, <4>2, <4>4 DEF Looked, Passed
    <3> QED BY <3>1, <3>2
  <2> QED BY <2>2, <2>3, <2>5, <2>6, <2>7
<1> QED BY <1>5, <1>9, <1>10 DEF r

-----------------------------------------------------------------------------
(* Loading.                                                                *)

\* While a track is loaded: its message is sent again if there was no room.
Parked(r, e) ==
    /\ Only(r, e, {"inbox", "filling", "stat"})
    /\ Alike(r, e, {"finish"}) /\ r.filling # "full" /\ r.stat # "nomore"
    /\ In(e.inbox, "finish") \/ e.filling = "full" => In(r.inbox, "finish")

\* Otherwise: the next track is looked for.
Seeks(r, e) ==
    /\ Only(r, e, {"q", "hung", "list", "cur", "loading", "peek", "filling", "stat"})
    /\ AllOk(file) => r.q = e.q
    /\ Calm /\ e.peek >= -1 => Looked(r.q, e.q, e.peek + 1)
    /\ \/ /\ Peek(r.q, e.peek + 1) = None /\ (Calm /\ e.peek >= -1 => r.q = e.q)
          /\ r.list = e.list /\ r.cur = e.cur /\ r.loading = "no" /\ r.peek = e.peek
          /\ r.filling = "end" /\ r.stat = "nomore"
       \/ /\ Peek(r.q, e.peek + 1) \in Tracks /\ Len(e.list) >= MaxBuffered
          /\ r.list = e.list /\ r.cur = e.cur /\ r.loading = "no" /\ r.peek = e.peek
          /\ r.filling = "full" /\ r.stat = "ok"
       \/ /\ Peek(r.q, e.peek + 1) \in Tracks /\ ~(Len(e.list) >= MaxBuffered)
          /\ r.list = Append(e.list, Peek(r.q, e.peek + 1))
          /\ r.cur = (IF e.cur = 0 THEN 1 ELSE e.cur)
          /\ r.loading = "reading" /\ r.peek = e.peek + 1
          /\ r.filling = "filling" /\ r.stat = "ok"

LEMMA LoadTrackWaits ==
  ASSUME NEW p \in BOOLEAN, NEW e, Sound(e, p), e.loading # "no"
  PROVE  Sound(LoadTrack(e), p) /\ Parked(LoadTrack(e), e)
<1> DEFINE r == LoadTrack(e)
<1>1. Alike(e, e, {"finish"})
  BY DEF Alike
<1>2. CASE e.filling = "filling"
  <2>1. r = WithStat(e, "ok")
    BY <1>2 DEF LoadTrack, WithStat
  <2> HIDE DEF r
  <2>2. Sound(r, p) /\ Only(r, e, {"stat"}) /\ r.stat = "ok"
    BY <2>1, StatSet
  <2>3. /\ Only(r, e, {"inbox", "filling", "stat"}) /\ r.inbox = e.inbox
        /\ r.filling = e.filling
    BY <2>2 DEF Only, Fields
  <2> QED BY <1>1, <1>2, <2>2, <2>3 DEF Parked, Alike, r
<1>3. CASE e.filling = "full"
  <2> DEFINE f == WithFilling(e, "filling")
             m == Post(f, "finish")
  <2>1. r = WithStat(m, "ok")
    <3>1. e \in Engine
      BY DEF Sound, Fit
    <3>2. r = [Post(e, "finish") EXCEPT !.filling = "filling", !.stat = "ok"]
      BY <1>3 DEF LoadTrack
    <3> QED BY <3>1, <3>2 DEF WithStat, WithFilling, Post, Engine
  <2>2. e.loading = "read" /\ ~In(e.inbox, "finish")
    BY <1>3 DEF Sound, Mailed, Fit, Engine
  <2>3. Sound(f, p) /\ f.filling = "filling" /\ Only(f, e, {"filling"})
    BY FillingSet
  <2> HIDE DEF f, r
  <2>4. f.loading = "read" /\ f.inbox = e.inbox
    BY <2>2, <2>3 DEF Only, Fields
  <2>5. /\ Sound(m, p) /\ Only(m, f, {"inbox"}) /\ Alike(m, f, {"finish"})
        /\ In(m.inbox, "finish")
    BY <2>2, <2>3, <2>4, Posted DEF Messages
  <2> HIDE DEF m
  <2>6. Sound(r, p) /\ Only(r, m, {"stat"}) /\ r.stat = "ok"
    BY <2>1, <2>5, StatSet
  <2>7. /\ Only(r, e, {"inbox", "filling", "stat"}) /\ r.inbox = m.inbox
        /\ r.filling = "filling"
    BY <2>3, <2>5, <2>6 DEF Only, Fields
  <2> QED BY <2>4, <2>5, <2>6, <2>7 DEF Parked, Alike, r
<1>4. CASE e.filling \notin {"filling", "full"}
  <2>1. r = WithStat(e, "busy")
    BY <1>4 DEF LoadTrack, WithStat
  <2> HIDE DEF r
  <2>2. Sound(r, p) /\ Only(r, e, {"stat"}) /\ r.stat = "busy"
    BY <2>1, StatSet
  <2>3. /\ Only(r, e, {"inbox", "filling", "stat"}) /\ r.inbox = e.inbox
        /\ r.filling = e.filling
    BY <2>2 DEF Only, Fields
  <2> QED BY <1>1, <1>4, <2>2, <2>3 DEF Parked, Alike, r
<1> QED BY <1>2, <1>3, <1>4

LEMMA LoadTrackSeeks ==
  ASSUME NEW p \in BOOLEAN, NEW e, Sound(e, p), e.loading = "no",
         e.status # "stopped"
  PROVE  Sound(LoadTrack(e), p) /\ Seeks(LoadTrack(e), e)
<1> DEFINE r == LoadTrack(e)
           k == e.peek + 1
           more == WithPeek(e, k)
           next == Present(more)
           path == Peek(next.q, next.peek)
           back == WithPeek(next, next.peek - 1)
           end == WithFilling(back, "end")
           full == WithFilling(back, "full")
           list == Append(e.list, path)
           cur == IF e.cur = 0 THEN 1 ELSE e.cur
           w == WithList(next, list, cur)
           f == WithFilling(w, "filling")
           l == WithLoading(f, "reading")
           SUF == Sound(r, p) /\ Seeks(r, e)
<1>1. e.peek \in Int /\ k \in Int /\ k - 1 = e.peek /\ e.list \in Seq(Tracks)
      /\ e.cur \in Nat /\ e.cur <= Len(e.list)
  BY DEF Sound, Fit, Engine
<1>2. \/ path = None /\ r = WithStat(end, "nomore")
      \/ path # None /\ Len(e.list) >= MaxBuffered /\ r = WithStat(full, "ok")
      \/ /\ path # None /\ ~(Len(e.list) >= MaxBuffered)
         /\ r = [next EXCEPT !.list = Append(@, path),
                             !.cur = IF @ = 0 THEN 1 ELSE @,
                             !.loading = "reading", !.filling = "filling",
                             !.stat = "ok"]
  BY DEF LoadTrack, WithStat, WithFilling, WithPeek
<1> HIDE DEF r, k
<1>3. Sound(more, p) /\ more.peek = k /\ Only(more, e, {"peek"})
  BY <1>1, PeekSet
<1> HIDE DEF more
<1>4. more.q = e.q
  BY <1>3 DEF Only, Fields
<1>5. /\ Sound(next, p) /\ Only(next, more, {"q", "hung"})
      /\ AllOk(file) \/ Peek(e.q, k) = None => next = more
      /\ Calm /\ k >= 0 => Looked(next.q, e.q, k)
  BY <1>3, <1>4, Presented
<1> HIDE DEF next
<1>6. /\ next.list = e.list /\ next.cur = e.cur /\ next.loading = "no"
      /\ next.peek = k /\ next.status # "stopped" /\ next.inbox = e.inbox
      /\ next.filling = e.filling
      /\ Only(next, e, {"q", "hung", "peek"})
  BY <1>3, <1>5 DEF Only, Fields
<1>7. path \in Tracks \cup {None} /\ path = Peek(next.q, k)
  <2>1. next.q \in Queue
    BY <1>5 DEF Sound, Fit, Engine
  <2> QED BY <1>1, <1>6, <2>1, PeekIs
<1>8. ~In(e.inbox, "finish")
  BY DEF Sound, Mailed
<1> HIDE DEF path
<1>9. ASSUME NEW x, x.q = next.q, Only(x, e, {"q", "hung", "list", "cur", "loading", "peek", "filling", "stat"})
      PROVE  /\ AllOk(file) => x.q = e.q
             /\ Calm /\ e.peek >= -1 => Looked(x.q, e.q, k)
  <2>1. e.peek >= -1 => k >= 0
    BY <1>1 DEF k
  <2> QED BY <1>4, <1>5, <1>9, <2>1
<1>10. /\ Sound(back, p) /\ back.peek = e.peek /\ Only(back, next, {"peek"})
  BY <1>1, <1>5, <1>6, PeekSet
<1> HIDE DEF back
<1>11. ASSUME path = None, r = WithStat(end, "nomore") PROVE SUF
  <2>1. Sound(end, p) /\ end.filling = "end" /\ Only(end, back, {"filling"})
    BY <1>10, FillingSet
  <2> HIDE DEF end
  <2>2. Sound(r, p) /\ r.stat = "nomore" /\ Only(r, end, {"stat"})
    BY <1>11, <2>1, StatSet
  <2>3. /\ r.q = next.q /\ r.list = e.list /\ r.cur = e.cur /\ r.loading = "no"
        /\ r.peek = e.peek /\ r.filling = "end"
        /\ Only(r, e, {"q", "hung", "list", "cur", "loading", "peek", "filling", "stat"})
    BY <1>6, <1>10, <2>1, <2>2 DEF Only, Fields
  <2>4. Calm /\ e.peek >= -1 => r.q = e.q
    <3>1. Calm /\ e.peek >= -1 => Peek(e.q, k) = None
      BY <1>7, <1>9, <1>11, <2>3 DEF Looked
    <3> QED BY <1>4, <1>5, <2>3, <3>1
  <2> QED BY <1>7, <1>9, <1>11, <2>2, <2>3, <2>4 DEF Seeks, k
<1>12. ASSUME path # None, Len(e.list) >= MaxBuffered, r = WithStat(full, "ok")
       PROVE  SUF
  <2>1. Sound(full, p) /\ full.filling = "full" /\ Only(full, back, {"filling"})
    <3>1. back.inbox = e.inbox /\ back.loading = "no"
      BY <1>6, <1>10 DEF Only, Fields
    <3> QED BY <1>8, <1>10, <3>1, FillingSet
  <2> HIDE DEF full
  <2>2. Sound(r, p) /\ r.stat = "ok" /\ Only(r, full, {"stat"})
    BY <1>12, <2>1, StatSet
  <2>3. /\ r.q = next.q /\ r.list = e.list /\ r.cur = e.cur /\ r.loading = "no"
        /\ r.peek = e.peek /\ r.filling = "full"
        /\ Only(r, e, {"q", "hung", "list", "cur", "loading", "peek", "filling", "stat"})
    BY <1>6, <1>10, <2>1, <2>2 DEF Only, Fields
  <2> QED BY <1>7, <1>9, <1>12, <2>2, <2>3 DEF Seeks, k
<1>13. ASSUME path # None, ~(Len(e.list) >= MaxBuffered),
              r = [next EXCEPT !.list = Append(@, path),
                             !.cur = IF @ = 0 THEN 1 ELSE @,
                             !.loading = "reading", !.filling = "filling",
                             !.stat = "ok"]
       PROVE  SUF
  <2>1. path \in Tracks
    BY <1>7, <1>13
  <2>2. list \in Seq(Tracks) /\ list # <<>> /\ Len(list) = Len(e.list) + 1
    BY <1>1, <2>1
  <2>3. cur \in Nat /\ cur # 0 /\ cur <= Len(list)
    BY <1>1, <2>2
  <2>4. r = WithStat(l, "ok")
    <3>1. next \in Engine
      BY <1>5 DEF Sound, Fit
    <3>2. r = [next EXCEPT !.list = list, !.cur = cur, !.loading = "reading",
                           !.filling = "filling", !.stat = "ok"]
      BY <1>6, <1>13, <3>1 DEF Engine
    <3> QED BY <3>1, <3>2 DEF WithStat, WithFilling, WithLoading, WithList, Engine
  <2>5. list = Append(e.list, path) /\ cur = (IF e.cur = 0 THEN 1 ELSE e.cur)
    OBVIOUS
  <2> HIDE DEF list, cur
  <2>6. /\ Sound(w, p) /\ w.list = list /\ w.cur = cur
        /\ Only(w, next, {"list", "cur"})
    BY <1>5, <1>6, <2>2, <2>3, ListSet
  <2> HIDE DEF w
  <2>7. Sound(f, p) /\ f.filling = "filling" /\ Only(f, w, {"filling"})
    BY <2>6, FillingSet
  <2> HIDE DEF f
  <2>8. Sound(l, p) /\ l.loading = "reading" /\ Only(l, f, {"loading"})
    <3>1. f.inbox = e.inbox /\ f.list = list
      BY <1>6, <2>6, <2>7 DEF Only, Fields
    <3> QED BY <1>8, <2>2, <2>5, <2>7, <3>1, LoadingSet
  <2> HIDE DEF l
  <2>9. Sound(r, p) /\ r.stat = "ok" /\ Only(r, l, {"stat"})
    BY <2>4, <2>8, StatSet
  <2>10. /\ r.q = next.q /\ r.list = list /\ r.cur = cur /\ r.loading = "reading"
         /\ r.peek = k /\ r.filling = "filling"
         /\ Only(r, e, {"q", "hung", "list", "cur", "loading", "peek", "filling", "stat"})
    BY <1>6, <2>6, <2>7, <2>8, <2>9 DEF Only, Fields
  <2> QED BY <1>7, <1>9, <1>13, <2>1, <2>5, <2>9, <2>10 DEF Seeks, k
<1> QED BY <1>2, <1>11, <1>12, <1>13 DEF r

-----------------------------------------------------------------------------
(* The order of the buffer.                                                *)

\* The current track's audio is there.
Audio(e) == e.cur # 0 /\ HasAudio(e, e.cur)

\* The buffer is the queue's tracks around the entry b after its position, and the
\* next to be loaded is the one after its last.
Order(e, b) ==
    /\ \A i \in DOMAIN e.list : e.list[i] = Peek(e.q, i - e.cur + b)
    /\ e.cur # 0 => e.peek = b + Len(e.list) - e.cur
    /\ e.cur = 0 => \/ e.peek = b - 1
                    \/ (b = 0 /\ e.peek = 0 /\ Peek(e.q, 1) = None)

Heard(e) ==
    e.playing # None => file[e.playing] = "ok" /\ e.playing = Peek(e.q, 0)

\* A track whose metadata is there waits for its message or for room.
Told(e) == e.loading = "read" => In(e.inbox, "finish") \/ e.filling = "full"

\* A current track without audio is the only one, and does not wait for room.
Alone(e) == e.cur # 0 /\ ~Audio(e) => Len(e.list) = 1
Roomy(e) == e.filling = "full" /\ e.loading # "no" => Audio(e)

LEMMA Numbers ==
  ASSUME NEW e, Fit(e)
  PROVE  /\ e.list \in Seq(Tracks) /\ DOMAIN e.list = 1 .. Len(e.list)
         /\ Len(e.list) \in Nat /\ e.cur \in Nat /\ e.cur <= Len(e.list)
         /\ (e.cur = 0 <=> e.list = <<>>) /\ (e.cur = 0 <=> Len(e.list) = 0)
         /\ e.peek \in Int /\ e.q \in Queue /\ Sane(e.q) /\ e.q.index \in Nat
         /\ e.cur # 0 => e.cur \in DOMAIN e.list
<1>1. e.list \in Seq(Tracks) /\ e.cur \in Nat /\ e.peek \in Int /\ e.q \in Queue
  BY DEF Fit, Engine
<1>2. DOMAIN e.list = 1 .. Len(e.list) /\ Len(e.list) \in Nat
  BY <1>1
<1>3. e.cur <= Len(e.list) /\ (e.cur = 0 <=> e.list = <<>>) /\ Sane(e.q)
  BY DEF Fit
<1>4. Len(e.list) = 0 <=> e.list = <<>>
  BY <1>1, EmptySeq
<1>5. e.q.index \in Nat
  BY <1>1 DEF Queue
<1> QED BY <1>1, <1>2, <1>3, <1>4, <1>5

LEMMA AudioIs ==
  ASSUME NEW e
  PROVE  Audio(e) <=> e.cur # 0 /\ (e.loading = "no" \/ e.cur # Len(e.list))
BY DEF Audio, HasAudio, InLoad

LEMMA OrderKept ==
  ASSUME NEW e, NEW r, r.q = e.q, r.list = e.list, r.cur = e.cur, r.peek = e.peek
  PROVE  \A b : Order(e, b) => Order(r, b)
BY DEF Order

LEMMA HeardKept ==
  ASSUME NEW e, NEW r, r.q = e.q, r.playing = e.playing, Heard(e)
  PROVE  Heard(r)
BY DEF Heard

\* What comes before the entry that was looked for is as it was.
LEMMA OrderLooked ==
  ASSUME NEW e, Fit(e), NEW b \in {0, 1}, Order(e, b), NEW r,
         r.list = e.list, r.cur = e.cur, r.peek = e.peek, e.cur # 0,
         Looked(r.q, e.q, e.peek + 1)
  PROVE  Order(r, b)
<1>1. /\ DOMAIN e.list = 1 .. Len(e.list) /\ Len(e.list) \in Nat /\ e.cur \in Nat
      /\ e.peek \in Int
  BY Numbers
<1>2. e.peek = b + Len(e.list) - e.cur
  BY DEF Order
<1>3. ASSUME NEW i \in DOMAIN e.list PROVE e.list[i] = Peek(r.q, i - e.cur + b)
  <2> DEFINE j == i - e.cur + b
  <2>1. j \in Int /\ j < e.peek + 1
    BY <1>1, <1>2
  <2>2. e.list[i] = Peek(e.q, j)
    BY DEF Order
  <2> HIDE DEF j
  <2>3. Peek(r.q, j) = Peek(e.q, j)
    BY <2>1 DEF Looked
  <2> QED BY <2>2, <2>3 DEF j
<1> QED BY <1>2, <1>3 DEF Order

LEMMA HeardLooked ==
  ASSUME NEW e, NEW r, r.playing = e.playing, Heard(e),
         NEW k \in Nat, Looked(r.q, e.q, k)
  PROVE  Heard(r)
<1> SUFFICES ASSUME e.playing # None PROVE Peek(r.q, 0) = Peek(e.q, 0)
  BY DEF Heard
<1>1. CASE k = 0
  BY <1>1 DEF Looked, Heard
<1>2. CASE k # 0
  <2>1. 0 < k /\ 0 \in Int
    BY <1>2
  <2> QED BY <2>1 DEF Looked
<1> QED BY <1>1, <1>2

\* What a load leaves: the order, and, if there was none, a current track unless
\* there is nothing ahead.
Ahead(r, e) ==
    /\ e.cur # 0 => r.cur = e.cur /\ (Audio(r) <=> Audio(e))
    /\ e.cur = 0 =>
          IF Peek(e.q, e.peek + 1) = None
          THEN /\ r.cur = 0 /\ r.q = e.q /\ r.peek = e.peek
               /\ r.loading = e.loading /\ r.stat = "nomore"
          ELSE /\ r.cur = 1 /\ ~Audio(r) /\ r.loading = "reading" /\ r.stat = "ok"

LEMMA LoadedWaits ==
  ASSUME NEW e, Fit(e), NEW b \in {0, 1}, Order(e, b), Told(e),
         e.loading # "no", NEW r, Parked(r, e)
  PROVE  /\ Order(r, b) /\ Told(r) /\ Roomy(r) /\ Ahead(r, e)
         /\ Heard(e) => Heard(r)
         /\ Alone(e) => Alone(r)
<1>1. /\ r.q = e.q /\ r.list = e.list /\ r.cur = e.cur /\ r.peek = e.peek
      /\ r.loading = e.loading /\ r.playing = e.playing /\ r.filling # "full"
  BY DEF Parked, Only, Fields
<1>2. e.cur # 0
  BY DEF Fit
<1>3. Told(r) /\ Roomy(r)
  BY <1>1 DEF Parked, Told, Roomy
<1>4. Audio(r) <=> Audio(e)
  BY <1>1, AudioIs
<1>5. Order(r, b) /\ (Heard(e) => Heard(r))
  BY <1>1, OrderKept, HeardKept
<1>6. Alone(e) => Alone(r)
  BY <1>1, <1>4 DEF Alone
<1> QED BY <1>1, <1>2, <1>3, <1>4, <1>5, <1>6 DEF Ahead

\* A track is appended.
LEMMA OrderMore ==
  ASSUME NEW e, Fit(e), NEW b \in {0, 1}, Order(e, b), NEW r,
         Looked(r.q, e.q, e.peek + 1), Peek(r.q, e.peek + 1) # None,
         r.list = Append(e.list, Peek(r.q, e.peek + 1)),
         r.cur = (IF e.cur = 0 THEN 1 ELSE e.cur), r.peek = e.peek + 1
  PROVE  Order(r, b) /\ (e.cur = 0 => e.peek = b - 1)
<1> DEFINE n == Len(e.list)
           t == Peek(r.q, e.peek + 1)
<1>1. /\ e.list \in Seq(Tracks) /\ DOMAIN e.list = 1 .. n /\ n \in Nat
      /\ e.cur \in Nat /\ e.peek \in Int /\ (e.cur = 0 <=> n = 0)
  BY Numbers
<1>2. e.cur # 0 => e.peek = b + n - e.cur
  BY DEF Order
<1>3. e.cur = 0 => e.peek = b - 1
  <2>1. Peek(e.q, e.peek + 1) # None
    BY DEF Looked
  <2>2. e.peek = 0 => e.peek + 1 = 1
    OBVIOUS
  <2> QED BY <2>1, <2>2 DEF Order
<1>4. e.peek + 1 = b + (n + 1) - r.cur
  BY <1>1, <1>2, <1>3
<1> HIDE DEF t
<1>5. /\ Len(r.list) = n + 1 /\ DOMAIN r.list = 1 .. n + 1 /\ r.list[n + 1] = t
      /\ \A i \in 1 .. n : r.list[i] = e.list[i]
  BY <1>1 DEF t
<1>6. ASSUME NEW i \in 1 .. n PROVE r.list[i] = Peek(r.q, i - r.cur + b)
  <2> DEFINE j == i - r.cur + b
  <2>1. e.cur # 0 /\ r.cur = e.cur
    BY <1>1
  <2>2. j \in Int /\ j < e.peek + 1
    BY <1>1, <1>2, <2>1
  <2>3. e.list[i] = Peek(e.q, j)
    BY <1>1, <2>1 DEF Order
  <2> HIDE DEF j
  <2>4. Peek(r.q, j) = Peek(e.q, j)
    BY <2>2 DEF Looked
  <2> QED BY <1>5, <2>3, <2>4 DEF j
<1>7. r.list[n + 1] = Peek(r.q, (n + 1) - r.cur + b)
  <2>1. (n + 1) - r.cur + b = e.peek + 1
    BY <1>1, <1>4
  <2> QED BY <1>5, <2>1 DEF t
<1>8. \A i \in 1 .. n + 1 : i \in 1 .. n \/ i = n + 1
  BY <1>1
<1>9. \A i \in DOMAIN r.list : r.list[i] = Peek(r.q, i - r.cur + b)
  BY <1>5, <1>6, <1>7, <1>8
<1>10. r.cur # 0
  OBVIOUS
<1>11. r.peek = b + Len(r.list) - r.cur
  BY <1>4, <1>5
<1> QED BY <1>3, <1>9, <1>10, <1>11 DEF Order

LEMMA LoadedSeeks ==
  ASSUME Calm, NEW e, Fit(e), NEW b \in {0, 1}, Order(e, b),
         e.loading = "no", NEW r, Fit(r), Seeks(r, e)
  PROVE  /\ Order(r, b) /\ Told(r) /\ Roomy(r) /\ Ahead(r, e)
         /\ Heard(e) => Heard(r)
         /\ Alone(e) => Alone(r)
<1> DEFINE n == Len(e.list)
           k == e.peek + 1
<1>1. /\ e.list \in Seq(Tracks) /\ n \in Nat /\ e.cur \in Nat /\ e.cur <= n
      /\ e.peek \in Int /\ (e.cur = 0 <=> n = 0)
  BY Numbers
<1>2. e.peek >= -1 /\ k \in Nat
  <2>1. e.cur # 0 => e.peek >= 0
    BY <1>1 DEF Order
  <2>2. e.cur = 0 => e.peek >= -1
    BY DEF Order
  <2> QED BY <1>1, <2>1, <2>2
<1>3. Looked(r.q, e.q, k) /\ r.playing = e.playing /\ r.inbox = e.inbox
  BY <1>2 DEF Seeks, Only, Fields
<1>4. MaxBuffered >= 1
  BY BoundAssumption
<1>5. Heard(e) => Heard(r)
  <2> HIDE DEF k
  <2> QED BY <1>2, <1>3, HeardLooked
<1>6. Audio(e) <=> e.cur # 0
  BY AudioIs
<1>7. ASSUME Peek(r.q, k) = None, r.q = e.q, r.list = e.list, r.cur = e.cur,
             r.loading = "no", r.peek = e.peek, r.stat = "nomore"
      PROVE  Order(r, b) /\ Told(r) /\ Roomy(r) /\ Ahead(r, e) /\ Alone(r)
  <2>1. Order(r, b)
    BY <1>7, OrderKept
  <2>2. Audio(r) <=> r.cur # 0
    BY <1>7, AudioIs
  <2>3. Told(r) /\ Alone(r)
    BY <1>7, <2>2 DEF Told, Alone
  <2>4. Roomy(r)
    BY <1>7 DEF Roomy
  <2> QED BY <1>6, <1>7, <2>1, <2>2, <2>3, <2>4 DEF Ahead
<1>8. ASSUME Peek(r.q, k) \in Tracks, n >= MaxBuffered, r.list = e.list,
             r.cur = e.cur, r.loading = "no", r.peek = e.peek
      PROVE  Order(r, b) /\ Told(r) /\ Roomy(r) /\ Ahead(r, e) /\ Alone(r)
  <2>1. e.cur # 0
    BY <1>1, <1>4, <1>8, BoundAssumption
  <2>2. Order(r, b)
    BY <1>3, <1>8, <2>1, OrderLooked
  <2>3. Audio(r) <=> r.cur # 0
    BY <1>8, AudioIs
  <2>4. Told(r) /\ Alone(r)
    BY <1>8, <2>3 DEF Told, Alone
  <2>5. Roomy(r)
    BY <1>8 DEF Roomy
  <2> QED BY <1>6, <1>8, <2>1, <2>2, <2>3, <2>4, <2>5 DEF Ahead
<1>9. ASSUME Peek(r.q, k) \in Tracks,
             r.list = Append(e.list, Peek(r.q, k)),
             r.cur = (IF e.cur = 0 THEN 1 ELSE e.cur),
             r.loading = "reading", r.peek = k, r.filling = "filling", r.stat = "ok"
      PROVE  Order(r, b) /\ Told(r) /\ Roomy(r) /\ Ahead(r, e) /\ Alone(r)
  <2>1. Peek(r.q, k) # None
    BY <1>9, NoneAssumption
  <2>2. Order(r, b)
    BY <1>3, <1>9, <2>1, OrderMore
  <2>3. Len(r.list) = n + 1
    BY <1>1, <1>9
  <2>4. Audio(r) <=> r.cur # n + 1 /\ r.cur # 0
    BY <1>9, <2>3, AudioIs
  <2>5. e.cur # 0 => Audio(r)
    BY <1>1, <1>9, <2>4
  <2>6. e.cur = 0 => ~Audio(r) /\ Len(r.list) = 1
    BY <1>1, <1>9, <2>3, <2>4
  <2>7. Told(r) /\ Roomy(r)
    BY <1>9 DEF Told, Roomy
  <2>8. Alone(r)
    BY <2>5, <2>6 DEF Alone
  <2>9. Peek(e.q, k) # None
    BY <1>3, <2>1 DEF Looked
  <2> QED BY <1>6, <1>9, <2>2, <2>5, <2>6, <2>7, <2>8, <2>9 DEF Ahead
<1> QED BY <1>2, <1>5, <1>7, <1>8, <1>9 DEF Seeks

-----------------------------------------------------------------------------
(* Filling and rebuffering.                                                *)

BufferFields == {"q", "hung", "inbox", "loading", "list", "cur", "peek", "filling",
                 "stat"}

LEMMA Filled ==
  ASSUME NEW p \in BOOLEAN, NEW e, Sound(e, p)
  PROVE  LET r == Fill(e)
         IN  /\ Sound(r, p) /\ Only(r, e, BufferFields) /\ Alike(r, e, {"finish"})
             /\ e.status # "stopped" => r = LoadTrack(e)
             /\ r.stat = "ok" => r.cur # 0 /\ e.status # "stopped"
             /\ AllOk(file) => r.q = e.q
<1> DEFINE r == Fill(e)
<1>1. CASE e.status = "stopped"
  <2>1. r = WithStat(e, "failed")
    BY <1>1 DEF Fill, WithStat
  <2> HIDE DEF r
  <2>2. Sound(r, p) /\ r.stat = "failed" /\ Only(r, e, {"stat"})
    BY <2>1, StatSet
  <2>3. Only(r, e, BufferFields) /\ r.inbox = e.inbox /\ r.q = e.q
    BY <2>2 DEF Only, Fields, BufferFields
  <2> QED BY <1>1, <2>2, <2>3 DEF Alike, r
<1>2. CASE e.status # "stopped" /\ e.loading # "no"
  <2>1. r = LoadTrack(e)
    BY <1>2 DEF Fill
  <2> HIDE DEF r
  <2>2. Sound(r, p) /\ Parked(r, e)
    BY <1>2, <2>1, LoadTrackWaits
  <2>3. Only(r, e, BufferFields) /\ r.cur = e.cur /\ r.q = e.q
    BY <2>2 DEF Parked, Only, Fields, BufferFields
  <2>4. e.cur # 0
    BY <1>2 DEF Sound, Fit
  <2> QED BY <1>2, <2>1, <2>2, <2>3, <2>4 DEF Parked, r
<1>3. CASE e.status # "stopped" /\ e.loading = "no"
  <2>1. r = LoadTrack(e)
    BY <1>3 DEF Fill
  <2> HIDE DEF r
  <2>2. Sound(r, p) /\ Seeks(r, e)
    BY <1>3, <2>1, LoadTrackSeeks
  <2>3. Only(r, e, BufferFields) /\ r.inbox = e.inbox
    BY <2>2 DEF Seeks, Only, Fields, BufferFields
  <2>4. r.stat = "ok" => r.cur # 0
    <3>1. /\ Len(e.list) \in Nat /\ (e.cur = 0 <=> Len(e.list) = 0)
      BY Numbers DEF Sound
    <3> QED BY <2>2, <3>1, BoundAssumption DEF Seeks
  <2>5. Alike(r, e, {"finish"}) /\ (AllOk(file) => r.q = e.q)
    BY <2>2, <2>3 DEF Alike, Seeks
  <2> QED BY <1>3, <2>1, <2>2, <2>3, <2>4, <2>5 DEF r
<1> QED BY <1>1, <1>2, <1>3

LEMMA FilledInOrder ==
  ASSUME Calm, NEW p \in BOOLEAN, NEW e, Sound(e, p), e.status # "stopped",
         NEW b \in {0, 1}, Order(e, b), Told(e)
  PROVE  LET r == Fill(e)
         IN  /\ Order(r, b) /\ Told(r) /\ Roomy(r) /\ Ahead(r, e)
             /\ Heard(e) => Heard(r)
             /\ Alone(e) => Alone(r)
<1> DEFINE r == Fill(e)
<1>1. r = LoadTrack(e) /\ Fit(e) /\ Sound(r, p) /\ Fit(r)
  BY Filled DEF Sound
<1> HIDE DEF r
<1>2. CASE e.loading # "no"
  <2>1. Parked(r, e)
    BY <1>1, <1>2, LoadTrackWaits
  <2> QED BY <1>1, <1>2, <2>1, LoadedWaits DEF r
<1>3. CASE e.loading = "no"
  <2>1. Seeks(r, e)
    BY <1>1, <1>3, LoadTrackSeeks
  <2> QED BY <1>1, <1>3, <2>1, LoadedSeeks DEF r
<1> QED BY <1>2, <1>3

LEMMA Cleared ==
  ASSUME NEW p \in BOOLEAN, NEW e, Sound(e, p), NEW keep \in {"none", "new", "current"}
  PROVE  LET c == Clear(e, keep)
         IN  /\ Sound(c, p) /\ Only(c, e, {"inbox", "loading", "list", "cur"})
             /\ Alike(c, e, {"finish"})
<1> DEFINE c == Clear(e, keep)
           Wanted(x) == /\ Sound(x, p) /\ Only(x, e, {"inbox", "loading", "list", "cur"})
                        /\ Alike(x, e, {"finish"})
<1>1. CASE keep = "none" \/ e.cur = 0
  <2>1. c = Clear(e, "none")
    BY <1>1 DEF Clear
  <2> HIDE DEF c
  <2> QED BY <2>1, ClearNone DEF c
<1>2. CASE keep = "new" /\ e.cur # 0
  <2> HIDE DEF c
  <2>1. Sound(c, p) /\ Only(c, e, {"list", "cur"})
    BY <1>2, ClearNew DEF c
  <2>2. Only(c, e, {"inbox", "loading", "list", "cur"}) /\ c.inbox = e.inbox
    BY <2>1 DEF Only, Fields
  <2> QED BY <2>1, <2>2 DEF Alike, c
<1>3. CASE keep = "current" /\ e.cur # 0
  <2> HIDE DEF c
  <2> QED BY <1>3, ClearCurrent DEF c
<1> QED BY <1>1, <1>2, <1>3

LEMMA Rebuffered ==
  ASSUME NEW p \in BOOLEAN, NEW e, Sound(e, p), NEW keep \in {"none", "new", "current"},
         NEW k \in Int
  PROVE  LET r == Rebuffer(e, keep, k)
         IN  /\ Sound(r, p) /\ Only(r, e, BufferFields) /\ Alike(r, e, {"finish"})
             /\ AllOk(file) => r.q = e.q
             /\ r = Fill(WithPeek(Clear(e, keep), k))
<1> DEFINE c == Clear(e, keep)
           w == WithPeek(c, k)
           r == Rebuffer(e, keep, k)
<1>1. r = Fill(w)
  BY DEF Rebuffer, WithPeek
<1>2. /\ Sound(c, p) /\ Only(c, e, {"inbox", "loading", "list", "cur"})
      /\ Alike(c, e, {"finish"})
  BY Cleared
<1> HIDE DEF c
<1>3. Sound(w, p) /\ Only(w, c, {"peek"})
  BY <1>2, PeekSet
<1> HIDE DEF w, r
<1>4. /\ Sound(r, p) /\ Only(r, w, BufferFields) /\ Alike(r, w, {"finish"})
      /\ (AllOk(file) => r.q = w.q)
  BY <1>1, <1>3, Filled
<1>5. Only(r, e, BufferFields) /\ w.inbox = c.inbox /\ w.q = e.q
  BY <1>2, <1>3, <1>4 DEF Only, Fields, BufferFields
<1>6. Alike(r, e, {"finish"})
  BY <1>2, <1>4, <1>5 DEF Alike
<1> QED BY <1>1, <1>4, <1>5, <1>6 DEF r, w, c

\* A fresh start, with the entry b after the position.
LEMMA Restarted ==
  ASSUME Calm, NEW p \in BOOLEAN, NEW e, Sound(e, p), e.status # "stopped",
         NEW b \in {0, 1}, NEW k \in Int, k = b - 1
  PROVE  LET r == Rebuffer(e, "none", k)
         IN  /\ Order(r, b) /\ Told(r) /\ Roomy(r) /\ Alone(r)
             /\ Heard(e) => Heard(r)
             /\ IF Peek(e.q, b) = None
                THEN /\ r.cur = 0 /\ r.q = e.q /\ r.peek = k
                     /\ r.loading = "no" /\ r.stat = "nomore"
                ELSE r.cur = 1 /\ ~Audio(r) /\ r.loading = "reading" /\ r.stat = "ok"
<1> DEFINE none == "none"
           c == Clear(e, none)
           w == WithPeek(c, k)
           r == Rebuffer(e, none, k)
<1>1. r = Fill(w)
  BY Rebuffered
<1>2. /\ Sound(c, p) /\ c.list = <<>> /\ c.cur = 0 /\ c.loading = "no"
      /\ Only(c, e, {"inbox", "loading", "list", "cur"})
  BY ClearNone
<1> HIDE DEF c
<1>3. Sound(w, p) /\ Only(w, c, {"peek"}) /\ w.peek = k
  BY <1>2, PeekSet
<1> HIDE DEF w, r
<1>4. /\ w.cur = 0 /\ w.loading = "no" /\ w.list = <<>> /\ w.q = e.q
      /\ w.status # "stopped" /\ w.playing = e.playing
  BY <1>2, <1>3 DEF Only, Fields
<1>5. DOMAIN w.list = {}
  BY <1>4
<1>6. Order(w, b) /\ Told(w) /\ Alone(w)
  <2>1. Order(w, b)
    <3>1. w.peek = b - 1 /\ w.cur = 0
      BY <1>3, <1>4
    <3> QED BY <1>5, <3>1 DEF Order
  <2>2. Told(w) /\ Alone(w)
    BY <1>4 DEF Told, Alone
  <2> QED BY <2>1, <2>2
<1>7. /\ Order(r, b) /\ Told(r) /\ Roomy(r) /\ Alone(r) /\ Ahead(r, w)
      /\ Heard(w) => Heard(r)
  BY <1>1, <1>3, <1>4, <1>6, FilledInOrder
<1>8. Heard(e) => Heard(w)
  BY <1>4, HeardKept
<1>9. k + 1 = b
  OBVIOUS
<1>10. IF Peek(e.q, b) = None
       THEN /\ r.cur = 0 /\ r.q = e.q /\ r.peek = k /\ r.loading = "no"
            /\ r.stat = "nomore"
       ELSE r.cur = 1 /\ ~Audio(r) /\ r.loading = "reading" /\ r.stat = "ok"
  BY <1>3, <1>4, <1>7, <1>9 DEF Ahead
<1> QED BY <1>7, <1>8, <1>10 DEF r

\* The current track is kept, and those after it are loaded again.
LEMMA Reordered ==
  ASSUME Calm, NEW p \in BOOLEAN, NEW e, Sound(e, p), e.status # "stopped",
         NEW b \in {0, 1}, Order(e, b), Told(e), e.cur # 0
  PROVE  LET r == Rebuffer(e, "current", b)
         IN  /\ Order(r, b) /\ Told(r) /\ Roomy(r) /\ Alone(r)
             /\ Heard(e) => Heard(r)
             /\ r.cur # 0 /\ (Audio(r) <=> Audio(e))
<1> DEFINE keep == "current"
           c == Clear(e, keep)
           w == WithPeek(c, b)
           r == Rebuffer(e, keep, b)
<1>1. r = Fill(w) /\ b \in Int
  BY Rebuffered
<1>2. /\ Sound(c, p) /\ c.cur = 1 /\ c.list = <<e.list[e.cur]>>
      /\ Only(c, e, {"inbox", "loading", "list", "cur"})
      /\ e.cur = Len(e.list) => c.loading = e.loading /\ c.inbox = e.inbox
      /\ e.cur # Len(e.list) => c.loading = "no"
  BY ClearCurrent
<1> HIDE DEF c
<1>3. Sound(w, p) /\ Only(w, c, {"peek"}) /\ w.peek = b
  BY <1>1, <1>2, PeekSet
<1> HIDE DEF w, r
<1>4. /\ w.cur = 1 /\ w.loading = c.loading /\ w.list = <<e.list[e.cur]>>
      /\ w.q = e.q /\ w.status # "stopped" /\ w.playing = e.playing
      /\ w.inbox = c.inbox /\ w.filling = e.filling
  BY <1>2, <1>3 DEF Only, Fields
<1>5. DOMAIN w.list = {1} /\ Len(w.list) = 1 /\ w.list[1] = e.list[e.cur]
  BY <1>4
<1>6. e.list[e.cur] = Peek(e.q, b)
  <2>1. e.cur \in DOMAIN e.list /\ e.cur - e.cur + b = b
    BY Numbers DEF Sound
  <2> QED BY <2>1 DEF Order
<1>7. Order(w, b)
  <2>1. 1 - w.cur + b = b /\ w.peek = b + Len(w.list) - w.cur
    BY <1>3, <1>4, <1>5
  <2>2. w.list[1] = Peek(w.q, 1 - w.cur + b)
    BY <1>4, <1>5, <1>6, <2>1
  <2> QED BY <1>4, <1>5, <2>1, <2>2 DEF Order
<1>8. Told(w) /\ Alone(w)
  <2>1. Told(w)
    BY <1>2, <1>4 DEF Told
  <2> QED BY <1>5, <2>1 DEF Alone
<1>9. Audio(w) <=> Audio(e)
  <2>1. Audio(w) <=> w.loading = "no"
    <3>1. w.cur # 0 /\ w.cur = Len(w.list)
      BY <1>4, <1>5
    <3> QED BY <3>1, AudioIs
  <2>2. Audio(e) <=> e.loading = "no" \/ e.cur # Len(e.list)
    BY AudioIs
  <2> QED BY <1>2, <1>4, <2>1, <2>2
<1>10. /\ Order(r, b) /\ Told(r) /\ Roomy(r) /\ Alone(r) /\ Ahead(r, w)
       /\ Heard(w) => Heard(r)
  BY <1>1, <1>3, <1>4, <1>7, <1>8, FilledInOrder
<1>11. Heard(e) => Heard(w)
  BY <1>4, HeardKept
<1>12. r.cur # 0 /\ (Audio(r) <=> Audio(e))
  BY <1>4, <1>9, <1>10 DEF Ahead
<1> QED BY <1>10, <1>11, <1>12 DEF r

\* Finished tracks are freed.
LEMMA Relieved ==
  ASSUME Calm, NEW p \in BOOLEAN, NEW e, Sound(e, p), e.status # "stopped",
         NEW b \in {0, 1}, Order(e, b), Told(e), Alone(e), e.cur # 0,
         NEW k \in Int, k = e.peek
  PROVE  LET r == Rebuffer(e, "new", k)
         IN  /\ Order(r, b) /\ Told(r) /\ Roomy(r) /\ Alone(r)
             /\ Heard(e) => Heard(r)
             /\ r.cur # 0 /\ (Audio(r) <=> Audio(e))
<1> DEFINE keep == "new"
           c == Clear(e, keep)
           w == WithPeek(c, k)
           r == Rebuffer(e, keep, k)
<1>1. r = Fill(w)
  BY Rebuffered
<1>2. /\ Sound(c, p) /\ c.cur = 1 /\ Len(c.list) = Len(e.list) - e.cur + 1
      /\ \A i \in DOMAIN c.list : /\ c.list[i] = e.list[e.cur + i - 1]
                                  /\ e.cur + i - 1 \in DOMAIN e.list
      /\ Only(c, e, {"list", "cur"})
  BY ClearNew
<1> HIDE DEF c
<1>3. Sound(w, p) /\ Only(w, c, {"peek"}) /\ w.peek = e.peek
  BY <1>2, PeekSet
<1> HIDE DEF w, r
<1>4. /\ w.cur = 1 /\ w.loading = e.loading /\ w.list = c.list
      /\ w.q = e.q /\ w.status # "stopped" /\ w.playing = e.playing
      /\ w.inbox = e.inbox /\ w.filling = e.filling
  BY <1>2, <1>3 DEF Only, Fields
<1>5. /\ Len(e.list) \in Nat /\ e.cur \in Nat /\ e.cur <= Len(e.list)
      /\ e.peek \in Int /\ DOMAIN e.list = 1 .. Len(e.list)
  BY Numbers DEF Sound
<1>6. Len(w.list) \in Nat /\ DOMAIN w.list = 1 .. Len(w.list)
  BY <1>3, Numbers DEF Sound
<1>7. e.peek = b + Len(e.list) - e.cur
  BY DEF Order
<1>8. ASSUME NEW i \in DOMAIN w.list PROVE w.list[i] = Peek(w.q, i - w.cur + b)
  <2> DEFINE j == e.cur + i - 1
  <2>1. j \in DOMAIN e.list /\ w.list[i] = e.list[j]
    BY <1>2, <1>4
  <2>2. j - e.cur + b = i - w.cur + b
    BY <1>4, <1>5, <1>6
  <2> HIDE DEF j
  <2> QED BY <1>4, <2>1, <2>2 DEF Order
<1>9. Order(w, b)
  <2>1. w.peek = b + Len(w.list) - w.cur
    BY <1>2, <1>3, <1>4, <1>5, <1>7
  <2> QED BY <1>4, <1>8, <2>1 DEF Order
<1>10. Audio(w) <=> Audio(e)
  BY <1>2, <1>4, <1>5, AudioIs
<1>11. Told(w) /\ Alone(w)
  <2>1. Told(w)
    BY <1>4 DEF Told
  <2>2. ~Audio(e) => e.cur = Len(e.list)
    BY AudioIs
  <2>3. ~Audio(w) => Len(w.list) = 1
    <3>1. Len(w.list) = Len(e.list) - e.cur + 1
      BY <1>2, <1>4
    <3>2. e.cur = Len(e.list) => Len(w.list) = 1
      BY <1>5, <3>1
    <3> QED BY <1>10, <2>2, <3>2
  <2> QED BY <2>1, <2>3 DEF Alone
<1>12. /\ Order(r, b) /\ Told(r) /\ Roomy(r) /\ Alone(r) /\ Ahead(r, w)
       /\ Heard(w) => Heard(r)
  BY <1>1, <1>3, <1>4, <1>9, <1>11, FilledInOrder
<1>13. Heard(e) => Heard(w)
  BY <1>4, HeardKept
<1>14. r.cur # 0 /\ (Audio(r) <=> Audio(e))
  BY <1>4, <1>10, <1>12 DEF Ahead
<1> QED BY <1>12, <1>13, <1>14 DEF r

-----------------------------------------------------------------------------
(* While the engine runs: what it plays, and what is under way.            *)

\* The codec is done with the current track.
Done(e) == e.late \/ In(e.inbox, "complete")

Buffer(e, b) == Order(e, b) /\ Heard(e) /\ Alone(e) /\ Roomy(e)

\* A change has begun only with a mark in the PCM; the codec has the audio of its
\* track; it is done with a track once, and without a track only at the end.
Steady(e) ==
    /\ e.skip # "newlist"
    /\ e.skip # "none" => e.mark # "none"
    /\ e.late /\ e.status = "playing" => e.skip # "none"
    /\ e.codec = "decoding" => Audio(e) /\ ~Done(e)
    /\ Done(e) /\ e.cur = 0 => Peek(e.q, e.peek + 1) = None
    /\ Done(e) /\ e.cur # 0 => /\ Audio(e) /\ Once(e.inbox, "complete")
                               /\ ~(e.late /\ In(e.inbox, "complete"))
    /\ AllOk(file) => e.cur # 0

Awake(e) ==
    \/ e.codec = "decoding" \/ Done(e) \/ e.skip = "endlist"
    \/ e.cur # 0 /\ ~Audio(e)
    \/ e.cur = 0 /\ In(e.inbox, "fill")

Good(e) == Buffer(e, Behind(e)) /\ Told(e) /\ Steady(e) /\ Awake(e)

LEMMA BehindIs ==
  ASSUME NEW e
  PROVE  /\ Behind(e) \in {0, 1} /\ (e.skip = "auto" <=> Behind(e) = 1)
         /\ \A r : r.skip = e.skip => Behind(r) = Behind(e)
BY DEF Behind

\* r is e as far as the change of tracks goes.
Likewise(r, e) ==
    /\ r.skip = e.skip /\ r.mark = e.mark /\ r.late = e.late /\ r.status = e.status
    /\ r.codec = e.codec
    /\ In(r.inbox, "complete") <=> In(e.inbox, "complete")
    /\ Once(e.inbox, "complete") => Once(r.inbox, "complete")

LEMMA SteadyKept ==
  ASSUME NEW e, NEW r, Steady(e), Likewise(r, e),
         e.cur # 0 => r.cur # 0 /\ (Audio(r) <=> Audio(e)),
         e.cur = 0 /\ Done(e) => r.cur = 0 /\ Peek(r.q, r.peek + 1) = None
  PROVE  Steady(r)
<1>1. Done(r) <=> Done(e)
  BY DEF Done, Likewise
<1>2. Audio(e) => e.cur # 0
  BY AudioIs
<1>3. /\ r.skip # "newlist" /\ (r.skip # "none" => r.mark # "none")
      /\ (r.late /\ r.status = "playing" => r.skip # "none")
  BY DEF Steady, Likewise
<1>4. r.codec = "decoding" => Audio(r) /\ ~Done(r)
  BY <1>1, <1>2 DEF Steady, Likewise
<1>5. Done(r) /\ r.cur = 0 => Peek(r.q, r.peek + 1) = None
  BY <1>1
<1>6. Done(r) /\ r.cur # 0 => /\ Audio(r) /\ Once(r.inbox, "complete")
                              /\ ~(r.late /\ In(r.inbox, "complete"))
  BY <1>1 DEF Steady, Likewise
<1>7. AllOk(file) => r.cur # 0
  BY DEF Steady
<1> QED BY <1>3, <1>4, <1>5, <1>6, <1>7 DEF Steady

LEMMA AwakeKept ==
  ASSUME NEW e, NEW r, Awake(e), Likewise(r, e),
         e.cur # 0 => r.cur # 0 /\ (Audio(r) <=> Audio(e)),
         e.cur = 0 /\ In(e.inbox, "fill")
            => (r.cur = 0 /\ In(r.inbox, "fill")) \/ Awake(r)
  PROVE  Awake(r)
BY DEF Awake, Likewise, Done

\* What is not about the buffer may change.
LEMMA GoodKept ==
  ASSUME NEW e, NEW r, Good(e), Likewise(r, e),
         r.q = e.q, r.list = e.list, r.cur = e.cur, r.peek = e.peek,
         r.playing = e.playing, r.loading # "no" <=> e.loading # "no", Told(r),
         r.filling = "full" => e.filling = "full",
         In(e.inbox, "fill") => In(r.inbox, "fill")
  PROVE  Good(r)
<1>1. r.loading = "no" <=> e.loading = "no"
  OBVIOUS
<1>2. Audio(r) <=> Audio(e)
  BY <1>1, AudioIs
<1>3. Behind(r) = Behind(e)
  BY BehindIs DEF Likewise
<1>4. Buffer(r, Behind(r))
  <2>1. Order(r, Behind(r)) /\ Heard(r)
    BY <1>3, OrderKept, HeardKept DEF Good, Buffer
  <2>2. Alone(r) /\ Roomy(r)
    BY <1>2 DEF Alone, Roomy, Good, Buffer
  <2> QED BY <2>1, <2>2 DEF Buffer
<1>5. Steady(r)
  <2>1. e.cur = 0 /\ Done(e) => Peek(e.q, e.peek + 1) = None
    BY DEF Good, Steady
  <2> QED BY <1>2, <2>1, SteadyKept DEF Good
<1>6. Awake(r)
  BY <1>2, AwakeKept DEF Good
<1> QED BY <1>4, <1>5, <1>6 DEF Good

-----------------------------------------------------------------------------
(* The messages of the buffer: fill and finish.                            *)

LEMMA LoadFailedIs ==
  ASSUME NEW p \in BOOLEAN, NEW e, Sound(e, p),
         e.status # "stopped" \/ e.stat # "nomore"
  PROVE  LET r == LoadFailed(e)
         IN  /\ Sound(r, p) /\ Only(r, e, {"inbox"}) /\ Alike(r, e, {"complete"})
             /\ e.stat = "nomore" /\ e.list = <<>> => In(r.inbox, "complete")
             /\ e.stat # "nomore" \/ e.list # <<>> => r = e
<1>1. CASE e.stat = "nomore" /\ e.list = <<>>
  <2>1. LoadFailed(e) = Post(e, "complete") /\ "complete" \in Messages
    BY <1>1 DEF LoadFailed, Messages
  <2> DEFINE m == "complete"
             r == Post(e, m)
  <2>2. m \in Messages /\ m # "finish" /\ m # "seek"
    BY <2>1
  <2>3. Sound(r, p) /\ Only(r, e, {"inbox"}) /\ Alike(r, e, {m}) /\ In(r.inbox, m)
    <3> HIDE DEF m
    <3> QED BY <1>1, <2>2, Posted
  <2> QED BY <1>1, <2>1, <2>3
<1>2. CASE ~(e.stat = "nomore" /\ e.list = <<>>)
  <2>1. LoadFailed(e) = e
    BY <1>2 DEF LoadFailed
  <2>2. Only(e, e, {"inbox"}) /\ Alike(e, e, {"complete"})
    BY DEF Only, Alike
  <2> QED BY <1>2, <2>1, <2>2
<1> QED BY <1>1, <1>2

LEMMA SoundFill ==
  ASSUME NEW p \in BOOLEAN, NEW e, Sound(e, p)
  PROVE  Sound(LoadFailed(Fill(e)), p)
<1> DEFINE f == Fill(e)
<1>1. Sound(f, p) /\ f.status = e.status
  BY Filled DEF Only, Fields, BufferFields
<1>2. f.status # "stopped" \/ f.stat # "nomore"
  <2>1. e.status = "stopped" => f = WithStat(e, "failed")
    BY DEF Fill, WithStat
  <2>2. WithStat(e, "failed").stat = "failed"
    BY StatSet
  <2> HIDE DEF f
  <2> QED BY <1>1, <2>1, <2>2
<1> HIDE DEF f
<1>3. Sound(LoadFailed(f), p)
  BY <1>1, <1>2, LoadFailedIs
<1> QED BY <1>3 DEF f

LEMMA GoodFill ==
  ASSUME Calm, NEW e, Sound(e, FALSE), e.status # "stopped", Buffer(e, Behind(e)),
         Told(e), Steady(e), e.cur # 0 => Awake(e)
  PROVE  Good(LoadFailed(Fill(e)))
<1> DEFINE p == FALSE
           b == Behind(e)
           f == Fill(e)
           r == LoadFailed(f)
<1>1. p \in BOOLEAN /\ b \in {0, 1}
  BY BehindIs
<1>2. /\ Sound(f, p) /\ Only(f, e, BufferFields) /\ Alike(f, e, {"finish"})
  BY <1>1, Filled
<1>3. /\ Order(f, b) /\ Told(f) /\ Roomy(f) /\ Ahead(f, e) /\ Heard(f) /\ Alone(f)
  <2> HIDE DEF p, b, f
  <2> QED BY <1>1, FilledInOrder DEF Buffer, p, b, f
<1> HIDE DEF f, p
<1>4. Likewise(f, e) /\ f.status # "stopped" /\ f.playing = e.playing
  BY <1>2 DEF Likewise, Only, Fields, BufferFields, Alike
<1>5. Behind(f) = b
  BY <1>4, BehindIs DEF Likewise
<1>6. /\ Sound(r, p) /\ Only(r, f, {"inbox"}) /\ Alike(r, f, {"complete"})
      /\ f.stat = "nomore" /\ f.list = <<>> => In(r.inbox, "complete")
      /\ f.stat # "nomore" \/ f.list # <<>> => r = f
  BY <1>1, <1>2, <1>4, LoadFailedIs
<1> HIDE DEF r
<1>7. f.cur = 0 <=> f.list = <<>>
  BY <1>2 DEF Sound, Fit
<1>8. Buffer(f, Behind(f))
  BY <1>3, <1>5 DEF Buffer
<1>9. CASE e.cur # 0
  <2>1. f.cur # 0 /\ (Audio(f) <=> Audio(e))
    BY <1>3, <1>9 DEF Ahead
  <2>2. Steady(f) /\ Awake(f)
    BY <1>4, <1>9, <2>1, SteadyKept, AwakeKept
  <2>3. Good(f)
    BY <1>3, <1>8, <2>2 DEF Good
  <2> QED BY <1>6, <1>7, <2>1, <2>3 DEF r, f
<1>10. CASE e.cur = 0 /\ Peek(e.q, e.peek + 1) # None
  <2>1. f.cur = 1 /\ ~Audio(f)
    BY <1>3, <1>10 DEF Ahead
  <2>2. Awake(f)
    BY <2>1 DEF Awake
  <2>3. ~Done(e)
    BY <1>10 DEF Steady
  <2>4. Steady(f)
    BY <1>4, <1>10, <2>3, SteadyKept
  <2>5. Good(f)
    BY <1>3, <1>8, <2>2, <2>4 DEF Good
  <2>6. f.list # <<>>
    BY <1>7, <2>1
  <2> QED BY <1>6, <2>5, <2>6 DEF r, f
<1>11. CASE e.cur = 0 /\ Peek(e.q, e.peek + 1) = None
  <2>1. f.cur = 0 /\ f.q = e.q /\ f.peek = e.peek /\ f.stat = "nomore"
    BY <1>3, <1>11 DEF Ahead
  <2>2. f.list = <<>> /\ In(r.inbox, "complete")
    BY <1>6, <1>7, <2>1
  <2>3. /\ r.q = f.q /\ r.list = f.list /\ r.cur = f.cur /\ r.peek = f.peek
        /\ r.playing = f.playing /\ r.loading = f.loading /\ r.filling = f.filling
        /\ r.skip = f.skip /\ r.mark = f.mark /\ r.late = f.late
        /\ r.status = f.status /\ r.codec = f.codec
    BY <1>6 DEF Only, Fields
  <2>4. Behind(r) = b
    BY <1>5, <2>3, BehindIs
  <2>5. Buffer(r, Behind(r))
    <3>1. Order(r, b) /\ Heard(r)
      BY <1>3, <2>3, OrderKept, HeardKept
    <3>2. Audio(r) <=> Audio(f)
      BY <2>3, AudioIs
    <3>3. Alone(r) /\ Roomy(r)
      BY <1>3, <2>3, <3>2 DEF Alone, Roomy
    <3> QED BY <2>4, <3>1, <3>3 DEF Buffer
  <2>6. Told(r)
    BY <1>3, <1>6, <2>3 DEF Told, Alike
  <2>7. Done(r) /\ Awake(r)
    BY <2>2 DEF Done, Awake
  <2>8. Steady(r)
    <3>1. ~Audio(e)
      BY <1>11, AudioIs
    <3> QED BY <1>4, <1>11, <2>1, <2>3, <3>1 DEF Steady, Likewise
  <2> QED BY <2>5, <2>6, <2>7, <2>8 DEF Good, r, f
<1> QED BY <1>9, <1>10, <1>11

-----------------------------------------------------------------------------
(* The metadata of the last track is there.                                *)

\* A bad track is thrown out: the buffer ends before it, and so may the queue.
Thrown(r, e) ==
    LET n == Len(e.list) - 1
    IN  /\ Only(r, e, {"q", "inbox", "loading", "list", "cur", "peek", "stat"})
        /\ Alike(r, e, {"finish", "fill"}) /\ In(r.inbox, "fill")
        /\ r.q = SkipEntry(e.q, e.peek) /\ r.peek = e.peek - 1
        /\ r.loading = "no" /\ Len(r.list) = n
        /\ r.cur = (IF e.cur > n THEN n ELSE e.cur)
        /\ \A i \in DOMAIN r.list : i \in DOMAIN e.list /\ r.list[i] = e.list[i]

LEMMA Discarded ==
  ASSUME NEW p \in BOOLEAN, NEW e, Sound(e, p), e.list # <<>>, ~AllOk(file)
  PROVE  LET r == Post(Discard(e), "fill")
         IN  Sound(r, p) /\ Thrown(r, e) /\ Discard(e).stat = "failed"
             /\ r.stat = "failed"
<1> DEFINE f == FreeLast(e)
           q == SkipEntry(e.q, e.peek)
           k == e.peek - 1
           x == WithQ(f, q)
           y == WithPeek(x, k)
           d == WithStat(y, "failed")
           m == "fill"
           r == Post(d, m)
           n == Len(e.list) - 1
<1>1. /\ Sound(f, p) /\ Len(f.list) = n /\ f.loading = "no"
      /\ f.cur = (IF e.cur > n THEN n ELSE e.cur)
      /\ \A i \in DOMAIN f.list : i \in DOMAIN e.list /\ f.list[i] = e.list[i]
      /\ Only(f, e, {"inbox", "loading", "list", "cur"})
      /\ Alike(f, e, {"finish"})
  BY Freed
<1>2. /\ e.peek \in Int /\ k \in Int /\ Sane(e.q)
  BY Numbers DEF Sound
<1>3. Sane(q) /\ q.repeat = e.q.repeat
  BY <1>2, SkipEntryIs
<1>4. Discard(e) = d
  <2>1. f.q = e.q /\ f.peek = e.peek /\ f \in Engine
    BY <1>1 DEF Only, Fields, Sound, Fit
  <2> QED BY <2>1 DEF Discard, WithQ, WithPeek, WithStat, Engine
<1>5. f.q.repeat = q.repeat
  BY <1>1, <1>3 DEF Only, Fields
<1> HIDE DEF f, q, k, n
<1>6. Sound(x, p) /\ x.q = q /\ Only(x, f, {"q"})
  BY <1>1, <1>3, <1>5, QSet
<1> HIDE DEF x
<1>7. Sound(y, p) /\ y.peek = k /\ Only(y, x, {"peek"})
  BY <1>2, <1>6, PeekSet
<1> HIDE DEF y
<1>8. Sound(d, p) /\ d.stat = "failed" /\ Only(d, y, {"stat"})
  BY <1>7, StatSet
<1> HIDE DEF d
<1>9. m \in Messages /\ m # "finish" /\ m # "complete" /\ m # "seek"
  BY DEF Messages
<1>10. Sound(r, p) /\ Only(r, d, {"inbox"}) /\ Alike(r, d, {m}) /\ In(r.inbox, m)
  <2> HIDE DEF m
  <2> QED BY <1>8, <1>9, Posted
<1> HIDE DEF r
<1>11. /\ Only(r, e, {"q", "inbox", "loading", "list", "cur", "peek", "stat"})
       /\ r.q = q /\ r.peek = k /\ r.loading = "no" /\ r.list = f.list
       /\ r.cur = f.cur /\ d.inbox = f.inbox /\ r.stat = "failed"
  BY <1>1, <1>6, <1>7, <1>8, <1>10 DEF Only, Fields
<1>12. Alike(r, e, {"finish", "fill"})
  BY <1>1, <1>10, <1>11 DEF Alike
<1>13. Thrown(r, e)
  BY <1>1, <1>10, <1>11, <1>12 DEF Thrown, q, k, n
<1> QED BY <1>4, <1>8, <1>10, <1>11, <1>13 DEF r

\* What the handler of the message leaves.
Finished(r, e) ==
    LET n == Len(e.list)
    IN  \/ file[e.list[n]] # "ok" /\ Thrown(r, e)
        \/ n > 1 /\ r.filling = "full" /\ Only(r, e, {"filling", "stat"})
        \/ /\ file[e.list[n]] = "ok" /\ e.cur # n /\ r.loading = "no"
           /\ Only(r, e, {"loading", "stat", "inbox"}) /\ Alike(r, e, {"fill"})
        \/ /\ file[e.list[n]] = "ok" /\ e.cur = n /\ r.loading = "no"
           /\ r.codec = "decoding"
           /\ r.playing = (IF Lead(e) = 0 THEN e.list[n] ELSE e.playing)
           /\ Only(r, e, {"loading", "stat", "inbox", "codec", "playing"})
           /\ Alike(r, e, {"fill"})

LEMMA FinishedIs ==
  ASSUME NEW p \in BOOLEAN, NEW e, Sound(e, p), e.loading = "read",
         e.filling # "full", ~In(e.inbox, "finish"), NEW full \in BOOLEAN
  PROVE  Sound(OnFinishLoad(e, full), p) /\ Finished(OnFinishLoad(e, full), e)
<1> DEFINE n == Len(e.list)
           t == e.list[n]
           r == OnFinishLoad(e, full)
           done == FinishLoad(e, full)
<1>1. /\ e.list \in Seq(Tracks) /\ n \in Nat /\ e.cur \in Nat /\ e.cur <= n
      /\ e.list # <<>> /\ n # 0 /\ DOMAIN e.list = 1 .. n
  BY Numbers DEF Sound, Fit
<1>2. t \in Tracks /\ t # None
  <2>1. n \in DOMAIN e.list
    BY <1>1
  <2> QED BY <1>1, <2>1, NoneAssumption
<1>3. e.status # "stopped"
  BY <1>1 DEF Sound, Fit
<1>4. Id3(e, n) = IF file[t] # "ok" THEN None ELSE t
  BY DEF Id3
<1>5. r = IF done.stat # "ready" THEN done
          ELSE [done EXCEPT !.codec = "decoding",
                     !.playing = IF Lead(e) = 0 THEN Id3(done, done.cur) ELSE @]
  BY DEF OnFinishLoad
<1> HIDE DEF t
<1>6. CASE file[t] # "ok"
  <2>1. ~AllOk(file)
    BY <1>2, <1>6 DEF AllOk
  <2> DEFINE u == Post(Discard(e), "fill")
  <2>2. done = u
    BY <1>4, <1>6 DEF FinishLoad
  <2>3. Sound(u, p) /\ Thrown(u, e) /\ u.stat = "failed"
    BY <1>1, <2>1, Discarded
  <2> HIDE DEF done, u, r
  <2>4. r = u
    BY <1>5, <2>2, <2>3
  <2>5. Finished(u, e)
    BY <1>6, <2>3 DEF Finished, t, n
  <2> QED BY <2>3, <2>4, <2>5 DEF r
<1>7. CASE file[t] = "ok" /\ full /\ n > 1
  <2> DEFINE f == WithFilling(e, "full")
             s == WithStat(f, "failed")
  <2>1. done = s
    BY <1>2, <1>4, <1>7 DEF FinishLoad, WithFilling, WithStat
  <2>2. Sound(f, p) /\ f.filling = "full" /\ Only(f, e, {"filling"})
    BY FillingSet
  <2> HIDE DEF f
  <2>3. Sound(s, p) /\ s.stat = "failed" /\ Only(s, f, {"stat"})
    BY <2>2, StatSet
  <2> HIDE DEF s, done, r
  <2>4. r = s
    BY <1>5, <2>1, <2>3
  <2>5. s.filling = "full" /\ Only(s, e, {"filling", "stat"})
    BY <2>2, <2>3 DEF Only, Fields
  <2>6. Finished(s, e)
    BY <1>7, <2>5 DEF Finished, n
  <2> QED BY <2>3, <2>4, <2>6 DEF r
<1>8. CASE file[t] = "ok" /\ ~(full /\ n > 1)
  <2> DEFINE stat == IF e.cur = n THEN "ready" ELSE "ok"
             l == WithLoading(e, "no")
             s == WithStat(l, stat)
             m == "fill"
             u == Post(s, m)
  <2>1. done = u
    BY <1>2, <1>4, <1>8 DEF FinishLoad, WithLoading, WithStat
  <2>2. Sound(l, p) /\ l.loading = "no" /\ Only(l, e, {"loading"})
    BY LoadingSet
  <2> HIDE DEF l
  <2>3. Sound(s, p) /\ s.stat = stat /\ Only(s, l, {"stat"})
    <3>1. stat \in {"ok", "ready", "busy", "failed", "nomore"}
      OBVIOUS
    <3> HIDE DEF stat
    <3> QED BY <2>2, <3>1, StatSet
  <2> HIDE DEF s
  <2>4. m \in Messages /\ m # "finish" /\ m # "complete" /\ m # "seek"
    BY DEF Messages
  <2>5. Sound(u, p) /\ Only(u, s, {"inbox"}) /\ Alike(u, s, {m})
    <3> HIDE DEF m, stat
    <3> QED BY <2>3, <2>4, Posted
  <2> HIDE DEF u
  <2>6. /\ Only(u, e, {"loading", "stat", "inbox"}) /\ u.loading = "no"
        /\ u.stat = stat /\ s.inbox = e.inbox /\ u.list = e.list /\ u.cur = e.cur
        /\ u.playing = e.playing /\ u.status # "stopped"
    BY <1>3, <2>2, <2>3, <2>5 DEF Only, Fields
  <2>7. Alike(u, e, {"fill"})
    BY <2>5, <2>6 DEF Alike
  <2> HIDE DEF done, r
  <2>8. CASE e.cur # n
    <3>1. r = u
      BY <1>5, <2>1, <2>6, <2>8
    <3>2. Finished(u, e)
      BY <1>8, <2>6, <2>7, <2>8 DEF Finished, t, n
    <3> QED BY <2>5, <3>1, <3>2 DEF r
  <2>9. CASE e.cur = n
    <3> DEFINE shown == IF Lead(e) = 0 THEN t ELSE e.playing
               c == WithCodec(u, "decoding")
               w == WithPlaying(c, shown)
    <3>1. Id3(u, u.cur) = t
      BY <1>8, <2>6, <2>9 DEF Id3, InLoad, t
    <3>2. r = w
      <4>1. r = [u EXCEPT !.codec = "decoding",
                     !.playing = IF Lead(e) = 0 THEN Id3(u, u.cur) ELSE @]
        BY <1>5, <2>1, <2>6, <2>9
      <4>2. u \in Engine
        BY <2>5 DEF Sound, Fit
      <4> QED BY <2>6, <3>1, <4>1, <4>2 DEF WithCodec, WithPlaying, Engine
    <3>3. shown \in Tracks \cup {None}
      <4>1. e.playing \in Tracks \cup {None}
        BY DEF Sound, Fit, Engine
      <4> QED BY <1>2, <4>1
    <3>4. Sound(c, p) /\ c.codec = "decoding" /\ Only(c, u, {"codec"})
      BY <2>5, <2>6, CodecSet
    <3> HIDE DEF c
    <3>5. c.status # "stopped"
      BY <2>6, <3>4 DEF Only, Fields
    <3>6. Sound(w, p) /\ w.playing = shown /\ Only(w, c, {"playing"})
      <4> HIDE DEF shown
      <4> QED BY <3>3, <3>4, <3>5, PlayingSet
    <3> HIDE DEF w
    <3>7. /\ Only(w, e, {"loading", "stat", "inbox", "codec", "playing"})
          /\ w.loading = "no" /\ w.codec = "decoding" /\ w.inbox = u.inbox
      BY <2>6, <3>4, <3>6 DEF Only, Fields
    <3>8. Alike(w, e, {"fill"})
      BY <2>7, <3>7 DEF Alike
    <3>9. Finished(w, e)
      BY <1>8, <2>9, <3>6, <3>7, <3>8 DEF Finished, t, n
    <3> QED BY <3>2, <3>6, <3>9 DEF r
  <2> QED BY <2>8, <2>9
<1> QED BY <1>6, <1>7, <1>8

-----------------------------------------------------------------------------
(* The order after the metadata of the last track is there.                *)

\* A queue with broken files does not repeat.
LEMMA OffIfBroken ==
  ASSUME Calm, NEW p \in BOOLEAN, NEW e, Sound(e, p), ~AllOk(file)
  PROVE  e.q.repeat = "off"
BY DEF Sound, Tame, Plain

LEMMA LastIs ==
  ASSUME NEW e, Fit(e), NEW b \in {0, 1}, Order(e, b), e.cur # 0
  PROVE  /\ e.list[Len(e.list)] = Peek(e.q, e.peek)
         /\ e.list[Len(e.list)] \in Tracks
         /\ e.peek \in Nat /\ e.peek = b + Len(e.list) - e.cur
<1> DEFINE n == Len(e.list)
<1>1. /\ e.list \in Seq(Tracks) /\ DOMAIN e.list = 1 .. n /\ n \in Nat
      /\ e.cur \in Nat /\ e.cur <= n /\ n # 0
  BY Numbers
<1>2. e.peek = b + n - e.cur
  BY DEF Order
<1>3. n - e.cur + b = e.peek /\ n \in DOMAIN e.list /\ e.peek \in Nat
  BY <1>1, <1>2
<1>4. e.list[n] = Peek(e.q, n - e.cur + b)
  BY <1>3 DEF Order
<1> QED BY <1>1, <1>2, <1>3, <1>4

\* The bad track was the last of the buffer, so that the others stay in order.
LEMMA ThrownInOrder ==
  ASSUME Calm, NEW e, Sound(e, FALSE), e.loading = "read",
         NEW b \in {0, 1}, Order(e, b), Heard(e), Alone(e),
         file[e.list[Len(e.list)]] # "ok", NEW r, Sound(r, FALSE), Thrown(r, e)
  PROVE  /\ Order(r, b) /\ Heard(r) /\ ~AllOk(file)
         /\ e.cur = Len(e.list) => r.cur = 0
         /\ e.cur # Len(e.list) => r.cur = e.cur
<1> DEFINE n == Len(e.list)
           p == FALSE
<1>1. /\ e.list \in Seq(Tracks) /\ DOMAIN e.list = 1 .. n /\ n \in Nat
      /\ e.cur \in Nat /\ e.cur <= n /\ n # 0 /\ e.cur # 0 /\ Fit(e)
      /\ Sane(e.q) /\ e.peek \in Int /\ p \in BOOLEAN
  BY Numbers DEF Sound, Fit
<1>2. /\ e.list[n] = Peek(e.q, e.peek) /\ e.list[n] \in Tracks
      /\ e.peek \in Nat /\ e.peek = b + n - e.cur
  BY <1>1, LastIs
<1>3. ~AllOk(file)
  BY <1>2 DEF AllOk
<1>4. e.q.repeat = "off"
  <2> HIDE DEF p
  <2> QED BY <1>1, <1>3, OffIfBroken DEF p
<1>5. /\ Len(r.list) = n - 1 /\ r.cur = (IF e.cur > n - 1 THEN n - 1 ELSE e.cur)
      /\ r.q = SkipEntry(e.q, e.peek) /\ r.peek = e.peek - 1
      /\ \A i \in DOMAIN r.list : i \in DOMAIN e.list /\ r.list[i] = e.list[i]
      /\ r.playing = e.playing
  BY DEF Thrown, Only, Fields
<1>6. DOMAIN r.list = 1 .. n - 1
  BY <1>5, Numbers DEF Sound
<1>7. ASSUME e.peek > 0
      PROVE  \A k \in Int : k < e.peek => Peek(r.q, k) = Peek(e.q, k)
  <2>1. Peek(e.q, e.peek) # None
    BY <1>2, NoneAssumption
  <2> QED BY <1>1, <1>2, <1>4, <1>5, <1>7, <2>1, SkipEntryPeek
<1>8. Heard(r)
  <2>1. CASE e.peek > 0
    <3>1. Peek(r.q, 0) = Peek(e.q, 0)
      <4>1. 0 \in Int /\ 0 < e.peek
        BY <2>1
      <4> QED BY <1>7, <2>1, <4>1
    <3> QED BY <1>5, <3>1 DEF Heard
  <2>2. CASE e.peek = 0
    <3>1. e.list[n] = Peek(e.q, 0)
      BY <1>2, <2>2
    <3>2. e.playing = None
      BY <3>1 DEF Heard
    <3> QED BY <1>5, <3>2 DEF Heard
  <2> QED BY <1>2, <2>1, <2>2
<1>9. CASE e.cur = n
  <2>1. e.loading # "no" /\ ~Audio(e)
    BY <1>9, AudioIs
  <2>2. n = 1
    BY <1>1, <2>1 DEF Alone
  <2>3. r.cur = 0 /\ r.peek = b - 1
    BY <1>2, <1>5, <1>9, <2>2
  <2>4. \A i \in DOMAIN r.list : r.list[i] = Peek(r.q, i - r.cur + b)
    BY <1>6, <2>2
  <2>5. Order(r, b)
    BY <2>3, <2>4 DEF Order
  <2> QED BY <1>3, <1>8, <1>9, <2>3, <2>5
<1>10. CASE e.cur # n
  <2>1. r.cur = e.cur /\ e.cur <= n - 1 /\ e.peek > 0
    BY <1>1, <1>2, <1>5, <1>10
  <2>2. ASSUME NEW i \in DOMAIN r.list PROVE r.list[i] = Peek(r.q, i - r.cur + b)
    <3> DEFINE j == i - e.cur + b
    <3>1. j \in Int /\ j < e.peek
      BY <1>1, <1>2, <1>6
    <3>2. r.list[i] = Peek(e.q, j)
      BY <1>5 DEF Order
    <3> HIDE DEF j
    <3>3. Peek(r.q, j) = Peek(e.q, j)
      BY <1>7, <2>1, <3>1
    <3> QED BY <2>1, <3>2, <3>3 DEF j
  <2>3. r.peek = b + Len(r.list) - r.cur
    <3>1. e.peek = b + n - e.cur
      BY <1>2
    <3>2. r.peek = e.peek - 1 /\ Len(r.list) = n - 1 /\ r.cur = e.cur
      BY <1>5, <2>1
    <3>3. b \in Int /\ n \in Int /\ e.cur \in Int
      BY <1>1
    <3> HIDE DEF n
    <3> QED BY <3>1, <3>2, <3>3
  <2>4. Order(r, b)
    BY <1>1, <2>1, <2>2, <2>3 DEF Order
  <2> QED BY <1>3, <1>8, <1>10, <2>1, <2>4
<1> QED BY <1>9, <1>10

LEMMA GoodFinish ==
  ASSUME Calm, NEW e, Sound(e, FALSE), e.loading = "read", e.filling # "full",
         Buffer(e, Behind(e)), Steady(e), Awake(e),
         NEW r, Sound(r, FALSE), Finished(r, e)
  PROVE  Good(r)
<1> DEFINE n == Len(e.list)
           b == Behind(e)
<1>1. /\ e.list \in Seq(Tracks) /\ DOMAIN e.list = 1 .. n /\ n \in Nat
      /\ e.cur \in Nat /\ e.cur <= n /\ n # 0 /\ e.cur # 0 /\ Fit(e)
  BY Numbers DEF Sound, Fit
<1>2. b \in {0, 1} /\ Order(e, b) /\ Heard(e) /\ Alone(e) /\ Roomy(e)
  BY BehindIs DEF Buffer
<1>3. /\ e.list[n] = Peek(e.q, e.peek) /\ e.list[n] \in Tracks
      /\ e.peek = b + n - e.cur
  <2> HIDE DEF b
  <2> QED BY <1>1, <1>2, LastIs
<1>4. Audio(e) <=> e.cur # n
  BY <1>1, AudioIs
<1> HIDE DEF b
<1>5. CASE file[e.list[n]] # "ok" /\ Thrown(r, e)
  <2>1. /\ Order(r, b) /\ Heard(r) /\ ~AllOk(file)
        /\ e.cur = n => r.cur = 0
        /\ e.cur # n => r.cur = e.cur
    BY <1>2, <1>5, ThrownInOrder
  <2>2. /\ r.skip = e.skip /\ r.mark = e.mark /\ r.late = e.late
        /\ r.status = e.status /\ r.codec = e.codec /\ r.loading = "no"
        /\ In(r.inbox, "fill")
    BY <1>5 DEF Thrown, Only, Fields
  <2>3. /\ In(r.inbox, "complete") <=> In(e.inbox, "complete")
        /\ Once(e.inbox, "complete") => Once(r.inbox, "complete")
    <3>1. "complete" \notin {"finish", "fill"}
      OBVIOUS
    <3> QED BY <1>5, <3>1 DEF Thrown, Alike
  <2>4. Likewise(r, e)
    BY <2>2, <2>3 DEF Likewise
  <2>5. Behind(r) = b
    BY <2>2, BehindIs DEF b
  <2>6. Audio(r) <=> r.cur # 0
    BY <2>2, AudioIs
  <2>7. Buffer(r, Behind(r)) /\ Told(r)
    BY <2>1, <2>2, <2>5, <2>6 DEF Buffer, Alone, Roomy, Told
  <2>8. CASE e.cur # n
    <3>1. Steady(r) /\ Awake(r)
      BY <1>1, <1>4, <2>1, <2>4, <2>6, <2>8, SteadyKept, AwakeKept
    <3> QED BY <2>7, <3>1 DEF Good
  <2>9. CASE e.cur = n
    <3>1. ~Audio(e) /\ r.cur = 0
      BY <1>4, <2>1, <2>9
    <3>2. e.codec # "decoding" /\ ~Done(e)
      BY <1>1, <3>1 DEF Steady
    <3>3. ~Done(r)
      BY <2>2, <2>3, <3>2 DEF Done
    <3>4. Steady(r)
      BY <2>1, <2>2, <3>2, <3>3 DEF Steady
    <3>5. Awake(r)
      BY <2>2, <3>1 DEF Awake
    <3> QED BY <2>7, <3>4, <3>5 DEF Good
  <2> QED BY <2>8, <2>9
<1>6. CASE n > 1 /\ r.filling = "full" /\ Only(r, e, {"filling", "stat"})
  <2>1. /\ r.q = e.q /\ r.list = e.list /\ r.cur = e.cur /\ r.peek = e.peek
        /\ r.playing = e.playing /\ r.loading = e.loading /\ r.inbox = e.inbox
        /\ r.skip = e.skip /\ r.mark = e.mark /\ r.late = e.late
        /\ r.status = e.status /\ r.codec = e.codec
    BY <1>6 DEF Only, Fields
  <2>2. Audio(e)
    <3>1. n # 1
      <4>1. n \in Nat /\ n > 1
        BY <1>1, <1>6
      <4> HIDE DEF n
      <4> QED BY <4>1
    <3> QED BY <1>1, <1>2, <3>1 DEF Alone
  <2>3. Audio(r) <=> Audio(e)
    BY <2>1, AudioIs
  <2>4. Likewise(r, e)
    BY <2>1 DEF Likewise
  <2>5. Behind(r) = b
    BY <2>1, BehindIs DEF b
  <2>6. Order(r, b) /\ Heard(r)
    BY <1>2, <2>1, OrderKept, HeardKept
  <2>7. Buffer(r, Behind(r)) /\ Told(r)
    BY <1>6, <2>2, <2>3, <2>5, <2>6 DEF Buffer, Alone, Roomy, Told
  <2>8. Steady(r) /\ Awake(r)
    BY <1>1, <2>1, <2>3, <2>4, SteadyKept, AwakeKept
  <2> QED BY <2>7, <2>8 DEF Good
<1>7. CASE /\ file[e.list[n]] = "ok" /\ e.cur # n /\ r.loading = "no"
           /\ Only(r, e, {"loading", "stat", "inbox"}) /\ Alike(r, e, {"fill"})
  <2>1. /\ r.q = e.q /\ r.list = e.list /\ r.cur = e.cur /\ r.peek = e.peek
        /\ r.playing = e.playing
        /\ r.skip = e.skip /\ r.mark = e.mark /\ r.late = e.late
        /\ r.status = e.status /\ r.codec = e.codec
    BY <1>7 DEF Only, Fields
  <2>2. Audio(r) /\ Audio(e)
    BY <1>1, <1>4, <1>7, <2>1, AudioIs
  <2>3. Likewise(r, e)
    <3>1. "complete" \notin {"fill"}
      OBVIOUS
    <3> QED BY <1>7, <2>1, <3>1 DEF Likewise, Alike
  <2>4. Behind(r) = b
    BY <2>1, BehindIs DEF b
  <2>5. Order(r, b) /\ Heard(r)
    BY <1>2, <2>1, OrderKept, HeardKept
  <2>6. Buffer(r, Behind(r)) /\ Told(r)
    BY <1>7, <2>2, <2>4, <2>5 DEF Buffer, Alone, Roomy, Told
  <2>7. Steady(r) /\ Awake(r)
    BY <1>1, <2>1, <2>2, <2>3, SteadyKept, AwakeKept
  <2> QED BY <2>6, <2>7 DEF Good
<1>8. CASE /\ file[e.list[n]] = "ok" /\ e.cur = n /\ r.loading = "no"
           /\ r.codec = "decoding"
           /\ r.playing = (IF Lead(e) = 0 THEN e.list[n] ELSE e.playing)
           /\ Only(r, e, {"loading", "stat", "inbox", "codec", "playing"})
           /\ Alike(r, e, {"fill"})
  <2>1. /\ r.q = e.q /\ r.list = e.list /\ r.cur = e.cur /\ r.peek = e.peek
        /\ r.skip = e.skip /\ r.mark = e.mark /\ r.late = e.late
        /\ r.status = e.status
    BY <1>8 DEF Only, Fields
  <2>2. Audio(r) /\ ~Audio(e)
    BY <1>1, <1>4, <1>8, <2>1, AudioIs
  <2>3. ~Done(e) /\ ~Done(r)
    <3>1. ~Done(e)
      BY <1>1, <2>2 DEF Steady
    <3>2. "complete" \notin {"fill"}
      OBVIOUS
    <3> QED BY <1>8, <2>1, <3>1, <3>2 DEF Alike, Done
  <2>4. Behind(r) = b
    BY <2>1, BehindIs DEF b
  <2>5. Order(r, b)
    BY <1>2, <2>1, OrderKept
  <2>6. Heard(r)
    <3>1. CASE Lead(e) = 0
      <4>1. b = 0
        <5>1. e.skip # "auto"
          BY <3>1 DEF Lead
        <5> QED BY <1>2, <5>1 DEF b, Behind
      <4>2. e.peek = 0
        BY <1>1, <1>3, <1>8, <4>1
      <4> QED BY <1>3, <1>8, <2>1, <3>1, <4>2 DEF Heard
    <3>2. CASE Lead(e) # 0
      <4>1. r.playing = e.playing
        BY <1>8, <3>2
      <4> QED BY <1>2, <2>1, <4>1, HeardKept
    <3> QED BY <3>1, <3>2
  <2>7. Buffer(r, Behind(r)) /\ Told(r)
    BY <1>8, <2>2, <2>4, <2>5, <2>6 DEF Buffer, Alone, Roomy, Told
  <2>8. Steady(r) /\ Awake(r)
    BY <1>1, <1>8, <2>1, <2>2, <2>3 DEF Steady, Awake
  <2> QED BY <2>7, <2>8 DEF Good
<1> QED BY <1>5, <1>6, <1>7, <1>8 DEF Finished

-----------------------------------------------------------------------------
(* Stopping, and what is shown.                                            *)

LEMMA Halted ==
  ASSUME NEW p \in BOOLEAN, NEW e, Sound(e, p)
  PROVE  LET r == Halt(e)
         IN  /\ Sound(r, p) /\ Only(r, e, {"inbox", "codec", "mark", "late"})
             /\ Alike(r, e, {"complete"}) /\ ~In(r.inbox, "complete")
             /\ r.codec = "idle" /\ r.mark = "none" /\ r.late = FALSE
<1> DEFINE d == Drop(e, "complete")
           c == WithCodec(d, "idle")
           m == WithMark(c, "none")
           l == WithLate(m, FALSE)
<1>1. Halt(e) = l
  BY DEF Halt, WithLate, WithMark, WithCodec
<1>2. /\ Sound(d, p) /\ Only(d, e, {"inbox"}) /\ Alike(d, e, {"complete"})
      /\ ~In(d.inbox, "complete")
  <2> DEFINE x == "complete"
  <2>1. x \in {"finish", "complete"}
    OBVIOUS
  <2> HIDE DEF x
  <2>2. /\ Sound(Drop(e, x), p) /\ Only(Drop(e, x), e, {"inbox"})
        /\ Alike(Drop(e, x), e, {x}) /\ ~In(Drop(e, x).inbox, x)
    BY <2>1, Dropped
  <2> QED BY <2>2 DEF x
<1> HIDE DEF d
<1>3. Sound(c, p) /\ c.codec = "idle" /\ Only(c, d, {"codec"})
  BY <1>2, CodecSet
<1> HIDE DEF c
<1>4. Sound(m, p) /\ m.mark = "none" /\ Only(m, c, {"mark"})
  BY <1>3, MarkSet
<1> HIDE DEF m
<1>5. Sound(l, p) /\ l.late = FALSE /\ Only(l, m, {"late"})
  BY <1>4, LateSet
<1> HIDE DEF l
<1>6. Only(l, e, {"inbox", "codec", "mark", "late"})
  BY <1>2, <1>3, <1>4, <1>5 DEF Only, Fields
<1>7. l.inbox = d.inbox /\ l.codec = "idle" /\ l.mark = "none"
  BY <1>3, <1>4, <1>5 DEF Only, Fields
<1>8. Alike(l, e, {"complete"}) /\ ~In(l.inbox, "complete")
  BY <1>2, <1>7 DEF Alike
<1> QED BY <1>1, <1>5, <1>6, <1>7, <1>8

\* Nothing is left of what was played.
LEMMA Emptied ==
  ASSUME NEW p \in BOOLEAN, NEW e, Sound(e, p)
  PROVE  LET r == Clear(Halt(e), "none")
         IN  /\ Sound(r, p)
             /\ Only(r, e, {"inbox", "codec", "mark", "late", "loading", "list", "cur"})
             /\ Alike(r, e, {"complete", "finish"})
             /\ ~In(r.inbox, "complete")
             /\ r.codec = "idle" /\ r.mark = "none" /\ r.late = FALSE
             /\ r.list = <<>> /\ r.cur = 0 /\ r.loading = "no"
<1> DEFINE h == Halt(e)
           r == Clear(h, "none")
<1>1. /\ Sound(h, p) /\ Only(h, e, {"inbox", "codec", "mark", "late"})
      /\ Alike(h, e, {"complete"}) /\ ~In(h.inbox, "complete")
      /\ h.codec = "idle" /\ h.mark = "none" /\ h.late = FALSE
  BY Halted
<1> HIDE DEF h
<1>2. /\ Sound(r, p) /\ r.list = <<>> /\ r.cur = 0 /\ r.loading = "no"
      /\ Only(r, h, {"inbox", "loading", "list", "cur"})
      /\ Alike(r, h, {"finish"}) /\ ~In(r.inbox, "finish")
  BY <1>1, ClearNone
<1> HIDE DEF r
<1>3. r.codec = "idle" /\ r.mark = "none" /\ r.late = FALSE
  BY <1>1, <1>2 DEF Only, Fields
<1>4. Only(r, e, {"inbox", "codec", "mark", "late", "loading", "list", "cur"})
  BY <1>1, <1>2 DEF Only, Fields
<1>5. ~In(r.inbox, "complete")
  <2>1. "complete" \notin {"finish"}
    OBVIOUS
  <2> QED BY <1>1, <1>2, <2>1 DEF Alike
<1>6. Alike(r, e, {"complete", "finish"})
  BY <1>1, <1>2 DEF Alike
<1> QED BY <1>2, <1>3, <1>4, <1>5, <1>6 DEF r, h

\* A stopped engine, whatever there was.
LEMMA StopPlaybackIs ==
  ASSUME NEW p \in BOOLEAN, NEW e, Sound(e, p)
  PROVE  /\ Sound(StopPlayback(e), p) /\ StopPlayback(e).status = "stopped"
         /\ StopPlayback(e).late = FALSE
<1>1. CASE e.status = "stopped"
  <2>1. StopPlayback(e) = e
    BY <1>1 DEF StopPlayback
  <2>2. e.late = FALSE
    BY <1>1 DEF Sound, Fit, Engine
  <2> QED BY <1>1, <2>1, <2>2
<1>2. CASE e.status # "stopped"
  <2> DEFINE c == Clear(Halt(e), "none")
             s == WithSkip(c, "none")
             n == WithPlaying(s, None)
             o == [n EXCEPT !.status = "stopped"]
             f == WithFilling(o, "idle")
  <2>1. StopPlayback(e) = f
    BY <1>2 DEF StopPlayback, WithFilling, WithPlaying, WithSkip
  <2>2. /\ Sound(c, p) /\ c.list = <<>> /\ c.codec = "idle" /\ c.mark = "none"
        /\ c.late = FALSE /\ ~In(c.inbox, "complete")
    BY Emptied
  <2> HIDE DEF c
  <2>3. Sound(s, p) /\ s.skip = "none" /\ Only(s, c, {"skip"})
    BY <2>2, SkipSet
  <2> HIDE DEF s
  <2>4. Sound(n, p) /\ n.playing = None /\ Only(n, s, {"playing"})
    BY <2>3, PlayingSet
  <2> HIDE DEF n
  <2>5. /\ n.list = <<>> /\ n.codec = "idle" /\ n.mark = "none" /\ n.late = FALSE
        /\ n.skip = "none" /\ n.playing = None /\ ~In(n.inbox, "complete")
    BY <2>2, <2>3, <2>4 DEF Only, Fields
  <2>6. o.status = "stopped" /\ Only(o, n, {"status"}) /\ o \in Engine
    BY <2>4 DEF Only, Fields, Sound, Fit, Engine
  <2> HIDE DEF o
  <2>7. /\ o.q = n.q /\ o.list = n.list /\ o.cur = n.cur /\ o.loading = n.loading
        /\ o.codec = n.codec /\ o.mark = n.mark /\ o.late = n.late
        /\ o.skip = n.skip /\ o.playing = n.playing /\ o.inbox = n.inbox
        /\ o.filling = n.filling /\ o.hung = n.hung
    BY <2>6 DEF Only, Fields
  <2>8. Fit(o)
    BY <2>4, <2>5, <2>6, <2>7 DEF Sound, Fit
  <2>9. Mailed(o) /\ Tame(o, file)
    BY <2>4, <2>5, <2>7 DEF Sound, Mailed, Tame
  <2>10. Sound(o, p)
    BY <2>6, <2>8, <2>9 DEF Sound
  <2>11. Sound(f, p) /\ Only(f, o, {"filling"})
    BY <2>10, FillingSet
  <2> HIDE DEF f
  <2>12. f.status = "stopped" /\ f.late = FALSE
    BY <2>5, <2>6, <2>7, <2>11 DEF Only, Fields
  <2> QED BY <2>1, <2>11, <2>12
<1> QED BY <1>1, <1>2

LEMMA EndIs ==
  ASSUME NEW p \in BOOLEAN, NEW e, Sound(e, p)
  PROVE  Sound(End(e), p) /\ End(e).status = "stopped" /\ End(e).late = FALSE
<1> DEFINE f == WithFilling(e, "ended")
<1>1. End(e) = StopPlayback(f)
  BY DEF End, WithFilling
<1>2. Sound(f, p)
  BY FillingSet
<1> HIDE DEF f
<1> QED BY <1>1, <1>2, StopPlaybackIs

LEMMA ShownIs ==
  ASSUME NEW p \in BOOLEAN, NEW e, Sound(e, p), e.status # "stopped"
  PROVE  LET r == Shown(e)
         IN  /\ Sound(r, p) /\ Only(r, e, {"skip", "playing"}) /\ r.skip = "none"
             /\ r.playing = IF e.cur = 0 THEN None ELSE Id3(e, e.cur)
<1> DEFINE s == WithSkip(e, "none")
           shown == IF e.cur = 0 THEN None ELSE Id3(e, e.cur)
<1>1. Shown(e) = WithPlaying(s, shown)
  BY DEF Shown, WithPlaying, WithSkip, Sound, Fit, Engine
<1>2. shown \in Tracks \cup {None}
  <2>1. e.cur # 0 => e.cur \in 1 .. Len(e.list)
    BY DEF Sound, Fit, Engine
  <2> QED BY <2>1, Id3Is DEF Sound
<1>3. Sound(s, p) /\ Only(s, e, {"skip"}) /\ s.skip = "none" /\ s.status = e.status
  BY SkipSet DEF Only, Fields
<1> HIDE DEF s, shown
<1>4. /\ Sound(Shown(e), p) /\ Only(Shown(e), s, {"playing"})
      /\ Shown(e).playing = shown
  BY <1>1, <1>2, <1>3, PlayingSet
<1>5. Only(Shown(e), e, {"skip", "playing"}) /\ Shown(e).skip = "none"
  BY <1>3, <1>4 DEF Only, Fields
<1> QED BY <1>4, <1>5 DEF shown

\* The metadata of the current track is that of the entry b after the position.
LEMMA Id3InOrder ==
  ASSUME NEW e, Fit(e), NEW b \in {0, 1}, Order(e, b), e.cur # 0,
         Id3(e, e.cur) # None
  PROVE  /\ Id3(e, e.cur) = Peek(e.q, b) /\ Id3(e, e.cur) \in Tracks
         /\ file[Id3(e, e.cur)] = "ok"
<1>1. Id3(e, e.cur) = e.list[e.cur] /\ file[e.list[e.cur]] = "ok"
  BY DEF Id3
<1>2. e.cur \in DOMAIN e.list /\ e.cur \in Nat /\ e.list \in Seq(Tracks)
  BY Numbers
<1>3. e.list[e.cur] = Peek(e.q, e.cur - e.cur + b)
  BY <1>2 DEF Order
<1>4. e.cur - e.cur + b = b
  BY <1>2
<1>5. e.list[e.cur] \in Tracks
  BY <1>2
<1> QED BY <1>1, <1>3, <1>4, <1>5

LEMMA ShownHeard ==
  ASSUME NEW p \in BOOLEAN, NEW e, Sound(e, p), e.status # "stopped", Order(e, 0)
  PROVE  Heard(Shown(e))
<1> DEFINE r == Shown(e)
<1>1. /\ Only(r, e, {"skip", "playing"})
      /\ r.playing = IF e.cur = 0 THEN None ELSE Id3(e, e.cur)
  BY ShownIs
<1> HIDE DEF r
<1>2. r.q = e.q
  BY <1>1 DEF Only, Fields
<1>3. CASE e.cur = 0 \/ Id3(e, e.cur) = None
  BY <1>1, <1>3 DEF Heard, r
<1>4. CASE e.cur # 0 /\ Id3(e, e.cur) # None
  <2> DEFINE b == 0
  <2>1. b \in {0, 1} /\ Order(e, b) /\ Fit(e)
    BY DEF Sound
  <2> HIDE DEF b
  <2>2. Id3(e, e.cur) = Peek(e.q, b) /\ file[Id3(e, e.cur)] = "ok"
    BY <1>4, <2>1, Id3InOrder
  <2>3. Heard(r)
    BY <1>1, <1>2, <1>4, <2>2 DEF Heard, b
  <2> QED BY <2>3 DEF r
<1> QED BY <1>3, <1>4

\* A position that there is can be gone to.
LEMMA GoToIs ==
  ASSUME NEW p \in BOOLEAN, NEW e, Sound(e, p), NEW k \in Int,
         NextIndex(e.q, k) # -1
  PROVE  LET r == [e EXCEPT !.q = GoTo(@, NextIndex(@, k))]
         IN  /\ Sound(r, p) /\ Only(r, e, {"q"})
             /\ r.q = GoTo(e.q, NextIndex(e.q, k))
<1> DEFINE q == GoTo(e.q, NextIndex(e.q, k))
<1>1. Sane(q)
  BY NextIndexIs DEF Sound, Fit
<1>2. [e EXCEPT !.q = GoTo(@, NextIndex(@, k))] = WithQ(e, q)
  BY DEF WithQ, Sound, Fit, Engine
<1>3. q.repeat = e.q.repeat /\ Length(q) = Length(e.q)
  BY DEF GoTo, Length, Sound, Fit, Engine, Queue
<1>4. AllOk(file) => Length(q) > 0
  BY <1>3 DEF Sound, Tame
<1> HIDE DEF q
<1>5. /\ Sound(WithQ(e, q), p) /\ WithQ(e, q).q = q
      /\ Only(WithQ(e, q), e, {"q"})
  BY <1>1, <1>3, <1>4, QSet
<1> QED BY <1>2, <1>5 DEF q

LEMMA PeekNext ==
  ASSUME NEW q \in Queue, NEW k \in Int, Peek(q, k) # None
  PROVE  NextIndex(q, k) # -1
<1>1. Normalize(q, q.index + k, TRUE) # -1
  BY PeekIs
<1>2. q.index \in Nat /\ q.index # -1
  BY DEF Queue
<1> QED BY <1>1, <1>2 DEF NextIndex

LEMMA Arrived ==
  ASSUME NEW p \in BOOLEAN, NEW e, Sound(e, p), NEW k \in Int,
         NextIndex(e.q, k) # -1
  PROVE  LET r == Arrive(e, k)
         IN  /\ Sound(r, p) /\ Only(r, e, {"q", "peek"}) /\ r.peek = e.peek - k
             /\ Calm => \A j \in Int : Peek(r.q, j) = Peek(e.q, k + j)
<1> DEFINE q == GoTo(e.q, NextIndex(e.q, k))
           v == e.peek - k
           w == WithPeek(e, v)
           r == Arrive(e, k)
<1>1. v \in Int
  BY DEF Sound, Fit, Engine
<1>2. Sound(w, p) /\ Only(w, e, {"peek"}) /\ w.peek = v
  <2> HIDE DEF v
  <2> QED BY <1>1, PeekSet
<1>3. w.q = e.q
  BY <1>2 DEF Only, Fields
<1>4. r = [w EXCEPT !.q = GoTo(@, NextIndex(@, k))]
  BY <1>3 DEF Arrive, WithPeek, Sound, Fit, Engine
<1> HIDE DEF w, r
<1>5. Sound(r, p) /\ Only(r, w, {"q"}) /\ r.q = q
  BY <1>2, <1>3, <1>4, GoToIs
<1>6. Only(r, e, {"q", "peek"}) /\ r.peek = v
  BY <1>2, <1>5 DEF Only, Fields
<1>7. ASSUME Calm PROVE \A j \in Int : Peek(q, j) = Peek(e.q, k + j)
  <2>1. Sane(e.q) /\ e.q.repeat \in Plain
    BY <1>7 DEF Sound, Fit, Tame
  <2> QED BY <2>1, PeekShift
<1> QED BY <1>5, <1>6, <1>7 DEF r

-----------------------------------------------------------------------------
(* Changing tracks.                                                        *)

LEMMA Completed ==
  ASSUME NEW p \in BOOLEAN, NEW e, Sound(e, p), e.status # "stopped"
  PROVE  LET r == StartCodecFailed(e)
         IN  /\ Sound(r, p) /\ Only(r, e, {"inbox"}) /\ Alike(r, e, {"complete"})
             /\ In(r.inbox, "complete")
<1> DEFINE m == "complete"
           r == Post(e, m)
<1>1. m \in Messages /\ m # "finish" /\ m # "seek"
  BY DEF Messages
<1>2. Sound(r, p) /\ Only(r, e, {"inbox"}) /\ Alike(r, e, {m}) /\ In(r.inbox, m)
  <2> HIDE DEF m
  <2> QED BY <1>1, Posted
<1> QED BY <1>2 DEF StartCodecFailed

LEMMA SoundFinalise ==
  ASSUME NEW p \in BOOLEAN, NEW e, Sound(e, p), e.status # "stopped"
  PROVE  Sound(Finalise(e), p)
<1> DEFINE delta == IF e.skip = "auto" THEN 1 ELSE 0
           a == Arrive(e, delta)
           s == WithSkip(e, "none")
<1>1. delta \in Int /\ e.q \in Queue
  BY DEF Sound, Fit, Engine
<1>2. CASE e.skip = "none"
  BY <1>2, ShownIs DEF Finalise
<1>3. CASE e.skip = "endlist"
  BY <1>3, EndIs DEF Finalise
<1>4. CASE e.skip \notin {"none", "endlist"} /\ Peek(e.q, delta) # None
  <2>1. Finalise(e) = Shown(a)
    BY <1>4 DEF Finalise
  <2>2. NextIndex(e.q, delta) # -1
    <3> HIDE DEF delta
    <3> QED BY <1>1, <1>4, PeekNext
  <2>3. Sound(a, p) /\ a.status = e.status
    <3> HIDE DEF delta
    <3> QED BY <1>1, <2>2, Arrived DEF Only, Fields
  <2> HIDE DEF a
  <2> QED BY <2>1, <2>3, ShownIs
<1>5. CASE e.skip \notin {"none", "endlist"} /\ Peek(e.q, delta) = None
  <2>1. Finalise(e) = StartCodecFailed(s)
    BY <1>5 DEF Finalise, WithSkip
  <2>2. Sound(s, p) /\ s.status = e.status
    BY SkipSet DEF Only, Fields
  <2> HIDE DEF s
  <2> QED BY <2>1, <2>2, Completed
<1> QED BY <1>2, <1>3, <1>4, <1>5

LEMMA StartTrackIs ==
  ASSUME NEW p \in BOOLEAN, NEW e, Sound(e, p), e.status # "stopped",
         NEW manual \in BOOLEAN
  PROVE  LET r == StartTrack(e, manual)
         IN  /\ Sound(r, p) /\ r.status = e.status
             /\ e.stat = "ok" /\ e.cur # 0 =>
                   IF HasAudio(e, e.cur)
                   THEN /\ Only(r, e, {"codec", "playing"}) /\ r.codec = "decoding"
                        /\ r.playing = IF manual THEN Id3(e, e.cur) ELSE e.playing
                   ELSE r = e
<1> DEFINE c == WithCodec(e, "decoding")
           shown == IF manual THEN Id3(e, e.cur) ELSE e.playing
<1>1. CASE e.stat # "ok"
  BY <1>1, LoadFailedIs DEF StartTrack, Only, Fields
<1>2. CASE e.stat = "ok" /\ e.cur = 0
  BY <1>2, Completed DEF StartTrack, Only, Fields
<1>3. CASE e.stat = "ok" /\ e.cur # 0 /\ ~HasAudio(e, e.cur)
  BY <1>3 DEF StartTrack
<1>4. CASE e.stat = "ok" /\ e.cur # 0 /\ HasAudio(e, e.cur)
  <2>1. StartTrack(e, manual) = WithPlaying(c, shown)
    <3>1. StartTrack(e, manual) = [e EXCEPT !.codec = "decoding", !.playing = shown]
      BY <1>4 DEF StartTrack, Sound, Fit, Engine
    <3> QED BY <3>1 DEF WithPlaying, WithCodec
  <2>2. e.cur \in 1 .. Len(e.list) /\ e.playing \in Tracks \cup {None}
    BY <1>4 DEF Sound, Fit, Engine
  <2>3. shown \in Tracks \cup {None}
    BY <2>2, Id3Is DEF Sound
  <2>4. Sound(c, p) /\ Only(c, e, {"codec"}) /\ c.codec = "decoding"
    BY CodecSet
  <2>5. c.status = e.status
    BY <2>4 DEF Only, Fields
  <2> DEFINE r == WithPlaying(c, shown)
  <2> HIDE DEF c, shown
  <2>6. Sound(r, p) /\ r.playing = shown /\ Only(r, c, {"playing"})
    BY <2>3, <2>4, <2>5, PlayingSet
  <2> HIDE DEF r
  <2>7. Only(r, e, {"codec", "playing"}) /\ r.codec = "decoding"
        /\ r.status = e.status
    BY <2>4, <2>6 DEF Only, Fields
  <2> QED BY <1>4, <2>1, <2>6, <2>7 DEF r, shown
<1> QED BY <1>1, <1>2, <1>3, <1>4

LEMMA SoundChange ==
  ASSUME NEW p \in BOOLEAN, NEW e, Sound(e, p), e.status # "stopped"
  PROVE  /\ Sound(ChangeByHand(e), p) /\ Sound(ChangeByItself(e), p)
         /\ ChangeByItself(e).status = e.status
<1> DEFINE seen == Finalise(e)
           m == WithMark(e, "buffered")
<1>1. Sound(seen, p)
  BY SoundFinalise
<1>2. Sound(ChangeByHand(e), p)
  <2>1. CASE seen.status = "stopped"
    BY <1>1, <2>1 DEF ChangeByHand
  <2>2. CASE seen.status # "stopped"
    <3>1. ChangeByHand(e) = StartTrack(seen, TRUE)
      BY <2>2 DEF ChangeByHand
    <3> HIDE DEF seen
    <3> QED BY <1>1, <2>2, <3>1, StartTrackIs
  <2> QED BY <2>1, <2>2
<1>3. ChangeByItself(e) = StartTrack(m, FALSE)
  BY DEF ChangeByItself, WithMark
<1>4. Sound(m, p) /\ m.status = e.status
  BY MarkSet DEF Only, Fields
<1> HIDE DEF m
<1>5. /\ Sound(StartTrack(m, FALSE), p)
      /\ StartTrack(m, FALSE).status = m.status
  BY <1>4, StartTrackIs
<1> QED BY <1>2, <1>3, <1>4, <1>5

LEMMA MonitorEndIs ==
  ASSUME NEW p \in BOOLEAN, NEW e, Sound(e, p), e.status # "stopped"
  PROVE  LET r == MonitorEnd(e)
         IN  /\ Sound(r, p) /\ Only(r, e, {"skip", "filling", "mark"})
             /\ r.skip = "endlist" /\ r.filling = "ending" /\ r.mark = "buffered"
<1> DEFINE s == WithSkip(e, "endlist")
           f == WithFilling(s, "ending")
           m == WithMark(f, "buffered")
<1>1. MonitorEnd(e) = m
  BY DEF MonitorEnd, WithMark, WithFilling, WithSkip
<1>2. Sound(s, p) /\ Only(s, e, {"skip"}) /\ s.skip = "endlist"
  BY SkipSet
<1>3. s.status = e.status
  BY <1>2 DEF Only, Fields
<1> HIDE DEF s
<1>4. Sound(f, p) /\ Only(f, s, {"filling"}) /\ f.filling = "ending"
  BY <1>2, FillingSet
<1>5. f.status = e.status
  BY <1>3, <1>4 DEF Only, Fields
<1> HIDE DEF f
<1>6. Sound(m, p) /\ Only(m, f, {"mark"}) /\ m.mark = "buffered"
  BY <1>4, <1>5, MarkSet
<1> HIDE DEF m
<1>7. Only(m, e, {"skip", "filling", "mark"})
  BY <1>2, <1>4, <1>6 DEF Only, Fields
<1>8. m.skip = "endlist" /\ m.filling = "ending"
  BY <1>2, <1>4, <1>6 DEF Only, Fields
<1> QED BY <1>1, <1>6, <1>7, <1>8

LEMMA SoundAdvance ==
  ASSUME NEW p \in BOOLEAN, NEW e, Sound(e, p), e.status # "stopped"
  PROVE  Sound(Advance(e), p)
<1> DEFINE g == [e EXCEPT !.q = GoTo(@, NextIndex(@, 1))]
<1>1. CASE NextIndex(e.q, 1) = -1
  BY <1>1, MonitorEndIs DEF Advance
<1>2. CASE NextIndex(e.q, 1) # -1
  <2>1. Advance(e) = ChangeByItself(g)
    BY <1>2 DEF Advance
  <2>2. Sound(g, p) /\ g.status = e.status
    BY <1>2, GoToIs DEF Only, Fields
  <2> HIDE DEF g
  <2> QED BY <2>1, <2>2, SoundChange
<1> QED BY <1>1, <1>2

LEMMA SoundReload ==
  ASSUME NEW p \in BOOLEAN, NEW e, Sound(e, p), e.status # "stopped", NEW k \in Int
  PROVE  Sound(Reload(e, k), p)
<1> DEFINE r == Rebuffer(e, "none", k)
           s == WithSkip(r, "newlist")
<1>1. Sound(r, p) /\ r.status = e.status
  BY Rebuffered DEF Only, Fields, BufferFields
<1>2. Reload(e, k) = IF r.stat # "nomore" THEN ChangeByItself(r) ELSE Advance(s)
  BY DEF Reload, WithSkip
<1> HIDE DEF r
<1>3. Sound(s, p) /\ s.status = e.status
  BY <1>1, SkipSet DEF Only, Fields
<1> HIDE DEF s
<1> QED BY <1>1, <1>2, <1>3, SoundChange, SoundAdvance

LEMMA SoundNextTrack ==
  ASSUME NEW p \in BOOLEAN, NEW e, Sound(e, p), e.status # "stopped"
  PROVE  Sound(NextTrack(e), p)
<1> DEFINE c == WithCur(e, e.cur + 1)
           at == WithStat(c, "ok")
           b == Rebuffer(at, "current", 1)
           o == WithStat(b, "ok")
           list == WithSkip(e, "newlist")
           after == NextIndex(e.q, 1)
           g == [list EXCEPT !.q = GoTo(@, NextIndex(@, 1))]
<1>1. CASE Buffered(e, 1)
  <2>1. NextTrack(e) = IF HasAudio(at, at.cur) THEN ChangeByItself(at)
                       ELSE IF at.loading = "read" THEN ChangeByItself(o)
                       ELSE Reload(at, 0)
    BY <1>1 DEF NextTrack, WithCur, WithStat
  <2>2. Sound(c, p) /\ c.status = e.status
    BY <1>1, CurSet DEF Buffered, Only, Fields
  <2> HIDE DEF c
  <2>3. Sound(at, p) /\ at.status = e.status
    BY <2>2, StatSet DEF Only, Fields
  <2> HIDE DEF at
  <2>4. Sound(b, p) /\ b.status = e.status
    BY <2>3, Rebuffered DEF Only, Fields, BufferFields
  <2> HIDE DEF b
  <2>5. Sound(o, p) /\ o.status = e.status
    BY <2>4, StatSet DEF Only, Fields
  <2> HIDE DEF o
  <2> QED BY <2>1, <2>3, <2>5, SoundChange, SoundReload
<1>2. CASE ~Buffered(e, 1) /\ Peek(e.q, 1) # None
  BY <1>2, SoundReload DEF NextTrack
<1>3. CASE ~Buffered(e, 1) /\ Peek(e.q, 1) = None
  <2>1. Sound(list, p) /\ list.status = e.status /\ list.q = e.q
    BY SkipSet DEF Only, Fields
  <2>2. NextTrack(e) = IF after = -1 THEN MonitorEnd(list) ELSE Reload(g, -1)
    <3>1. NextTrack(e) = IF after = -1 THEN MonitorEnd(list)
                         ELSE Reload([list EXCEPT !.q = GoTo(@, after)], -1)
      BY <1>3 DEF NextTrack, WithSkip
    <3>2. after = NextIndex(list.q, 1)
      BY <2>1
    <3> QED BY <3>1, <3>2
  <2> HIDE DEF list
  <2>3. after # -1 => Sound(g, p) /\ g.status = e.status
    BY <2>1, GoToIs DEF Only, Fields
  <2> HIDE DEF g, after
  <2>4. -1 \in Int
    OBVIOUS
  <2> QED BY <2>1, <2>2, <2>3, <2>4, MonitorEndIs, SoundReload
<1> QED BY <1>1, <1>2, <1>3

LEMMA SoundComplete ==
  ASSUME NEW p \in BOOLEAN, NEW e, Sound(e, p)
  PROVE  Sound(OnCodecComplete(e), p)
<1> DEFINE l == WithLate(e, FALSE)
           s == WithSkip(l, "auto")
<1>1. CASE e.status = "stopped"
  BY <1>1 DEF OnCodecComplete
<1>2. CASE e.status # "stopped" /\ (e.status = "paused" \/ e.skip # "none")
  <2>1. OnCodecComplete(e) = WithLate(e, TRUE)
    BY <1>2 DEF OnCodecComplete, RememberComplete, WithLate
  <2> QED BY <1>2, <2>1, LateSet
<1>3. CASE e.status # "stopped" /\ ~(e.status = "paused" \/ e.skip # "none")
  <2>1. OnCodecComplete(e) = NextTrack(s)
    <3>1. OnCodecComplete(e) = NextTrack([e EXCEPT !.late = FALSE, !.skip = "auto"])
      BY <1>3 DEF OnCodecComplete
    <3>2. s = [e EXCEPT !.late = FALSE, !.skip = "auto"]
      BY DEF WithSkip, WithLate
    <3> QED BY <3>1, <3>2
  <2>2. Sound(l, p) /\ l.status = e.status
    <3>1. Sound(l, p) /\ Only(l, e, {"late"})
      BY LateSet
    <3> QED BY <3>1 DEF Only, Fields
  <2> HIDE DEF l
  <2>3. Sound(s, p) /\ s.status = e.status
    BY <1>3, <2>2, SkipSet DEF Only, Fields
  <2> HIDE DEF s
  <2> QED BY <1>3, <2>1, <2>3, SoundNextTrack
<1> QED BY <1>1, <1>2, <1>3

LEMMA SoundTrackChanged ==
  ASSUME NEW p \in BOOLEAN, NEW e, Sound(e, p), e.status # "stopped"
  PROVE  Sound(OnTrackChanged(e), p)
<1> DEFINE m == WithMark(e, "none")
           seen == Finalise(m)
           l == WithLate(seen, FALSE)
<1>1. Sound(m, p) /\ m.status = e.status
  BY MarkSet DEF Only, Fields
<1>2. OnTrackChanged(e) = IF seen.late THEN OnCodecComplete(l) ELSE seen
  BY DEF OnTrackChanged, WithMark, WithLate
<1> HIDE DEF m
<1>3. Sound(seen, p)
  BY <1>1, SoundFinalise
<1> HIDE DEF seen
<1>4. Sound(l, p)
  BY <1>3, LateSet
<1> HIDE DEF l
<1> QED BY <1>2, <1>3, <1>4, SoundComplete

-----------------------------------------------------------------------------
(* The next track.                                                         *)

\* The codec has nothing to do and nothing to report.
Still(e) == e.codec # "decoding" /\ ~Done(e)

\* A track begins, whose audio may still have to be read.
LEMMA GoodStart ==
  ASSUME NEW e, Sound(e, FALSE), e.status # "stopped", e.stat = "ok", e.cur # 0,
         Buffer(e, Behind(e)), Told(e), Still(e), e.skip # "newlist",
         e.skip # "none" => e.mark # "none",
         NEW manual \in BOOLEAN, manual => e.skip # "auto"
  PROVE  Good(StartTrack(e, manual))
<1> DEFINE p == FALSE
           b == Behind(e)
           r == StartTrack(e, manual)
<1>1. p \in BOOLEAN /\ b \in {0, 1} /\ Fit(e)
  BY BehindIs DEF Sound
<1>2. /\ Order(e, b) /\ Heard(e) /\ Alone(e) /\ Roomy(e)
  BY DEF Buffer
<1>3. IF HasAudio(e, e.cur)
      THEN /\ Only(r, e, {"codec", "playing"}) /\ r.codec = "decoding"
           /\ r.playing = IF manual THEN Id3(e, e.cur) ELSE e.playing
      ELSE r = e
  <2> HIDE DEF p
  <2>1. Sound(e, p)
    BY DEF p
  <2> QED BY <1>1, <2>1, StartTrackIs
<1> HIDE DEF r, p
<1>4. CASE ~HasAudio(e, e.cur)
  <2>1. r = e /\ ~Audio(e)
    BY <1>3, <1>4 DEF Audio
  <2>2. Steady(e) /\ Awake(e)
    BY <2>1 DEF Steady, Awake, Still, Done
  <2> QED BY <2>1, <2>2 DEF Good, r
<1>5. CASE HasAudio(e, e.cur)
  <2>1. /\ r.q = e.q /\ r.list = e.list /\ r.cur = e.cur /\ r.peek = e.peek
        /\ r.loading = e.loading /\ r.filling = e.filling /\ r.inbox = e.inbox
        /\ r.skip = e.skip /\ r.mark = e.mark /\ r.late = e.late
        /\ r.status = e.status
    BY <1>3, <1>5 DEF Only, Fields
  <2>2. Audio(e) /\ Audio(r)
    <3>1. Audio(e)
      BY <1>5 DEF Audio
    <3> QED BY <2>1, <3>1, AudioIs
  <2>3. Order(r, b) /\ Behind(r) = b
    BY <1>2, <2>1, OrderKept, BehindIs
  <2>4. Heard(r)
    <3>1. CASE manual /\ Id3(e, e.cur) # None
      <4>1. b = 0
        BY <3>1 DEF Behind
      <4> HIDE DEF b
      <4>2. Id3(e, e.cur) = Peek(e.q, b) /\ file[Id3(e, e.cur)] = "ok"
        BY <1>1, <1>2, <3>1, Id3InOrder
      <4>3. r.playing = Id3(e, e.cur)
        BY <1>3, <1>5, <3>1
      <4> QED BY <2>1, <4>1, <4>2, <4>3 DEF Heard
    <3>2. CASE manual /\ Id3(e, e.cur) = None
      BY <1>3, <1>5, <3>2 DEF Heard
    <3>3. CASE ~manual
      <4>1. r.playing = e.playing
        BY <1>3, <1>5, <3>3
      <4> QED BY <1>2, <2>1, <4>1, HeardKept
    <3> QED BY <3>1, <3>2, <3>3
  <2>5. Buffer(r, Behind(r)) /\ Told(r)
    BY <2>1, <2>2, <2>3, <2>4 DEF Buffer, Alone, Roomy, Told
  <2>6. Steady(r) /\ Awake(r)
    BY <1>3, <1>5, <2>1, <2>2 DEF Steady, Awake, Still, Done
  <2> QED BY <2>5, <2>6 DEF Good, r
<1> QED BY <1>4, <1>5

\* The change that follows the end of a track, with the entry after the position
\* being the current one.
LEMMA GoodByItself ==
  ASSUME NEW e, Sound(e, FALSE), e.status # "stopped", e.stat = "ok", e.cur # 0,
         Buffer(e, 1), Told(e), Still(e), e.skip = "auto"
  PROVE  Good(ChangeByItself(e))
<1> DEFINE p == FALSE
           m == WithMark(e, "buffered")
<1>1. p \in BOOLEAN /\ Sound(e, p)
  OBVIOUS
<1>2. ChangeByItself(e) = StartTrack(m, FALSE)
  BY DEF ChangeByItself, WithMark
<1>3. Sound(m, p) /\ Only(m, e, {"mark"}) /\ m.mark = "buffered"
  <2> HIDE DEF p
  <2> QED BY <1>1, MarkSet
<1> HIDE DEF m
<1>4. /\ m.q = e.q /\ m.list = e.list /\ m.cur = e.cur /\ m.peek = e.peek
      /\ m.playing = e.playing /\ m.loading = e.loading /\ m.filling = e.filling
      /\ m.inbox = e.inbox /\ m.skip = e.skip /\ m.late = e.late
      /\ m.status = e.status /\ m.codec = e.codec /\ m.stat = e.stat
  BY <1>3 DEF Only, Fields
<1>5. Audio(m) <=> Audio(e)
  BY <1>4, AudioIs
<1>6. Behind(m) = 1
  BY <1>4 DEF Behind
<1>7. Order(m, 1) /\ Heard(m)
  BY <1>4, OrderKept, HeardKept DEF Buffer
<1>8. Buffer(m, Behind(m)) /\ Told(m) /\ Still(m)
  BY <1>4, <1>5, <1>6, <1>7 DEF Buffer, Alone, Roomy, Told, Still, Done
<1>9. Good(StartTrack(m, FALSE))
  BY <1>3, <1>4, <1>8, GoodStart
<1> QED BY <1>2, <1>9

\* The track after the position is loaded anew.
LEMMA GoodReload ==
  ASSUME Calm, NEW e, Sound(e, FALSE), e.status # "stopped", Heard(e),
         Still(e), e.skip = "auto", Peek(e.q, 1) # None
  PROVE  Good(Reload(e, 0))
<1> DEFINE p == FALSE
           k == 0
           b == 1
           r == Rebuffer(e, "none", k)
<1>1. /\ p \in BOOLEAN /\ Sound(e, p)
      /\ k \in Int /\ b \in {0, 1} /\ k = b - 1
  <2>1. p \in BOOLEAN /\ Sound(e, p)
    OBVIOUS
  <2>2. k \in Int /\ b \in {0, 1} /\ k = b - 1
    OBVIOUS
  <2> QED BY <2>1, <2>2
<1>2. /\ Sound(r, p) /\ Only(r, e, BufferFields) /\ Alike(r, e, {"finish"})
  <2> HIDE DEF p, k
  <2> QED BY <1>1, Rebuffered
<1>3. /\ Order(r, b) /\ Told(r) /\ Roomy(r) /\ Alone(r) /\ Heard(r)
      /\ r.cur = 1 /\ r.stat = "ok"
  <2>1. Peek(e.q, b) # None
    OBVIOUS
  <2> HIDE DEF p, k, b
  <2> QED BY <1>1, <2>1, Restarted
<1> HIDE DEF r, p
<1>4. r.status = e.status /\ r.skip = e.skip /\ r.codec = e.codec /\ r.late = e.late
  BY <1>2 DEF Only, Fields, BufferFields
<1>5. Still(r)
  <2>1. In(r.inbox, "complete") <=> In(e.inbox, "complete")
    BY <1>2 DEF Alike
  <2> QED BY <1>4, <2>1 DEF Still, Done
<1>6. Buffer(r, 1)
  BY <1>3 DEF Buffer
<1>7. Good(ChangeByItself(r))
  <2>1. Sound(r, FALSE)
    BY <1>2 DEF p
  <2>2. r.status # "stopped" /\ r.cur # 0 /\ r.skip = "auto"
    BY <1>3, <1>4
  <2> QED BY <1>3, <1>5, <1>6, <2>1, <2>2, GoodByItself
<1>8. Reload(e, k) = ChangeByItself(r)
  BY <1>3 DEF Reload, r
<1> QED BY <1>7, <1>8

\* The end of the queue: the PCM of the last track is waited for.
LEMMA GoodMonitorEnd ==
  ASSUME NEW e, Sound(e, FALSE), e.status # "stopped", e.late = FALSE,
         Buffer(e, 0), e.loading = "no", e.codec # "decoding",
         e.cur = 0 => Peek(e.q, e.peek + 1) = None,
         In(e.inbox, "complete") => e.cur = 0,
         AllOk(file) => e.cur # 0
  PROVE  Good(MonitorEnd(e))
<1> DEFINE p == FALSE
           r == MonitorEnd(e)
<1>1. p \in BOOLEAN /\ Sound(e, p)
  OBVIOUS
<1>2. /\ Sound(r, p) /\ Only(r, e, {"skip", "filling", "mark"})
      /\ r.skip = "endlist" /\ r.filling = "ending" /\ r.mark = "buffered"
  <2> HIDE DEF p
  <2> QED BY <1>1, MonitorEndIs
<1> HIDE DEF r
<1>3. /\ r.q = e.q /\ r.list = e.list /\ r.cur = e.cur /\ r.peek = e.peek
      /\ r.playing = e.playing /\ r.loading = e.loading
      /\ r.inbox = e.inbox /\ r.late = e.late
      /\ r.status = e.status /\ r.codec = e.codec
  BY <1>2 DEF Only, Fields
<1>4. Audio(r) <=> Audio(e)
  BY <1>3, AudioIs
<1>5. Behind(r) = 0
  BY <1>2 DEF Behind
<1>6. Order(r, 0) /\ Heard(r)
  BY <1>3, OrderKept, HeardKept DEF Buffer
<1>7. Buffer(r, Behind(r)) /\ Told(r)
  BY <1>2, <1>3, <1>4, <1>5, <1>6 DEF Buffer, Alone, Roomy, Told
<1>8. Steady(r) /\ Awake(r)
  BY <1>2, <1>3 DEF Steady, Awake, Done
<1> QED BY <1>7, <1>8 DEF Good, r

\* What there is when a track has come to its end.
Over(e) ==
    /\ Buffer(e, Behind(e)) /\ Told(e)
    /\ e.skip # "newlist" /\ (e.skip # "none" => e.mark # "none")
    /\ e.codec # "decoding"
    /\ e.cur # 0 => Audio(e) /\ ~In(e.inbox, "complete")
    /\ e.cur = 0 => Peek(e.q, e.peek + 1) = None
    /\ AllOk(file) => e.cur # 0

\* Without a current track there is nothing ahead.
LEMMA NothingAhead ==
  ASSUME Calm, NEW e, Sound(e, FALSE), Order(e, 0), e.cur = 0,
         Peek(e.q, e.peek + 1) = None
  PROVE  Peek(e.q, 1) = None
<1>1. CASE e.peek = 0 - 1
  <2>1. Sane(e.q) /\ e.q.repeat \in Plain
    BY DEF Sound, Fit, Tame
  <2>2. e.peek + 1 = 0
    BY <1>1
  <2>3. Peek(e.q, 0) = None
    BY <2>2
  <2> QED BY <2>1, <2>3, Beyond
<1>2. CASE e.peek # 0 - 1
  BY <1>2 DEF Order
<1> QED BY <1>1, <1>2

-----------------------------------------------------------------------------
(* The end of a track, and of a track change.                              *)

\* The next entry of the buffer becomes the current one.
LEMMA SteppedInOrder ==
  ASSUME NEW e, Fit(e), Order(e, 0), Buffered(e, 1), NEW r, r.q = e.q,
         r.list = e.list, r.peek = e.peek, r.cur = e.cur + 1
  PROVE  Order(r, 1) /\ r.cur # 0 /\ Peek(e.q, 1) # None
<1> DEFINE n == Len(e.list)
<1>1. /\ n \in Nat /\ e.cur \in Nat /\ e.cur # 0 /\ DOMAIN e.list = 1 .. n
      /\ e.list \in Seq(Tracks) /\ e.cur + 1 \in 1 .. n /\ e.peek \in Int
  BY Numbers DEF Buffered
<1>2. ASSUME NEW i \in DOMAIN r.list PROVE r.list[i] = Peek(r.q, i - r.cur + 1)
  <2>1. i \in DOMAIN e.list
    BY <1>2
  <2>2. r.list[i] = Peek(r.q, i - e.cur + 0)
    BY <2>1 DEF Order
  <2>3. i - e.cur + 0 = i - r.cur + 1
    BY <1>1, <2>1
  <2> QED BY <2>2, <2>3
<1>3. r.peek = 1 + Len(r.list) - r.cur /\ r.cur # 0
  <2>1. e.peek = 0 + n - e.cur
    BY <1>1 DEF Order
  <2>2. Len(r.list) = n
    OBVIOUS
  <2> HIDE DEF n
  <2> QED BY <1>1, <2>1, <2>2
<1>4. Peek(e.q, 1) # None
  <2>1. e.list[e.cur + 1] = Peek(e.q, (e.cur + 1) - e.cur + 0)
    BY <1>1 DEF Order
  <2>2. (e.cur + 1) - e.cur + 0 = 1
    BY <1>1
  <2>3. e.list[e.cur + 1] \in Tracks
    BY <1>1
  <2> QED BY <2>1, <2>2, <2>3, NoneAssumption
<1>5. Order(r, 1)
  BY <1>2, <1>3 DEF Order
<1> QED BY <1>3, <1>4, <1>5

LEMMA GoodNextTrack ==
  ASSUME Calm, NEW e, Sound(e, FALSE), e.status # "stopped", e.late = FALSE,
         e.skip = "auto", Buffer(e, 0), Told(e), e.codec # "decoding",
         e.cur # 0 => Audio(e) /\ ~In(e.inbox, "complete"),
         e.cur = 0 => Peek(e.q, e.peek + 1) = None,
         AllOk(file) => e.cur # 0
  PROVE  Good(NextTrack(e))
<1> DEFINE p == FALSE
           c == WithCur(e, e.cur + 1)
           at == WithStat(c, "ok")
           one == 1
           b == Rebuffer(at, "current", one)
           o == WithStat(b, "ok")
           list == WithSkip(e, "newlist")
<1>1. p \in BOOLEAN /\ Sound(e, p) /\ Fit(e)
  BY DEF Sound
<1>2. Order(e, 0) /\ Heard(e)
  BY DEF Buffer
<1>3. e.cur = 0 => Peek(e.q, 1) = None
  BY <1>2, NothingAhead
<1>4. CASE Buffered(e, 1)
  <2>1. NextTrack(e) = IF HasAudio(at, at.cur) THEN ChangeByItself(at)
                       ELSE IF at.loading = "read" THEN ChangeByItself(o)
                       ELSE Reload(at, 0)
    BY <1>4 DEF NextTrack, WithCur, WithStat
  <2>2. e.cur # 0 /\ e.cur + 1 \in 1 .. Len(e.list)
    BY <1>4 DEF Buffered
  <2>3. Sound(c, p) /\ Only(c, e, {"cur"}) /\ c.cur = e.cur + 1
    <3> HIDE DEF p
    <3> QED BY <1>1, <2>2, CurSet
  <2> HIDE DEF c
  <2>4. Sound(at, p) /\ Only(at, c, {"stat"}) /\ at.stat = "ok"
    <3> HIDE DEF p
    <3> QED BY <1>1, <2>3, StatSet
  <2> HIDE DEF at, p
  <2>5. /\ at.q = e.q /\ at.list = e.list /\ at.peek = e.peek /\ at.playing = e.playing
        /\ at.loading = e.loading /\ at.filling = e.filling /\ at.inbox = e.inbox
        /\ at.skip = e.skip /\ at.late = e.late /\ at.status = e.status
        /\ at.codec = e.codec /\ at.cur = e.cur + 1
    BY <2>3, <2>4 DEF Only, Fields
  <2>6. Order(at, 1) /\ at.cur # 0 /\ Peek(e.q, 1) # None
    BY <1>1, <1>2, <1>4, <2>5, SteppedInOrder
  <2>7. Heard(at) /\ Told(at)
    BY <1>2, <2>5, HeardKept DEF Told
  <2>8. Still(at)
    BY <2>2, <2>5 DEF Still, Done
  <2>9. Sound(at, FALSE) /\ at.status # "stopped"
    <3>1. Sound(at, FALSE)
      BY <2>4 DEF p
    <3> QED BY <2>5, <3>1
  <2>10. CASE HasAudio(at, at.cur)
    <3>1. Audio(at)
      BY <2>6, <2>10 DEF Audio
    <3>2. Buffer(at, 1)
      BY <2>6, <2>7, <3>1 DEF Buffer, Alone, Roomy
    <3>3. Good(ChangeByItself(at))
      BY <2>4, <2>5, <2>6, <2>7, <2>8, <2>9, <3>2, GoodByItself
    <3> QED BY <2>1, <2>10, <3>3
  <2>11. CASE ~HasAudio(at, at.cur) /\ at.loading = "read"
    <3>1. one \in {0, 1} /\ one \in Int /\ p \in BOOLEAN /\ Order(at, one)
      BY <1>1, <2>6
    <3>2. /\ Sound(b, p) /\ Only(b, at, BufferFields) /\ Alike(b, at, {"finish"})
      <4> HIDE DEF one
      <4> QED BY <2>4, <3>1, Rebuffered
    <3>3. /\ Order(b, one) /\ Told(b) /\ Roomy(b) /\ Alone(b) /\ Heard(b)
          /\ b.cur # 0
      <4> HIDE DEF one
      <4> QED BY <2>4, <2>6, <2>7, <2>9, <3>1, Reordered
    <3> HIDE DEF b
    <3>4. Sound(o, p) /\ Only(o, b, {"stat"}) /\ o.stat = "ok"
      BY <3>1, <3>2, StatSet
    <3> HIDE DEF o
    <3>5. /\ o.q = b.q /\ o.list = b.list /\ o.peek = b.peek /\ o.cur = b.cur
          /\ o.playing = b.playing /\ o.loading = b.loading /\ o.filling = b.filling
          /\ o.inbox = b.inbox
      BY <3>4 DEF Only, Fields
    <3>6. o.status = at.status /\ o.skip = at.skip /\ o.late = at.late
          /\ o.codec = at.codec
      BY <3>2, <3>4 DEF Only, Fields, BufferFields
    <3>7. Audio(o) <=> Audio(b)
      BY <3>5, AudioIs
    <3>8. Order(o, 1) /\ Heard(o)
      BY <3>3, <3>5, OrderKept, HeardKept
    <3>9. Buffer(o, 1) /\ Told(o)
      BY <3>3, <3>5, <3>7, <3>8 DEF Buffer, Alone, Roomy, Told
    <3>10. Still(o)
      <4>1. In(o.inbox, "complete") <=> In(at.inbox, "complete")
        BY <3>2, <3>5 DEF Alike
      <4> QED BY <2>8, <3>6, <4>1 DEF Still, Done
    <3>11. Sound(o, FALSE)
      BY <3>4 DEF p
    <3>12. o.status # "stopped" /\ o.cur # 0 /\ o.skip = "auto"
      BY <2>5, <2>9, <3>3, <3>5, <3>6
    <3>13. Good(ChangeByItself(o))
      BY <3>4, <3>9, <3>10, <3>11, <3>12, GoodByItself
    <3> QED BY <2>1, <2>11, <3>13
  <2>12. CASE ~HasAudio(at, at.cur) /\ at.loading # "read"
    <3>1. Peek(at.q, 1) # None /\ at.skip = "auto"
      BY <2>5, <2>6
    <3>2. Good(Reload(at, 0))
      BY <2>7, <2>8, <2>9, <3>1, GoodReload
    <3> QED BY <2>1, <2>12, <3>2
  <2> QED BY <2>10, <2>11, <2>12
<1>5. CASE ~Buffered(e, 1) /\ Peek(e.q, 1) # None
  <2>1. NextTrack(e) = Reload(e, 0)
    BY <1>5 DEF NextTrack
  <2>2. Still(e)
    BY <1>3, <1>5 DEF Still, Done
  <2>3. Good(Reload(e, 0))
    BY <1>2, <1>5, <2>2, GoodReload
  <2> QED BY <2>1, <2>3
<1>6. CASE ~Buffered(e, 1) /\ Peek(e.q, 1) = None
  <2>1. NextIndex(e.q, 1) = -1
    <3>1. Sane(e.q) /\ e.q.repeat \in Plain
      BY DEF Sound, Fit, Tame
    <3> QED BY <1>6, <3>1, NextIndexPeek
  <2>2. NextTrack(e) = MonitorEnd(list)
    BY <1>6, <2>1 DEF NextTrack, WithSkip
  <2>3. e.loading = "no"
    <3>1. CASE e.cur = 0
      BY <1>1, <3>1 DEF Fit
    <3>2. CASE e.cur # 0
      <4>1. e.cur = Len(e.list)
        <5>1. Len(e.list) \in Nat /\ e.cur \in Nat /\ e.cur <= Len(e.list)
          BY <1>1, Numbers
        <5>2. e.cur + 1 \notin 1 .. Len(e.list)
          BY <1>6, <3>2 DEF Buffered
        <5> QED BY <5>1, <5>2
      <4> QED BY <3>2, <4>1, AudioIs
    <3> QED BY <3>1, <3>2
  <2>4. Sound(list, p) /\ Only(list, e, {"skip"})
    <3> HIDE DEF p
    <3> QED BY <1>1, SkipSet
  <2> HIDE DEF list
  <2>5. /\ list.q = e.q /\ list.list = e.list /\ list.peek = e.peek
        /\ list.playing = e.playing /\ list.loading = e.loading
        /\ list.filling = e.filling /\ list.inbox = e.inbox /\ list.late = e.late
        /\ list.status = e.status /\ list.codec = e.codec /\ list.cur = e.cur
    BY <2>4 DEF Only, Fields
  <2>6. Order(list, 0) /\ Heard(list)
    BY <1>2, <2>5, OrderKept, HeardKept
  <2>7. Audio(list) <=> Audio(e)
    BY <2>5, AudioIs
  <2>8. Buffer(list, 0)
    BY <2>5, <2>6, <2>7 DEF Buffer, Alone, Roomy
  <2>9. Good(MonitorEnd(list))
    BY <2>3, <2>4, <2>5, <2>8, GoodMonitorEnd
  <2> QED BY <2>2, <2>9
<1> QED BY <1>4, <1>5, <1>6

LEMMA GoodComplete ==
  ASSUME Calm, NEW e, Sound(e, FALSE), e.status # "stopped", Over(e)
  PROVE  Good(OnCodecComplete(e))
<1> DEFINE p == FALSE
           l == WithLate(e, FALSE)
           s == WithSkip(l, "auto")
           r == WithLate(e, TRUE)
<1>1. p \in BOOLEAN /\ Sound(e, p)
  OBVIOUS
<1>2. CASE e.status = "paused" \/ e.skip # "none"
  <2>1. OnCodecComplete(e) = r
    BY <1>2 DEF OnCodecComplete, RememberComplete, WithLate
  <2>2. Sound(r, p) /\ Only(r, e, {"late"}) /\ r.late = TRUE
    <3> HIDE DEF p
    <3> QED BY <1>1, LateSet
  <2> HIDE DEF r
  <2>3. /\ r.q = e.q /\ r.list = e.list /\ r.peek = e.peek
        /\ r.playing = e.playing /\ r.loading = e.loading
        /\ r.filling = e.filling /\ r.inbox = e.inbox /\ r.skip = e.skip
        /\ r.status = e.status /\ r.codec = e.codec /\ r.cur = e.cur
        /\ r.mark = e.mark
    BY <2>2 DEF Only, Fields
  <2>4. Audio(r) <=> Audio(e)
    BY <2>3, AudioIs
  <2>5. Behind(r) = Behind(e)
    BY <2>3, BehindIs
  <2>6. Order(r, Behind(e)) /\ Heard(r)
    BY <2>3, OrderKept, HeardKept DEF Over, Buffer
  <2>7. Buffer(r, Behind(r)) /\ Told(r)
    BY <2>3, <2>4, <2>5, <2>6 DEF Over, Buffer, Alone, Roomy, Told
  <2>8. Steady(r) /\ Awake(r)
    <3>1. e.status = "playing" => e.skip # "none"
      BY <1>2
    <3>2. ~In(e.inbox, "complete") => Once(e.inbox, "complete")
      BY DEF In, Once
    <3>3. Done(r)
      BY <2>2 DEF Done
    <3> QED BY <2>2, <2>3, <2>4, <3>1, <3>2, <3>3 DEF Over, Steady, Awake
  <2> QED BY <2>1, <2>7, <2>8 DEF Good
<1>3. CASE ~(e.status = "paused" \/ e.skip # "none")
  <2>1. OnCodecComplete(e) = NextTrack(s)
    <3>1. OnCodecComplete(e) = NextTrack([e EXCEPT !.late = FALSE, !.skip = "auto"])
      BY <1>3 DEF OnCodecComplete
    <3>2. s = [e EXCEPT !.late = FALSE, !.skip = "auto"]
      BY DEF WithSkip, WithLate
    <3> QED BY <3>1, <3>2
  <2>2. Sound(l, p) /\ Only(l, e, {"late"}) /\ l.late = FALSE
    <3> HIDE DEF p
    <3> QED BY <1>1, LateSet
  <2> HIDE DEF l
  <2>3. l.status # "stopped"
    BY <2>2 DEF Only, Fields
  <2>4. Sound(s, p) /\ Only(s, l, {"skip"}) /\ s.skip = "auto"
    <3> HIDE DEF p
    <3> QED BY <1>1, <2>2, <2>3, SkipSet
  <2> HIDE DEF s
  <2>5. /\ s.q = e.q /\ s.list = e.list /\ s.peek = e.peek
        /\ s.playing = e.playing /\ s.loading = e.loading
        /\ s.filling = e.filling /\ s.inbox = e.inbox
        /\ s.status = e.status /\ s.codec = e.codec /\ s.cur = e.cur
    BY <2>2, <2>4 DEF Only, Fields
  <2>6. s.late = FALSE
    BY <2>2, <2>4 DEF Only, Fields
  <2>7. Behind(e) = 0
    BY <1>3 DEF Behind
  <2>8. Order(s, 0) /\ Heard(s)
    BY <2>5, <2>7, OrderKept, HeardKept DEF Over, Buffer
  <2>9. Audio(s) <=> Audio(e)
    BY <2>5, AudioIs
  <2>10. Buffer(s, 0) /\ Told(s)
    BY <2>5, <2>8, <2>9 DEF Over, Buffer, Alone, Roomy, Told
  <2>11. Sound(s, FALSE)
    BY <2>4
  <2>12. /\ s.codec # "decoding"
         /\ s.cur # 0 => Audio(s) /\ ~In(s.inbox, "complete")
         /\ s.cur = 0 => Peek(s.q, s.peek + 1) = None
         /\ AllOk(file) => s.cur # 0
    BY <2>5, <2>9 DEF Over
  <2>13. s.status # "stopped"
    BY <2>5
  <2>14. Good(NextTrack(s))
    BY <2>4, <2>6, <2>10, <2>11, <2>12, <2>13, GoodNextTrack
  <2> QED BY <2>1, <2>14
<1> QED BY <1>2, <1>3

-----------------------------------------------------------------------------
(* The PCM has come to the end of a track.                                 *)

\* What the listener sees is the track that is decoded; what the codec was done
\* with in the meantime is yet to be seen to.
Seen(e) ==
    /\ e.skip = "none" /\ Buffer(e, 0) /\ Told(e) /\ Awake(e)
    /\ e.codec = "decoding" => Audio(e) /\ ~Done(e)
    /\ Done(e) /\ e.cur = 0 => Peek(e.q, e.peek + 1) = None
    /\ Done(e) /\ e.cur # 0 => /\ Audio(e) /\ Once(e.inbox, "complete")
                               /\ ~(e.late /\ In(e.inbox, "complete"))
    /\ AllOk(file) => e.cur # 0

LEMMA GoodSeen ==
  ASSUME Calm, NEW e, Sound(e, FALSE), e.status # "stopped", Seen(e)
  PROVE  Good(IF e.late THEN OnCodecComplete([e EXCEPT !.late = FALSE]) ELSE e)
<1> DEFINE p == FALSE
           l == WithLate(e, FALSE)
<1>1. p \in BOOLEAN /\ Sound(e, p) /\ Behind(e) = 0
  BY DEF Seen, Behind
<1>2. CASE ~e.late
  <2>1. Steady(e)
    BY <1>2 DEF Seen, Steady
  <2>2. Good(e)
    BY <1>1, <2>1 DEF Seen, Good
  <2> QED BY <1>2, <2>2
<1>3. CASE e.late
  <2>1. l = [e EXCEPT !.late = FALSE]
    BY DEF WithLate
  <2>2. Sound(l, p) /\ Only(l, e, {"late"})
    <3> HIDE DEF p
    <3> QED BY <1>1, LateSet
  <2> HIDE DEF l
  <2>3. /\ l.q = e.q /\ l.list = e.list /\ l.peek = e.peek /\ l.mark = e.mark
        /\ l.playing = e.playing /\ l.loading = e.loading /\ l.skip = e.skip
        /\ l.filling = e.filling /\ l.inbox = e.inbox
        /\ l.status = e.status /\ l.codec = e.codec /\ l.cur = e.cur
    BY <2>2 DEF Only, Fields
  <2>4. Audio(l) <=> Audio(e)
    BY <2>3, AudioIs
  <2>5. Behind(l) = 0
    BY <1>1, <2>3, BehindIs
  <2>6. Order(l, 0) /\ Heard(l)
    BY <2>3, OrderKept, HeardKept DEF Seen, Buffer
  <2>7. Buffer(l, Behind(l)) /\ Told(l)
    BY <2>3, <2>4, <2>5, <2>6 DEF Seen, Buffer, Alone, Roomy, Told
  <2>8. Done(e)
    BY <1>3 DEF Done
  <2>9. Over(l)
    BY <1>3, <2>3, <2>4, <2>7, <2>8 DEF Seen, Over
  <2>10. Sound(l, FALSE) /\ l.status # "stopped"
    BY <2>2, <2>3
  <2>11. Good(OnCodecComplete(l))
    BY <2>9, <2>10, GoodComplete
  <2> QED BY <1>3, <2>1, <2>11
<1> QED BY <1>2, <1>3

\* Queue and display follow, or playback ends.
LEMMA SeenFinalise ==
  ASSUME Calm, NEW e, Sound(e, FALSE), e.status # "stopped",
         Buffer(e, Behind(e)), Told(e), Awake(e), e.skip # "newlist",
         e.codec = "decoding" => Audio(e) /\ ~Done(e),
         Done(e) /\ e.cur = 0 => Peek(e.q, e.peek + 1) = None,
         Done(e) /\ e.cur # 0 => /\ Audio(e) /\ Once(e.inbox, "complete")
                                 /\ ~(e.late /\ In(e.inbox, "complete")),
         AllOk(file) => e.cur # 0
  PROVE  LET r == Finalise(e)
         IN  \/ r.status = "stopped" /\ r.late = FALSE
             \/ r.status # "stopped" /\ Seen(r)
<1> DEFINE p == FALSE
           one == 1
           a == Arrive(e, one)
           s == WithSkip(e, "none")
<1>1. p \in BOOLEAN /\ Sound(e, p) /\ one \in Int /\ e.q \in Queue
  BY DEF Sound, Fit, Engine
<1>2. Heard(e) /\ Alone(e) /\ Roomy(e) /\ Order(e, Behind(e))
  BY DEF Buffer
<1>3. CASE e.skip = "none"
  <2> DEFINE r == Shown(e)
  <2>1. Finalise(e) = r
    BY <1>3 DEF Finalise
  <2>2. Order(e, 0)
    BY <1>2, <1>3 DEF Behind
  <2>3. /\ Sound(r, p) /\ Only(r, e, {"skip", "playing"}) /\ r.skip = "none"
        /\ Heard(r)
    <3> HIDE DEF p
    <3> QED BY <1>1, <2>2, ShownIs, ShownHeard
  <2> HIDE DEF r
  <2>4. /\ r.q = e.q /\ r.list = e.list /\ r.peek = e.peek /\ r.mark = e.mark
        /\ r.loading = e.loading /\ r.late = e.late
        /\ r.filling = e.filling /\ r.inbox = e.inbox
        /\ r.status = e.status /\ r.codec = e.codec /\ r.cur = e.cur
    BY <2>3 DEF Only, Fields
  <2>5. Audio(r) <=> Audio(e)
    BY <2>4, AudioIs
  <2>6. Order(r, 0)
    BY <2>2, <2>4, OrderKept
  <2>7. Buffer(r, 0) /\ Told(r)
    BY <1>2, <2>3, <2>4, <2>5, <2>6 DEF Buffer, Alone, Roomy, Told
  <2>8. Awake(r) /\ (Done(r) <=> Done(e))
    BY <1>3, <2>4, <2>5 DEF Awake, Done
  <2>9. Seen(r) /\ r.status # "stopped"
    BY <2>3, <2>4, <2>5, <2>7, <2>8 DEF Seen
  <2> QED BY <2>1, <2>9
<1>4. CASE e.skip = "endlist"
  <2>1. Finalise(e) = End(e)
    BY <1>4 DEF Finalise
  <2>2. End(e).status = "stopped" /\ End(e).late = FALSE
    <3> HIDE DEF p
    <3> QED BY <1>1, EndIs
  <2> QED BY <2>1, <2>2
<1>5. CASE e.skip = "auto" /\ Peek(e.q, one) # None
  <2> DEFINE r == Shown(a)
  <2>1. Finalise(e) = r
    BY <1>5 DEF Finalise
  <2>2. NextIndex(e.q, one) # -1
    <3> HIDE DEF one
    <3> QED BY <1>1, <1>5, PeekNext
  <2>3. /\ Sound(a, p) /\ Only(a, e, {"q", "peek"}) /\ a.peek = e.peek - one
        /\ \A j \in Int : Peek(a.q, j) = Peek(e.q, one + j)
    <3> HIDE DEF p, one
    <3> QED BY <1>1, <2>2, Arrived
  <2> HIDE DEF a
  <2>4. /\ a.list = e.list /\ a.mark = e.mark
        /\ a.loading = e.loading /\ a.late = e.late
        /\ a.filling = e.filling /\ a.inbox = e.inbox
        /\ a.status = e.status /\ a.codec = e.codec /\ a.cur = e.cur
        /\ a.skip = e.skip
    BY <2>3 DEF Only, Fields
  <2>5. Order(e, 1)
    BY <1>2, <1>5 DEF Behind
  <2>6. /\ DOMAIN e.list = 1 .. Len(e.list) /\ Len(e.list) \in Nat /\ e.cur \in Nat
        /\ e.peek \in Int
    BY Numbers DEF Sound
  <2>7. Order(a, 0)
    <3>1. ASSUME NEW i \in DOMAIN a.list PROVE a.list[i] = Peek(a.q, i - a.cur + 0)
      <4> DEFINE j == i - a.cur + 0
      <4>1. i \in DOMAIN e.list /\ i \in Nat
        BY <2>4, <2>6, <3>1
      <4>2. a.list[i] = Peek(e.q, i - e.cur + 1)
        BY <2>4, <2>5, <4>1 DEF Order
      <4>3. j \in Int /\ i - e.cur + 1 = one + j
        BY <2>4, <2>6, <4>1
      <4> HIDE DEF j, one
      <4>4. Peek(a.q, j) = Peek(e.q, one + j)
        BY <2>3, <4>3
      <4> QED BY <4>2, <4>3, <4>4 DEF j
    <3>2. a.cur # 0 => a.peek = 0 + Len(a.list) - a.cur
      <4>1. e.cur # 0 => e.peek = 1 + Len(e.list) - e.cur
        BY <2>5 DEF Order
      <4>2. a.peek = e.peek - 1 /\ a.list = e.list /\ a.cur = e.cur
        BY <2>3, <2>4
      <4> QED BY <2>6, <4>1, <4>2
    <3>3. a.cur = 0 => a.peek = 0 - 1
      <4>1. e.cur = 0 => e.peek = 1 - 1
        BY <2>5 DEF Order
      <4>2. a.peek = e.peek - 1 /\ a.cur = e.cur
        BY <2>3, <2>4
      <4> QED BY <2>6, <4>1, <4>2
    <3> QED BY <3>1, <3>2, <3>3 DEF Order
  <2>8. /\ Sound(r, p) /\ Only(r, a, {"skip", "playing"}) /\ r.skip = "none"
        /\ Heard(r)
    <3> HIDE DEF p
    <3> QED BY <1>1, <2>3, <2>4, <2>7, ShownIs, ShownHeard
  <2> HIDE DEF r
  <2>9. /\ r.q = a.q /\ r.list = e.list /\ r.peek = a.peek /\ r.mark = e.mark
        /\ r.loading = e.loading /\ r.late = e.late
        /\ r.filling = e.filling /\ r.inbox = e.inbox
        /\ r.status = e.status /\ r.codec = e.codec /\ r.cur = e.cur
    BY <2>4, <2>8 DEF Only, Fields
  <2>10. Audio(r) <=> Audio(e)
    BY <2>9, AudioIs
  <2>11. Order(r, 0)
    BY <2>4, <2>7, <2>9, OrderKept
  <2>12. Buffer(r, 0) /\ Told(r)
    BY <1>2, <2>8, <2>9, <2>10, <2>11 DEF Buffer, Alone, Roomy, Told
  <2>13. Awake(r) /\ (Done(r) <=> Done(e))
    BY <1>5, <2>9, <2>10 DEF Awake, Done
  <2>14. Peek(r.q, r.peek + 1) = Peek(e.q, e.peek + 1)
    <3> DEFINE j == a.peek + 1
    <3>1. j \in Int /\ one + j = e.peek + 1
      <4>1. a.peek = e.peek - 1
        BY <2>3
      <4> QED BY <2>6, <4>1
    <3> HIDE DEF j, one
    <3>2. Peek(a.q, j) = Peek(e.q, one + j)
      BY <2>3, <3>1
    <3> QED BY <2>9, <3>1, <3>2 DEF j
  <2>15. Seen(r) /\ r.status # "stopped"
    BY <2>8, <2>9, <2>10, <2>12, <2>13, <2>14 DEF Seen
  <2> QED BY <2>1, <2>15
<1>6. CASE e.skip = "auto" /\ Peek(e.q, one) = None
  <2> DEFINE r == StartCodecFailed(s)
  <2>1. Finalise(e) = r
    BY <1>6 DEF Finalise, WithSkip
  <2>2. Sound(s, p) /\ Only(s, e, {"skip"}) /\ s.skip = "none"
    <3> HIDE DEF p
    <3> QED BY <1>1, SkipSet
  <2> HIDE DEF s
  <2>3. s.status # "stopped"
    BY <2>2 DEF Only, Fields
  <2>4. /\ Sound(r, p) /\ Only(r, s, {"inbox"}) /\ Alike(r, s, {"complete"})
        /\ In(r.inbox, "complete")
    <3> HIDE DEF p
    <3> QED BY <1>1, <2>2, <2>3, Completed
  <2> HIDE DEF r
  <2>5. /\ r.q = e.q /\ r.list = e.list /\ r.peek = e.peek /\ r.mark = e.mark
        /\ r.loading = e.loading /\ r.late = e.late
        /\ r.filling = e.filling /\ r.playing = e.playing
        /\ r.status = e.status /\ r.codec = e.codec /\ r.cur = e.cur
        /\ r.skip = "none"
    BY <2>2, <2>4 DEF Only, Fields
  <2>6. Order(e, 1)
    BY <1>2, <1>6 DEF Behind
  <2>7. e.cur = 0
    <3>1. ASSUME e.cur # 0 PROVE FALSE
      <4>1. /\ e.cur \in DOMAIN e.list /\ e.cur \in Nat /\ e.list \in Seq(Tracks)
        BY <3>1, Numbers DEF Sound
      <4>2. e.list[e.cur] = Peek(e.q, e.cur - e.cur + 1)
        BY <2>6, <4>1 DEF Order
      <4>3. e.cur - e.cur + 1 = 1
        BY <4>1
      <4>4. e.list[e.cur] \in Tracks
        BY <4>1
      <4> QED BY <1>6, <4>2, <4>3, <4>4, NoneAssumption
    <3> QED BY <3>1
  <2>8. e.peek = 0 /\ e.list = <<>> /\ e.loading = "no"
    <3>1. e.peek = 1 - 1
      BY <2>6, <2>7 DEF Order
    <3>2. e.list = <<>> /\ e.loading = "no"
      BY <2>7 DEF Sound, Fit
    <3> QED BY <3>1, <3>2
  <2>9. Peek(e.q, e.peek + 1) = None
    BY <1>6, <2>8
  <2>10. Order(r, 0)
    <3>1. DOMAIN r.list = {}
      BY <2>5, <2>8
    <3>2. r.peek = 0 /\ Peek(r.q, 1) = None
      BY <1>6, <2>5, <2>8
    <3> QED BY <2>5, <2>7, <3>1, <3>2 DEF Order
  <2>11. Heard(r)
    BY <1>2, <2>5, HeardKept
  <2>12. Buffer(r, 0) /\ Told(r)
    BY <2>5, <2>7, <2>8, <2>10, <2>11 DEF Buffer, Alone, Roomy, Told
  <2>13. Awake(r)
    BY <2>4 DEF Awake, Done
  <2>14. r.codec # "decoding"
    <3>1. ~Audio(e)
      BY <2>7, AudioIs
    <3> QED BY <2>5, <3>1
  <2>15. Seen(r) /\ r.status # "stopped"
    BY <2>5, <2>7, <2>9, <2>12, <2>13, <2>14 DEF Seen
  <2> QED BY <2>1, <2>15
<1>7. e.skip \in {"none", "auto", "endlist"}
  BY DEF Sound, Fit, Engine
<1> QED BY <1>3, <1>4, <1>5, <1>6, <1>7

LEMMA GoodTrackChanged ==
  ASSUME Calm, NEW e, Sound(e, FALSE), e.status # "stopped", Good(e)
  PROVE  OnTrackChanged(e).status = "stopped" \/ Good(OnTrackChanged(e))
<1> DEFINE p == FALSE
           m == WithMark(e, "none")
           seen == Finalise(m)
<1>1. p \in BOOLEAN /\ Sound(e, p)
  OBVIOUS
<1>2. OnTrackChanged(e) = IF seen.late THEN OnCodecComplete([seen EXCEPT !.late = FALSE])
                          ELSE seen
  BY DEF OnTrackChanged, WithMark
<1>3. Sound(m, p) /\ Only(m, e, {"mark"})
  <2> HIDE DEF p
  <2> QED BY <1>1, MarkSet
<1> HIDE DEF m
<1>4. /\ m.q = e.q /\ m.list = e.list /\ m.peek = e.peek /\ m.late = e.late
      /\ m.playing = e.playing /\ m.loading = e.loading /\ m.skip = e.skip
      /\ m.filling = e.filling /\ m.inbox = e.inbox
      /\ m.status = e.status /\ m.codec = e.codec /\ m.cur = e.cur
  BY <1>3 DEF Only, Fields
<1>5. Audio(m) <=> Audio(e)
  BY <1>4, AudioIs
<1>6. Behind(m) = Behind(e)
  BY <1>4, BehindIs
<1>7. Order(m, Behind(e)) /\ Heard(m)
  BY <1>4, OrderKept, HeardKept DEF Good, Buffer
<1>8. Buffer(m, Behind(m)) /\ Told(m) /\ Awake(m) /\ (Done(m) <=> Done(e))
  BY <1>4, <1>5, <1>6, <1>7 DEF Good, Buffer, Alone, Roomy, Told, Awake, Done
<1>9. Sound(m, FALSE) /\ m.status # "stopped"
  BY <1>3, <1>4
<1>10. /\ m.skip # "newlist"
       /\ m.codec = "decoding" => Audio(m) /\ ~Done(m)
       /\ Done(m) /\ m.cur = 0 => Peek(m.q, m.peek + 1) = None
       /\ Done(m) /\ m.cur # 0 => /\ Audio(m) /\ Once(m.inbox, "complete")
                                  /\ ~(m.late /\ In(m.inbox, "complete"))
       /\ AllOk(file) => m.cur # 0
  BY <1>4, <1>5, <1>8 DEF Good, Steady
<1>11. \/ seen.status = "stopped" /\ seen.late = FALSE
       \/ seen.status # "stopped" /\ Seen(seen)
  BY <1>8, <1>9, <1>10, SeenFinalise
<1>12. Sound(seen, p)
  <2> HIDE DEF p
  <2> QED BY <1>1, <1>3, <1>9, SoundFinalise
<1> HIDE DEF seen
<1>13. CASE seen.status = "stopped" /\ seen.late = FALSE
  BY <1>2, <1>13
<1>14. CASE seen.status # "stopped" /\ Seen(seen)
  <2>1. Sound(seen, FALSE)
    BY <1>12
  <2>2. Good(IF seen.late THEN OnCodecComplete([seen EXCEPT !.late = FALSE]) ELSE seen)
    BY <1>14, <2>1, GoodSeen
  <2> QED BY <1>2, <2>2
<1> QED BY <1>11, <1>13, <1>14

-----------------------------------------------------------------------------
(* The listener's commands: play, pause and resume.                        *)

\* The engine before the first track of a queue is loaded.
Afresh(e) ==
    IF e.status = "stopped" THEN WithStatus(e, "playing")
    ELSE WithSkip(WithPlaying(Clear(Halt(e), "none"), None), "none")

LEMMA AfreshIs ==
  ASSUME NEW p \in BOOLEAN, ~p, NEW e, Sound(e, p)
  PROVE  LET r == Afresh(e)
         IN  /\ Sound(r, p) /\ r.status # "stopped" /\ r.list = <<>> /\ r.cur = 0
             /\ r.loading = "no" /\ r.codec = "idle" /\ r.mark = "none"
             /\ r.late = FALSE /\ r.skip = "none" /\ r.playing = None
             /\ ~In(r.inbox, "complete")
<1> DEFINE r == Afresh(e)
<1>1. CASE e.status = "stopped"
  <2>1. r = WithStatus(e, "playing")
    BY <1>1 DEF Afresh
  <2>2. /\ Sound(WithStatus(e, "playing"), p)
        /\ WithStatus(e, "playing").status = "playing"
        /\ Only(WithStatus(e, "playing"), e, {"status"})
    BY StatusSet
  <2> HIDE DEF r
  <2>3. Sound(r, p) /\ r.status = "playing" /\ Only(r, e, {"status"})
    BY <2>1, <2>2
  <2>4. /\ r.list = e.list /\ r.cur = e.cur /\ r.loading = e.loading
        /\ r.codec = e.codec /\ r.mark = e.mark /\ r.late = e.late
        /\ r.skip = e.skip /\ r.playing = e.playing /\ r.inbox = e.inbox
    BY <2>3 DEF Only, Fields
  <2>5. /\ e.list = <<>> /\ e.cur = 0 /\ e.loading = "no" /\ e.codec = "idle"
        /\ e.mark = "none" /\ e.skip = "none" /\ e.playing = None
    BY <1>1 DEF Sound, Fit
  <2>6. e.late = FALSE /\ ~In(e.inbox, "complete")
    BY <1>1 DEF Sound, Fit, Engine, Mailed
  <2>7. r.status # "stopped"
    BY <2>3
  <2> QED BY <2>3, <2>4, <2>5, <2>6, <2>7 DEF r
<1>2. CASE e.status # "stopped"
  <2> DEFINE c == Clear(Halt(e), "none")
             n == WithPlaying(c, None)
             s == WithSkip(n, "none")
  <2>1. r = s
    BY <1>2 DEF Afresh
  <2> HIDE DEF r
  <2>2. /\ Sound(c, p)
        /\ Only(c, e, {"inbox", "codec", "mark", "late", "loading", "list", "cur"})
        /\ ~In(c.inbox, "complete")
        /\ c.codec = "idle" /\ c.mark = "none" /\ c.late = FALSE
        /\ c.list = <<>> /\ c.cur = 0 /\ c.loading = "no"
    BY Emptied
  <2> HIDE DEF c
  <2>3. Sound(n, p) /\ n.playing = None /\ Only(n, c, {"playing"})
    BY <2>2, PlayingSet
  <2> HIDE DEF n
  <2>4. Sound(s, p) /\ s.skip = "none" /\ Only(s, n, {"skip"})
    BY <2>3, SkipSet
  <2> HIDE DEF s
  <2>5. /\ s.list = c.list /\ s.cur = c.cur /\ s.loading = c.loading
        /\ s.codec = c.codec /\ s.mark = c.mark /\ s.late = c.late
        /\ s.playing = None /\ s.inbox = c.inbox
    BY <2>3, <2>4 DEF Only, Fields
  <2>6. s.status = e.status
    BY <2>2, <2>3, <2>4 DEF Only, Fields
  <2> QED BY <1>2, <2>1, <2>2, <2>4, <2>5, <2>6 DEF r
<1> QED BY <1>1, <1>2

\* audio_start_playback: the first track is looked for.
LEMMA OnPlayIs ==
  ASSUME NEW e
  PROVE  LET r == Fill(WithPeek(Afresh(e), -1))
         IN  OnPlay(e) = IF r.stat = "ok" THEN WithPlaying(r, Id3(r, r.cur))
                         ELSE LoadFailed(r)
BY DEF OnPlay, Afresh, WithStatus, WithPlaying, WithSkip, WithPeek

LEMMA SoundPlay ==
  ASSUME NEW p \in BOOLEAN, ~p, NEW e, Sound(e, p)
  PROVE  Sound(OnPlay(e), p)
<1> DEFINE a == Afresh(e)
           none == -1
           k == WithPeek(a, none)
           r == Fill(k)
<1>1. OnPlay(e) = IF r.stat = "ok" THEN WithPlaying(r, Id3(r, r.cur))
                  ELSE LoadFailed(r)
  BY OnPlayIs
<1>2. Sound(a, p) /\ a.status # "stopped"
  BY AfreshIs
<1>3. none \in Int
  OBVIOUS
<1> HIDE DEF a, none
<1>4. Sound(k, p) /\ Only(k, a, {"peek"})
  BY <1>2, <1>3, PeekSet
<1>5. k.status = a.status
  BY <1>4 DEF Only, Fields
<1> HIDE DEF k
<1>6. Sound(r, p) /\ Only(r, k, BufferFields) /\ (r.stat = "ok" => r.cur # 0)
  BY <1>4, Filled
<1>7. r.status # "stopped"
  BY <1>2, <1>5, <1>6 DEF Only, Fields, BufferFields
<1> HIDE DEF r
<1>8. CASE r.stat = "ok"
  <2>1. r.cur \in 1 .. Len(r.list)
    BY <1>6, <1>8 DEF Sound, Fit, Engine
  <2>2. Id3(r, r.cur) \in Tracks \cup {None}
    BY <1>6, <2>1, Id3Is DEF Sound
  <2>3. Sound(WithPlaying(r, Id3(r, r.cur)), p)
    BY <1>6, <1>7, <2>2, PlayingSet
  <2> QED BY <1>1, <1>8, <2>3
<1>9. CASE r.stat # "ok"
  <2>1. Sound(LoadFailed(r), p)
    BY <1>6, <1>7, LoadFailedIs
  <2> QED BY <1>1, <1>9, <2>1
<1> QED BY <1>8, <1>9

LEMMA GoodPlay ==
  ASSUME Calm, NEW e, Sound(e, FALSE)
  PROVE  Good(OnPlay(e))
<1> DEFINE p == FALSE
           b == 0
           a == Afresh(e)
           none == -1
           k == WithPeek(a, none)
           r == Fill(k)
           o == OnPlay(e)
<1>1. p \in BOOLEAN /\ ~p /\ Sound(e, p)
  OBVIOUS
<1>2. none \in Int /\ b \in {0, 1} /\ none = b - 1
  OBVIOUS
<1>3. o = IF r.stat = "ok" THEN WithPlaying(r, Id3(r, r.cur)) ELSE LoadFailed(r)
  BY OnPlayIs
<1>4. /\ Sound(a, p) /\ a.status # "stopped" /\ a.list = <<>> /\ a.cur = 0
      /\ a.loading = "no" /\ a.codec = "idle" /\ a.mark = "none"
      /\ a.late = FALSE /\ a.skip = "none" /\ a.playing = None
      /\ ~In(a.inbox, "complete")
  <2> HIDE DEF p
  <2> QED BY <1>1, AfreshIs
<1> HIDE DEF a, o
<1>5. Sound(k, p) /\ Only(k, a, {"peek"}) /\ k.peek = none
  <2> HIDE DEF p, none
  <2> QED BY <1>1, <1>2, <1>4, PeekSet
<1> HIDE DEF k
<1>6. /\ k.q = a.q /\ k.list = a.list /\ k.cur = a.cur /\ k.loading = a.loading
      /\ k.codec = a.codec /\ k.mark = a.mark /\ k.late = a.late
      /\ k.skip = a.skip /\ k.playing = a.playing /\ k.inbox = a.inbox
      /\ k.status = a.status
  BY <1>5 DEF Only, Fields
<1>7. Order(k, b) /\ Told(k) /\ Heard(k) /\ Alone(k)
  <2>1. DOMAIN k.list = {}
    BY <1>4, <1>6
  <2>2. k.cur = 0 /\ k.peek = b - 1
    BY <1>2, <1>4, <1>5, <1>6
  <2> HIDE DEF b
  <2>3. Order(k, b)
    BY <2>1, <2>2 DEF Order
  <2> QED BY <1>4, <1>6, <2>2, <2>3 DEF Told, Heard, Alone
<1>8. /\ Sound(r, p) /\ Only(r, k, BufferFields) /\ Alike(r, k, {"finish"})
  <2> HIDE DEF p
  <2> QED BY <1>1, <1>5, Filled
<1>9. /\ Order(r, b) /\ Told(r) /\ Roomy(r) /\ Ahead(r, k) /\ Heard(r) /\ Alone(r)
  <2> HIDE DEF p, b
  <2> QED BY <1>1, <1>2, <1>4, <1>5, <1>6, <1>7, FilledInOrder
<1> HIDE DEF r
<1>10. /\ r.codec = "idle" /\ r.mark = "none" /\ r.late = FALSE /\ r.skip = "none"
       /\ r.playing = None /\ r.status # "stopped"
  BY <1>4, <1>6, <1>8 DEF Only, Fields, BufferFields
<1>11. ~In(r.inbox, "complete")
  <2>1. "complete" \notin {"finish"}
    OBVIOUS
  <2> QED BY <1>4, <1>6, <1>8, <2>1 DEF Alike
<1>12. k.peek + 1 = 0
  BY <1>5
<1>13. CASE Peek(k.q, 0) # None
  <2>1. r.cur = 1 /\ ~Audio(r) /\ r.loading = "reading" /\ r.stat = "ok"
    BY <1>4, <1>6, <1>9, <1>12, <1>13 DEF Ahead
  <2>2. r.cur = Len(r.list)
    <3>1. r.cur # 0
      BY <2>1
    <3> QED BY <2>1, <3>1, AudioIs
  <2>3. Id3(r, r.cur) = None
    BY <2>1, <2>2 DEF Id3, InLoad
  <2>4. o = WithPlaying(r, None)
    BY <1>3, <2>1, <2>3
  <2>5. o = r
    <3>1. WithPlaying(r, None) = r
      BY <1>8, <1>10 DEF WithPlaying, Sound, Fit, Engine
    <3> QED BY <2>4, <3>1
  <2>6. Steady(r) /\ Awake(r) /\ Behind(r) = 0
    BY <1>10, <1>11, <2>1 DEF Steady, Awake, Done, Behind
  <2>7. Good(r)
    BY <1>9, <2>6 DEF Good, Buffer
  <2> QED BY <2>5, <2>7 DEF o
<1>14. CASE Peek(k.q, 0) = None
  <2>1. r.cur = 0 /\ r.q = k.q /\ r.peek = k.peek /\ r.stat = "nomore"
    BY <1>4, <1>6, <1>9, <1>12, <1>14 DEF Ahead
  <2>2. o = LoadFailed(r)
    BY <1>3, <2>1
  <2>3. r.list = <<>>
    BY <1>8, <2>1 DEF Sound, Fit
  <2>4. /\ Sound(o, p) /\ Only(o, r, {"inbox"}) /\ Alike(o, r, {"complete"})
        /\ In(o.inbox, "complete")
    <3> HIDE DEF p
    <3> QED BY <1>1, <1>8, <1>10, <2>1, <2>2, <2>3, LoadFailedIs
  <2>5. /\ o.q = r.q /\ o.list = r.list /\ o.peek = r.peek /\ o.mark = r.mark
        /\ o.playing = r.playing /\ o.loading = r.loading /\ o.skip = r.skip
        /\ o.filling = r.filling /\ o.late = r.late
        /\ o.status = r.status /\ o.codec = r.codec /\ o.cur = r.cur
    BY <2>4 DEF Only, Fields
  <2>6. Order(o, 0) /\ Heard(o)
    BY <1>9, <2>5, OrderKept, HeardKept
  <2>7. Behind(o) = 0
    BY <1>10, <2>5 DEF Behind
  <2>8. o.loading = "no"
    BY <1>8, <2>3, <2>5 DEF Sound, Fit
  <2>9. Buffer(o, Behind(o)) /\ Told(o)
    BY <2>1, <2>5, <2>6, <2>7, <2>8 DEF Buffer, Alone, Roomy, Told
  <2>10. Peek(o.q, o.peek + 1) = None
    BY <1>12, <1>14, <2>1, <2>5
  <2>11. ~AllOk(file)
    <3>1. Sane(k.q) /\ (AllOk(file) => Length(k.q) > 0)
      BY <1>5 DEF Sound, Fit, Tame
    <3>2. Length(k.q) > 0 => Peek(k.q, 0) # None
      BY <3>1, PeekHere, NoneAssumption
    <3> QED BY <1>14, <3>1, <3>2
  <2>12. Steady(o) /\ Awake(o)
    BY <1>10, <2>1, <2>4, <2>5, <2>10, <2>11 DEF Steady, Awake, Done
  <2> QED BY <2>9, <2>12 DEF Good, o
<1> QED BY <1>13, <1>14

\* audio_on_pause.
LEMMA OnPauseIs ==
  ASSUME NEW e, NEW pause \in BOOLEAN
  PROVE  LET to == IF pause THEN "paused" ELSE "playing"
             now == WithStatus(e, to)
         IN  OnPause(e, pause) = IF e.status = "stopped" \/ pause = (e.status = "paused")
                                 THEN e
                                 ELSE IF ~pause /\ e.late THEN OnCodecComplete(now)
                                 ELSE now
BY DEF OnPause, WithStatus

LEMMA SoundPause ==
  ASSUME NEW p \in BOOLEAN, NEW e, Sound(e, p), NEW pause \in BOOLEAN
  PROVE  Sound(OnPause(e, pause), p)
<1> DEFINE to == IF pause THEN "paused" ELSE "playing"
           now == WithStatus(e, to)
<1>1. OnPause(e, pause) = IF e.status = "stopped" \/ pause = (e.status = "paused")
                          THEN e
                          ELSE IF ~pause /\ e.late THEN OnCodecComplete(now) ELSE now
  BY OnPauseIs
<1>2. e.status # "stopped" => Sound(now, p)
  <2>1. to \in {"playing", "paused"}
    OBVIOUS
  <2> HIDE DEF to
  <2> QED BY <2>1, StatusSet
<1> HIDE DEF now
<1> QED BY <1>1, <1>2, SoundComplete

LEMMA GoodPause ==
  ASSUME Calm, NEW e, Sound(e, FALSE), e.status # "stopped", Good(e),
         NEW pause \in BOOLEAN
  PROVE  Good(OnPause(e, pause))
<1> DEFINE p == FALSE
           to == IF pause THEN "paused" ELSE "playing"
           now == WithStatus(e, to)
<1>1. OnPause(e, pause) = IF e.status = "stopped" \/ pause = (e.status = "paused")
                          THEN e
                          ELSE IF ~pause /\ e.late THEN OnCodecComplete(now) ELSE now
  BY OnPauseIs
<1>2. p \in BOOLEAN /\ Sound(e, p) /\ to \in {"playing", "paused"}
  OBVIOUS
<1>3. Sound(now, p) /\ Only(now, e, {"status"}) /\ now.status = to
  <2> HIDE DEF to, p
  <2> QED BY <1>2, StatusSet
<1> HIDE DEF now
<1>4. /\ now.q = e.q /\ now.list = e.list /\ now.peek = e.peek /\ now.mark = e.mark
      /\ now.playing = e.playing /\ now.loading = e.loading /\ now.skip = e.skip
      /\ now.filling = e.filling /\ now.inbox = e.inbox /\ now.late = e.late
      /\ now.codec = e.codec /\ now.cur = e.cur
  BY <1>3 DEF Only, Fields
<1>5. Audio(now) <=> Audio(e)
  BY <1>4, AudioIs
<1>6. Behind(now) = Behind(e)
  BY <1>4, BehindIs
<1>7. Order(now, Behind(e)) /\ Heard(now)
  BY <1>4, OrderKept, HeardKept DEF Good, Buffer
<1>8. Buffer(now, Behind(now)) /\ Told(now)
  BY <1>4, <1>5, <1>6, <1>7 DEF Good, Buffer, Alone, Roomy, Told
<1>9. CASE OnPause(e, pause) = e
  BY <1>9
<1>10. CASE ~pause /\ e.late /\ OnPause(e, pause) = OnCodecComplete(now)
  <2>1. Done(e)
    BY <1>10 DEF Done
  <2>2. Over(now)
    BY <1>4, <1>5, <1>8, <1>10, <2>1 DEF Good, Steady, Over
  <2>3. Sound(now, FALSE) /\ now.status # "stopped"
    BY <1>2, <1>3
  <2>4. Good(OnCodecComplete(now))
    BY <2>2, <2>3, GoodComplete
  <2> QED BY <1>10, <2>4
<1>11. CASE (pause \/ ~e.late) /\ OnPause(e, pause) = now
  <2>1. now.late /\ now.status = "playing" => now.skip # "none"
    <3>1. ~pause => ~now.late
      BY <1>4, <1>11
    <3>2. pause => now.status # "playing"
      BY <1>3
    <3> QED BY <3>1, <3>2
  <2>2. Done(now) <=> Done(e)
    BY <1>4 DEF Done
  <2>3. Steady(now)
    BY <1>4, <1>5, <2>1, <2>2 DEF Good, Steady
  <2>4. Awake(now)
    BY <1>4, <1>5, <2>2 DEF Good, Awake
  <2> QED BY <1>8, <1>11, <2>3, <2>4 DEF Good
<1> QED BY <1>1, <1>9, <1>10, <1>11

-----------------------------------------------------------------------------
(* The buffer is loaded again, or relieved of finished tracks.             *)

\* What a rebuffer that keeps the current track leaves alone.
LEMMA GoodAgain ==
  ASSUME NEW e, Good(e), e.cur # 0, NEW r, Only(r, e, BufferFields),
         Alike(r, e, {"finish"}), Order(r, Behind(e)), Told(r), Roomy(r), Alone(r),
         Heard(e) => Heard(r), r.cur # 0, Audio(r) <=> Audio(e)
  PROVE  Good(r)
<1>1. /\ r.skip = e.skip /\ r.mark = e.mark /\ r.late = e.late
      /\ r.status = e.status /\ r.codec = e.codec
  BY DEF Only, Fields, BufferFields
<1>2. /\ In(r.inbox, "complete") <=> In(e.inbox, "complete")
      /\ Once(e.inbox, "complete") => Once(r.inbox, "complete")
  <2>1. "complete" \notin {"finish"}
    OBVIOUS
  <2> QED BY <2>1 DEF Alike
<1>3. Likewise(r, e)
  BY <1>1, <1>2 DEF Likewise
<1>4. Behind(r) = Behind(e)
  BY <1>1, BehindIs
<1>5. Buffer(r, Behind(r))
  BY <1>4 DEF Good, Buffer
<1>6. Steady(r) /\ Awake(r)
  BY <1>3, SteadyKept, AwakeKept DEF Good
<1> QED BY <1>5, <1>6 DEF Good

LEMMA SoundOnRebuffer ==
  ASSUME NEW p \in BOOLEAN, NEW e, Sound(e, p)
  PROVE  Sound(OnRebuffer(e), p)
<1> DEFINE k == IF e.skip = "auto" THEN 1 ELSE 0
<1>1. k \in Int
  OBVIOUS
<1>2. OnRebuffer(e) = e \/ OnRebuffer(e) = Rebuffer(e, "current", k)
  BY DEF OnRebuffer
<1> HIDE DEF k
<1> QED BY <1>1, <1>2, Rebuffered

LEMMA GoodOnRebuffer ==
  ASSUME Calm, NEW e, Sound(e, FALSE), e.status # "stopped", Good(e)
  PROVE  Good(OnRebuffer(e))
<1> DEFINE p == FALSE
           b == Behind(e)
           r == Rebuffer(e, "current", b)
<1>1. p \in BOOLEAN /\ Sound(e, p)
  OBVIOUS
<1>2. b \in {0, 1} /\ b \in Int
  BY BehindIs
<1>3. CASE e.list = <<>> \/ e.skip = "endlist"
  BY <1>3 DEF OnRebuffer
<1>4. CASE ~(e.list = <<>> \/ e.skip = "endlist")
  <2>1. OnRebuffer(e) = r
    BY <1>4 DEF OnRebuffer, Behind
  <2>2. e.cur # 0
    BY <1>4 DEF Sound, Fit
  <2>3. Order(e, b) /\ Told(e)
    BY DEF Good, Buffer
  <2>4. Only(r, e, BufferFields) /\ Alike(r, e, {"finish"})
    <3> HIDE DEF p, b
    <3> QED BY <1>1, <1>2, Rebuffered
  <2>5. /\ Order(r, b) /\ Told(r) /\ Roomy(r) /\ Alone(r)
        /\ Heard(e) => Heard(r)
        /\ r.cur # 0 /\ (Audio(r) <=> Audio(e))
    <3> HIDE DEF p, b
    <3> QED BY <1>1, <1>2, <2>2, <2>3, Reordered
  <2> HIDE DEF r
  <2>6. Good(r)
    BY <2>2, <2>4, <2>5, GoodAgain
  <2> QED BY <2>1, <2>6
<1> QED BY <1>3, <1>4

LEMMA GoodRelieved ==
  ASSUME Calm, NEW e, Sound(e, FALSE), e.status # "stopped", Good(e),
         e.list # <<>>, NEW k \in Int, k = e.peek
  PROVE  Good(Rebuffer(e, "new", k))
<1> DEFINE p == FALSE
           b == Behind(e)
           r == Rebuffer(e, "new", k)
<1>1. p \in BOOLEAN /\ Sound(e, p)
  OBVIOUS
<1>2. b \in {0, 1}
  BY BehindIs
<1>3. e.cur # 0
  BY DEF Sound, Fit
<1>4. Order(e, b) /\ Told(e) /\ Alone(e)
  BY DEF Good, Buffer
<1>5. Only(r, e, BufferFields) /\ Alike(r, e, {"finish"})
  <2> HIDE DEF p
  <2> QED BY <1>1, Rebuffered
<1>6. /\ Order(r, b) /\ Told(r) /\ Roomy(r) /\ Alone(r)
      /\ Heard(e) => Heard(r)
      /\ r.cur # 0 /\ (Audio(r) <=> Audio(e))
  <2> HIDE DEF p, b
  <2> QED BY <1>1, <1>2, <1>3, <1>4, Relieved
<1> HIDE DEF r
<1>7. Good(r)
  BY <1>3, <1>5, <1>6, GoodAgain
<1> QED BY <1>7 DEF r

-----------------------------------------------------------------------------
(* Skipping.                                                               *)

LEMMA SoundLand ==
  ASSUME NEW p \in BOOLEAN, NEW e, Sound(e, p), NEW d \in Int
  PROVE  Sound(Land(e, d), p) /\ Land(e, d).status = e.status
<1> DEFINE c == WithCur(e, e.cur + d)
<1>1. CASE Buffered(e, d) /\ HasAudio(e, e.cur + d)
  <2>1. Land(e, d) = c
    BY <1>1 DEF Land, WithCur
  <2>2. Sound(c, p) /\ Only(c, e, {"cur"})
    BY <1>1, CurSet DEF Buffered
  <2> QED BY <2>1, <2>2 DEF Only, Fields
<1>2. CASE ~(Buffered(e, d) /\ HasAudio(e, e.cur + d))
  <2> DEFINE k == -1
             r == Rebuffer(e, "none", k)
  <2>1. Land(e, d) = r /\ k \in Int
    BY <1>2 DEF Land
  <2> HIDE DEF k
  <2>2. Sound(r, p) /\ Only(r, e, BufferFields)
    BY <2>1, Rebuffered
  <2> HIDE DEF r
  <2>3. r.status = e.status
    BY <2>2 DEF Only, Fields, BufferFields
  <2> QED BY <2>1, <2>2, <2>3
<1> QED BY <1>1, <1>2

\* Steps that are not possible are corrected to steps that are.
LEMMA CorrectedIs ==
  ASSUME NEW q \in Queue, NEW steps \in Int, NEW toward \in {-1, 1}
  PROVE  /\ Corrected(q, steps, toward) \subseteq Int
         /\ \A k \in Corrected(q, steps, toward) : NextIndex(q, steps + k) # -1
<1>1. CASE NextIndex(q, steps) # -1
  <2>1. Corrected(q, steps, toward) = {0} /\ steps + 0 = steps
    BY <1>1 DEF Corrected
  <2> QED BY <1>1, <2>1
<1>2. CASE NextIndex(q, steps) = -1
  <2>1. Corrected(q, steps, toward)
          = {k * toward : k \in Corrections(q, steps, toward)}
    BY <1>2 DEF Corrected
  <2>2. Length(q) \in Nat
    BY LengthType
  <2>3. ASSUME NEW k \in Corrections(q, steps, toward)
        PROVE  k * toward \in Int /\ NextIndex(q, steps + k * toward) # -1
    <3>1. k \in Int /\ Check(q, steps + k * toward)
      BY <2>2, <2>3 DEF Corrections
    <3> DEFINE s == steps + k * toward
               i == q.index + s
    <3>2. k * toward \in Int /\ s \in Int
      <4>1. toward = 1 \/ toward = -1
        OBVIOUS
      <4> QED BY <3>1, <4>1
    <3>3. Normalize(q, i, FALSE) # -1
      BY <3>1 DEF Check
    <3> HIDE DEF s
    <3>4. i \in Int /\ q.index \in Nat
      BY <3>2 DEF Queue
    <3> HIDE DEF i
    <3>5. i \in 0 .. Length(q) - 1
      BY <3>3, <3>4, NormalizeIs
    <3>6. Normalize(q, i, TRUE) = i
      BY <3>4, <3>5, NormalizeIs
    <3>7. q.index # -1 /\ i # -1
      BY <2>2, <3>4, <3>5
    <3>8. NextIndex(q, s) # -1
      BY <3>6, <3>7 DEF NextIndex, i
    <3> QED BY <3>2, <3>8 DEF s
  <2> QED BY <2>1, <2>3
<1> QED BY <1>1, <1>2

\* Of some numbers, one is nearest to zero.
LEMMA Nearest ==
  ASSUME NEW T \in SUBSET Int, T # {}
  PROVE  \E k \in T : \A j \in T : (IF k < 0 THEN -k ELSE k)
                                    <= (IF j < 0 THEN -j ELSE j)
<1> DEFINE Size(k) == IF k < 0 THEN -k ELSE k
           S == {Size(k) : k \in T}
<1>1. S \in SUBSET Nat /\ S # {}
  <2>1. \A k \in T : Size(k) \in Nat
    OBVIOUS
  <2> HIDE DEF Size
  <2> QED BY <2>1
<1>2. PICK m \in S : \A n \in S : m <= n
  <2> HIDE DEF S
  <2> QED BY <1>1, Least
<1>3. PICK k \in T : m = Size(k)
  BY <1>2
<1>4. \A j \in T : Size(j) \in S
  OBVIOUS
<1> HIDE DEF S, Size
<1>5. \A j \in T : Size(k) <= Size(j)
  BY <1>2, <1>3, <1>4
<1> QED BY <1>3, <1>5 DEF Size

-----------------------------------------------------------------------------
(* A skip lands on the entry it was meant for.                             *)

\* The entry s = b + d after the position is gone to, where b is how far the
\* current track is ahead: it is in the buffer, or is loaded anew.
LEMMA Landed ==
  ASSUME Calm, NEW e, Sound(e, FALSE), e.status # "stopped", Told(e),
         NEW b \in {0, 1}, Order(e, b), e.stat = "ok",
         NEW s \in Int, NextIndex(e.q, s) # -1, NEW d \in Int, s = b + d
  PROVE  LET r == Land(Arrive(e, s), d)
         IN  /\ Order(r, 0) /\ Told(r) /\ Roomy(r) /\ Alone(r)
             /\ r.cur # 0 /\ r.stat = "ok"
             /\ Only(r, e, BufferFields)
             /\ ~In(e.inbox, "complete") => ~In(r.inbox, "complete")
<1> DEFINE p == FALSE
           z == 0
           none == -1
           a == Arrive(e, s)
           c == WithCur(a, a.cur + d)
           u == Rebuffer(a, "none", none)
           r == Land(a, d)
<1>1. p \in BOOLEAN /\ Sound(e, p)
  OBVIOUS
<1>2. z \in {0, 1} /\ none \in Int /\ none = z - 1
  OBVIOUS
<1>3. /\ Sound(a, p) /\ Only(a, e, {"q", "peek"}) /\ a.peek = e.peek - s
      /\ \A j \in Int : Peek(a.q, j) = Peek(e.q, s + j)
  <2> HIDE DEF p
  <2> QED BY <1>1, Arrived
<1> HIDE DEF a
<1>4. /\ a.list = e.list /\ a.cur = e.cur /\ a.loading = e.loading
      /\ a.filling = e.filling /\ a.inbox = e.inbox /\ a.stat = e.stat
      /\ a.status = e.status
  BY <1>3 DEF Only, Fields
<1>5. CASE Buffered(a, d) /\ HasAudio(a, a.cur + d)
  <2>1. r = c
    BY <1>5 DEF Land, WithCur
  <2> HIDE DEF r
  <2>2. a.cur + d \in 1 .. Len(a.list) /\ a.cur # 0
    BY <1>5 DEF Buffered
  <2>3. Sound(c, p) /\ Only(c, a, {"cur"}) /\ c.cur = a.cur + d
    <3> HIDE DEF p
    <3> QED BY <1>1, <1>3, <2>2, CurSet
  <2> HIDE DEF c
  <2>4. /\ c.list = e.list /\ c.q = a.q /\ c.peek = a.peek /\ c.loading = e.loading
        /\ c.filling = e.filling /\ c.inbox = e.inbox /\ c.stat = "ok"
    BY <1>4, <2>3 DEF Only, Fields
  <2>5. /\ DOMAIN e.list = 1 .. Len(e.list) /\ Len(e.list) \in Nat /\ e.cur \in Nat
        /\ e.peek \in Int
    BY Numbers DEF Sound
  <2>6. c.cur = e.cur + d /\ c.cur \in 1 .. Len(e.list)
    BY <1>4, <2>2, <2>3
  <2>7. Audio(c)
    <3>1. HasAudio(c, c.cur)
      BY <1>4, <1>5, <2>3, <2>4 DEF HasAudio, InLoad
    <3>2. c.cur # 0
      BY <2>5, <2>6
    <3> QED BY <3>1, <3>2 DEF Audio
  <2>8. ASSUME NEW i \in DOMAIN c.list PROVE c.list[i] = Peek(c.q, i - c.cur + 0)
    <3> DEFINE j == i - c.cur + 0
    <3>1. i \in DOMAIN e.list /\ i \in Int
      BY <2>4, <2>5, <2>8
    <3>2. c.list[i] = Peek(e.q, i - e.cur + b)
      BY <2>4, <3>1 DEF Order
    <3>3. j \in Int /\ s + j = i - e.cur + b
      BY <2>5, <2>6, <3>1
    <3> HIDE DEF j
    <3>4. Peek(a.q, j) = Peek(e.q, s + j)
      BY <1>3, <3>3
    <3> QED BY <2>4, <3>2, <3>3, <3>4 DEF j
  <2>9. c.peek = 0 + Len(c.list) - c.cur
    <3>1. e.cur # 0
      BY <1>4, <2>2
    <3>2. e.peek = b + Len(e.list) - e.cur
      BY <3>1 DEF Order
    <3> DEFINE n == Len(e.list)
    <3>3. c.peek = e.peek - s /\ Len(c.list) = n
      BY <1>3, <2>4
    <3>4. n \in Nat /\ e.peek = b + n - e.cur
      BY <2>5, <3>2
    <3> HIDE DEF n
    <3>5. e.peek - s = 0 + n - (e.cur + d)
      BY <2>5, <3>4
    <3> QED BY <2>6, <3>3, <3>5
  <2>10. c.cur # 0
    BY <2>5, <2>6
  <2>11. Order(c, 0)
    BY <2>8, <2>9, <2>10 DEF Order
  <2>12. Told(c) /\ Roomy(c) /\ Alone(c)
    BY <2>4, <2>7 DEF Told, Roomy, Alone
  <2>13. Only(c, e, BufferFields)
    BY <1>3, <2>3 DEF Only, Fields, BufferFields
  <2> QED BY <2>1, <2>4, <2>10, <2>11, <2>12, <2>13 DEF r, a
<1>6. CASE ~(Buffered(a, d) /\ HasAudio(a, a.cur + d))
  <2>1. r = u
    BY <1>6 DEF Land
  <2> HIDE DEF r
  <2>2. /\ Only(u, a, BufferFields) /\ Alike(u, a, {"finish"})
    <3> HIDE DEF p, none
    <3> QED BY <1>1, <1>2, <1>3, Rebuffered
  <2>3. Peek(a.q, z) # None
    <3>1. Sane(e.q) /\ e.q.repeat \in Plain
      BY DEF Sound, Fit, Tame
    <3>2. Peek(e.q, s) # None
      BY <3>1, NextIndexPeek
    <3>3. z \in Int /\ s + z = s
      OBVIOUS
    <3> HIDE DEF z
    <3>4. Peek(a.q, z) = Peek(e.q, s + z)
      BY <1>3, <3>3
    <3> QED BY <3>2, <3>3, <3>4
  <2>4. /\ Order(u, z) /\ Told(u) /\ Roomy(u) /\ Alone(u)
        /\ u.cur = 1 /\ u.stat = "ok"
    <3> HIDE DEF p, none, z
    <3> QED BY <1>1, <1>2, <1>3, <1>4, <2>3, Restarted
  <2> HIDE DEF u
  <2>5. In(u.inbox, "complete") <=> In(e.inbox, "complete")
    <3>1. "complete" \notin {"finish"}
      OBVIOUS
    <3> QED BY <1>4, <2>2, <3>1 DEF Alike
  <2>6. Only(u, e, BufferFields)
    BY <1>3, <2>2 DEF Only, Fields, BufferFields
  <2>7. u.cur # 0
    BY <2>4
  <2> QED BY <2>1, <2>4, <2>5, <2>6, <2>7 DEF r, a
<1> QED BY <1>5, <1>6

\* What is shown and started then.
LEMMA GoodByHand ==
  ASSUME NEW e, Sound(e, FALSE), e.status # "stopped", e.stat = "ok", e.cur # 0,
         Order(e, 0), Told(e), Roomy(e), Alone(e), Still(e), e.skip = "none"
  PROVE  Good(ChangeByHand(e))
<1> DEFINE p == FALSE
           s == Shown(e)
<1>1. p \in BOOLEAN /\ Sound(e, p)
  OBVIOUS
<1>2. Finalise(e) = s
  BY DEF Finalise
<1>3. /\ Sound(s, p) /\ Only(s, e, {"skip", "playing"}) /\ s.skip = "none"
      /\ Heard(s)
  <2> HIDE DEF p
  <2> QED BY <1>1, ShownIs, ShownHeard
<1> HIDE DEF s
<1>4. /\ s.q = e.q /\ s.list = e.list /\ s.peek = e.peek
      /\ s.loading = e.loading /\ s.late = e.late /\ s.stat = e.stat
      /\ s.filling = e.filling /\ s.inbox = e.inbox
      /\ s.status = e.status /\ s.codec = e.codec /\ s.cur = e.cur
  BY <1>3 DEF Only, Fields
<1>5. Audio(s) <=> Audio(e)
  BY <1>4, AudioIs
<1>6. Behind(s) = 0
  BY <1>3 DEF Behind
<1>7. Order(s, 0)
  BY <1>4, OrderKept
<1>8. Buffer(s, Behind(s)) /\ Told(s) /\ Still(s)
  BY <1>3, <1>4, <1>5, <1>6, <1>7 DEF Buffer, Alone, Roomy, Told, Still, Done
<1>9. ChangeByHand(e) = StartTrack(s, TRUE)
  BY <1>2, <1>4 DEF ChangeByHand
<1>10. Sound(s, FALSE)
  BY <1>3
<1>11. s.skip # "newlist" /\ (s.skip # "none" => s.mark # "none") /\ s.skip # "auto"
       /\ s.status # "stopped" /\ s.stat = "ok" /\ s.cur # 0
  BY <1>3, <1>4
<1>12. Good(StartTrack(s, TRUE))
  BY <1>8, <1>10, <1>11, GoodStart
<1> QED BY <1>9, <1>12

-----------------------------------------------------------------------------
(* The skip itself.                                                        *)

\* What a skip has done before it moves.
Ready(at, e) ==
    /\ at.status = e.status /\ at.skip = "none" /\ at.skipBy = 0
    /\ AllOk(file) => at.q = e.q
    /\ Alike(at, e, {"finish", "complete"})

\* Where a skip goes, from an engine whose codec is halted.
Goes(e, at, s, d) ==
    /\ Ready(at, e) /\ at.stat = "ok"
    /\ AllOk(file) /\ NextIndex(e.q, QueueSteps(e, e.skipBy)) # -1
       => s = QueueSteps(e, e.skipBy)
    /\ s \in Int /\ d \in Int /\ NextIndex(at.q, s) # -1
    /\ Calm /\ e.skip # "newlist" =>
          /\ Only(at, e, {"skipBy", "inbox", "codec", "mark", "late", "skip", "stat"})
          /\ Alike(at, e, {"complete"}) /\ Still(at)
          /\ s = Behind(e) + d

LEMMA OnSkipIs ==
  ASSUME NEW p \in BOOLEAN, NEW e, Sound(e, p), NEW r \in OnSkip(e)
  PROVE  IF e.status = "stopped"
         THEN Sound(r, p) /\ r.status = "stopped" /\ r = WithSkipBy(e, 0)
         ELSE \/ /\ Sound(r, p) /\ r.status = "stopped"
                 /\ \E at : Sound(at, p) /\ Ready(at, e) /\ r = End(at)
                 /\ AllOk(file) => NextIndex(e.q, QueueSteps(e, e.skipBy)) = -1
              \/ \E at, s, d : /\ Sound(at, p) /\ Goes(e, at, s, d)
                               /\ r = ChangeByHand(Land(Arrive(at, s), d))
<1> DEFINE n == e.skipBy
           z == WithSkipBy(e, 0)
           halted == Halt(z)
           b == Rebuffer(halted, "current", 1)
           start == IF n = 1 /\ e.q.repeat = "one" THEN b ELSE halted
           steps == QueueSteps(e, n)
           list == ListSteps(e, n)
           toward == IF n < 0 THEN 1 ELSE -1
           back == Corrected(start.q, steps, toward)
           by == CHOOSE k \in back : \A j \in back : (IF k < 0 THEN -k ELSE k)
                                                   <= (IF j < 0 THEN -j ELSE j)
           s == WithSkip(start, "none")
           ok == WithStat(s, "ok")
           moved == Arrive(ok, steps + by)
           at == Land(moved, list + by)
<1>1. OnSkip(e) = IF e.status = "stopped" THEN {z}
                  ELSE IF back = {} THEN {End(s)} ELSE {ChangeByHand(at)}
  BY DEF OnSkip, WithSkipBy, WithSkip, WithStat
<1>2. n \in Int /\ steps \in Int /\ list \in Int /\ toward \in {-1, 1}
  BY DEF QueueSteps, ListSteps, Sound, Fit, Engine
<1>3. e.skip # "newlist" => steps = Behind(e) + list
  BY <1>2 DEF QueueSteps, ListSteps, Behind
<1>4. Sound(z, p) /\ Only(z, e, {"skipBy"})
  BY SkipBySet
<1>5. z.status = e.status
  BY <1>4 DEF Only, Fields
<1>18. r \in {z} => r = WithSkipBy(e, 0)
  OBVIOUS
<1>19. z.skipBy = 0 /\ z.q = e.q /\ z.inbox = e.inbox
  BY <1>4, SkipBySet DEF Only, Fields
<1> HIDE DEF z
<1>6. /\ Sound(halted, p) /\ Only(halted, z, {"inbox", "codec", "mark", "late"})
      /\ Alike(halted, z, {"complete"}) /\ ~In(halted.inbox, "complete")
      /\ halted.codec = "idle" /\ halted.late = FALSE
  BY <1>4, Halted
<1>7. halted.status = e.status /\ Still(halted)
  BY <1>5, <1>6 DEF Only, Fields, Still, Done
<1>20. halted.skipBy = 0 /\ halted.q = e.q
  BY <1>6, <1>19 DEF Only, Fields
<1> HIDE DEF halted
<1>8. /\ Sound(b, p) /\ Only(b, halted, BufferFields) /\ Alike(b, halted, {"finish"})
      /\ AllOk(file) => b.q = halted.q
  BY <1>6, Rebuffered
<1>21. b.status = e.status /\ b.skipBy = 0
  BY <1>7, <1>8, <1>20 DEF Only, Fields, BufferFields
<1> HIDE DEF b
<1>9. Sound(start, p) /\ start.status = e.status
  BY <1>6, <1>7, <1>8, <1>21
<1>22. /\ start.skipBy = 0 /\ (AllOk(file) => start.q = e.q)
      /\ Alike(start, e, {"finish", "complete"})
  <2>1. Alike(halted, e, {"finish", "complete"})
    BY <1>6, <1>19 DEF Alike
  <2>2. Alike(b, e, {"finish", "complete"})
    BY <1>8, <2>1 DEF Alike
  <2> QED BY <1>8, <1>21, <1>20, <2>1, <2>2
<1>10. Calm => start = halted
  <2>1. Calm => e.q.repeat \in Plain
    BY DEF Sound, Tame
  <2> QED BY <2>1 DEF Plain
<1> HIDE DEF start
<1>11. Sound(s, p) /\ Only(s, start, {"skip"}) /\ s.skip = "none"
  BY <1>9, SkipSet
<1>12. s.status = e.status /\ s.q = start.q
  BY <1>9, <1>11 DEF Only, Fields
<1>23. Ready(s, e)
  <2>1. s.skipBy = 0 /\ s.inbox = start.inbox
    BY <1>11, <1>22 DEF Only, Fields
  <2> QED BY <1>11, <1>12, <1>22, <2>1 DEF Ready, Alike
<1> HIDE DEF s
<1>13. Sound(ok, p) /\ Only(ok, s, {"stat"}) /\ ok.stat = "ok"
  BY <1>11, StatSet
<1>14. ok.status = e.status /\ ok.q = start.q /\ ok.skip = "none"
  BY <1>11, <1>12, <1>13 DEF Only, Fields
<1>24. Ready(ok, e)
  <2>1. ok.skipBy = s.skipBy /\ ok.inbox = s.inbox
    BY <1>13 DEF Only, Fields
  <2> QED BY <1>12, <1>14, <1>23, <2>1 DEF Ready, Alike
<1> HIDE DEF ok
<1>25. NextIndex(start.q, steps) # -1 => back = {0}
  BY DEF Corrected
<1>15. CASE e.status = "stopped"
  BY <1>1, <1>4, <1>5, <1>15, <1>18
<1>16. CASE e.status # "stopped" /\ back = {}
  <2>1. r = End(s)
    BY <1>1, <1>16
  <2>2. Sound(End(s), p) /\ End(s).status = "stopped"
    BY <1>11, EndIs
  <2>3. AllOk(file) => NextIndex(e.q, steps) = -1
    BY <1>16, <1>25, <1>22
  <2> QED BY <1>11, <1>16, <1>23, <2>1, <2>2, <2>3
<1>17. CASE e.status # "stopped" /\ back # {}
  <2>1. start.q \in Queue
    BY <1>9 DEF Sound, Fit, Engine
  <2> DEFINE far == QueueSteps(e, e.skipBy)
  <2>12. steps = far
    OBVIOUS
  <2> HIDE DEF steps, toward, n, list, far
  <2>2. back \in SUBSET Int /\ \A k \in back : NextIndex(start.q, steps + k) # -1
    BY <1>2, <2>1, CorrectedIs
  <2> HIDE DEF back
  <2>3. \E k \in back : \A j \in back : (IF k < 0 THEN -k ELSE k)
                                       <= (IF j < 0 THEN -j ELSE j)
    BY <1>17, <2>2, Nearest
  <2>4. by \in back
    BY <2>3
  <2> HIDE DEF by
  <2>5. by \in Int /\ NextIndex(ok.q, steps + by) # -1
    BY <1>14, <2>2, <2>4
  <2>6. steps + by \in Int /\ list + by \in Int
    BY <1>2, <2>5
  <2>7. e.skip # "newlist" => steps + by = Behind(e) + (list + by)
    <3>1. Behind(e) \in Int
      BY BehindIs
    <3> QED BY <1>2, <1>3, <2>5, <3>1
  <2>8. ASSUME Calm
        PROVE  /\ Only(ok, e, {"skipBy", "inbox", "codec", "mark", "late", "skip",
                               "stat"})
               /\ Alike(ok, e, {"complete"}) /\ Still(ok)
    <3>1. start = halted
      BY <1>10, <2>8
    <3>2. Only(ok, e, {"skipBy", "inbox", "codec", "mark", "late", "skip", "stat"})
      BY <1>4, <1>6, <1>11, <1>13, <3>1 DEF Only, Fields
    <3>3. /\ ok.inbox = halted.inbox /\ ok.codec = halted.codec
          /\ ok.late = halted.late /\ z.inbox = e.inbox
      BY <1>4, <1>11, <1>13, <3>1 DEF Only, Fields
    <3>4. Alike(ok, e, {"complete"})
      BY <1>6, <3>3 DEF Alike
    <3>5. Still(ok)
      BY <1>7, <3>3 DEF Still, Done
    <3> QED BY <3>2, <3>4, <3>5
  <2>11. AllOk(file) /\ NextIndex(e.q, far) # -1 => steps + by = far
    BY <1>2, <1>25, <1>22, <2>12, <2>4
  <2>9. Goes(e, ok, steps + by, list + by)
    BY <1>13, <1>14, <1>24, <2>5, <2>6, <2>7, <2>8, <2>11 DEF Goes, far
  <2>10. r = ChangeByHand(at)
    BY <1>1, <1>17
  <2> QED BY <1>13, <1>17, <2>9, <2>10
<1> QED BY <1>15, <1>16, <1>17

LEMMA SoundOnSkip ==
  ASSUME NEW p \in BOOLEAN, NEW e, Sound(e, p), NEW r \in OnSkip(e)
  PROVE  Sound(r, p)
<1>1. CASE Sound(r, p)
  BY <1>1
<1>2. CASE e.status # "stopped"
           /\ \E at, s, d : /\ Sound(at, p) /\ Goes(e, at, s, d)
                            /\ r = ChangeByHand(Land(Arrive(at, s), d))
  <2>1. PICK at, s, d : /\ Sound(at, p) /\ Goes(e, at, s, d)
                        /\ r = ChangeByHand(Land(Arrive(at, s), d))
    BY <1>2
  <2> DEFINE a == Arrive(at, s)
             l == Land(a, d)
  <2>2. /\ s \in Int /\ d \in Int /\ NextIndex(at.q, s) # -1
        /\ at.status # "stopped"
    BY <1>2, <2>1 DEF Goes, Ready
  <2>3. Sound(a, p) /\ Only(a, at, {"q", "peek"})
    BY <2>1, <2>2, Arrived
  <2>4. a.status # "stopped"
    BY <2>2, <2>3 DEF Only, Fields
  <2> HIDE DEF a
  <2>5. Sound(l, p) /\ l.status = a.status
    BY <2>2, <2>3, SoundLand
  <2> HIDE DEF l
  <2>6. Sound(ChangeByHand(l), p)
    BY <2>4, <2>5, SoundChange
  <2> QED BY <2>1, <2>6 DEF l, a
<1> QED BY <1>1, <1>2, OnSkipIs

LEMMA GoodOnSkip ==
  ASSUME Calm, NEW e, Sound(e, FALSE), e.status # "stopped", Good(e),
         NEW r \in OnSkip(e)
  PROVE  r.status = "stopped" \/ Good(r)
<1> DEFINE p == FALSE
<1>1. p \in BOOLEAN /\ Sound(e, p)
  OBVIOUS
<1>2. \/ r.status = "stopped"
      \/ \E at, s, d : /\ Sound(at, p) /\ Goes(e, at, s, d)
                       /\ r = ChangeByHand(Land(Arrive(at, s), d))
  <2> HIDE DEF p
  <2> QED BY <1>1, OnSkipIs
<1>3. CASE \E at, s, d : /\ Sound(at, p) /\ Goes(e, at, s, d)
                         /\ r = ChangeByHand(Land(Arrive(at, s), d))
  <2>1. PICK at, s, d : /\ Sound(at, p) /\ Goes(e, at, s, d)
                        /\ r = ChangeByHand(Land(Arrive(at, s), d))
    BY <1>3
  <2> DEFINE a == Arrive(at, s)
             l == Land(a, d)
             b == Behind(e)
  <2>2. /\ s \in Int /\ d \in Int /\ NextIndex(at.q, s) # -1
        /\ at.status # "stopped" /\ at.skip = "none" /\ at.stat = "ok"
    BY <2>1 DEF Goes, Ready
  <2>3. /\ Only(at, e, {"skipBy", "inbox", "codec", "mark", "late", "skip", "stat"})
        /\ Alike(at, e, {"complete"}) /\ Still(at) /\ s = b + d
    BY <2>1 DEF Goes, Good, Steady
  <2>4. b \in {0, 1} /\ Order(e, b)
    BY BehindIs DEF Good, Buffer
  <2>5. /\ at.q = e.q /\ at.list = e.list /\ at.cur = e.cur /\ at.peek = e.peek
        /\ at.loading = e.loading /\ at.filling = e.filling
    BY <2>3 DEF Only, Fields
  <2>6. Order(at, b)
    BY <2>4, <2>5, OrderKept
  <2>7. Told(at)
    <3>1. "finish" \notin {"complete"}
      OBVIOUS
    <3> QED BY <2>3, <2>5, <3>1 DEF Told, Good, Alike
  <2>8. Sound(at, FALSE)
    BY <2>1
  <2> HIDE DEF b, p
  <2>9. /\ Order(l, 0) /\ Told(l) /\ Roomy(l) /\ Alone(l)
        /\ l.cur # 0 /\ l.stat = "ok" /\ Only(l, at, BufferFields)
        /\ ~In(at.inbox, "complete") => ~In(l.inbox, "complete")
    <3>1. s \in Int /\ NextIndex(at.q, s) # -1 /\ d \in Int /\ s = b + d
      BY <2>2, <2>3
    <3>2. at.status # "stopped" /\ at.stat = "ok"
      BY <2>2
    <3>3. b \in {0, 1}
      BY <2>4
    <3> QED BY <2>6, <2>7, <2>8, <3>1, <3>2, <3>3, Landed
  <2>10. Sound(a, p) /\ Sound(l, p)
    <3>1. Sound(a, p)
      BY <1>1, <2>1, <2>2, Arrived
    <3> HIDE DEF a
    <3> QED BY <1>1, <2>2, <3>1, SoundLand
  <2>11. Sound(l, FALSE)
    BY <2>10 DEF p
  <2> HIDE DEF l
  <2>12. /\ l.status = at.status /\ l.skip = at.skip /\ l.codec = at.codec
         /\ l.late = at.late
    BY <2>9 DEF Only, Fields, BufferFields
  <2>13. Still(l)
    BY <2>3, <2>9, <2>12 DEF Still, Done
  <2>14. Good(ChangeByHand(l))
    BY <2>2, <2>9, <2>11, <2>12, <2>13, GoodByHand
  <2> QED BY <2>1, <2>14 DEF l, a
<1> QED BY <1>2, <1>3

-----------------------------------------------------------------------------
(* A seek.                                                                 *)

\* The track that is heard is the current one again.
Undone(e) ==
    LET h == Halt(e)
    IN  IF e.skip # "auto" THEN WithStat(h, "ok")
        ELSE IF Buffered(h, -1) THEN WithStat(WithCur(h, h.cur - 1), "ok")
        ELSE Rebuffer(h, "none", -1)

LEMMA OnSeekIs ==
  ASSUME NEW e, Fit(Halt(e))
  PROVE  LET back == Undone(e)
             now == WithSkip(back, "none")
         IN  OnSeek(e) = IF e.status = "stopped" \/ e.skip = "newlist" THEN e
                         ELSE IF back.stat # "ok" THEN StartCodecFailed(back)
                         ELSE IF now.cur = 0 THEN WithPlaying(now, None)
                         ELSE IF ~HasAudio(now, now.cur)
                         THEN WithPlaying(now, Id3(now, now.cur))
                         ELSE WithCodec(now, "decoding")
<1> DEFINE h == Halt(e)
<1>1. h.cur + (-1) = h.cur - 1
  BY DEF Fit, Engine
<1> QED BY <1>1 DEF OnSeek, Undone, WithStat, WithCur, WithSkip, WithPlaying,
                    WithCodec

LEMMA SoundUndone ==
  ASSUME NEW p \in BOOLEAN, NEW e, Sound(e, p)
  PROVE  Sound(Undone(e), p) /\ Undone(e).status = e.status
<1> DEFINE h == Halt(e)
           v == h.cur - 1
           c == WithCur(h, v)
           none == -1
<1>1. Sound(h, p) /\ h.status = e.status
  BY Halted DEF Only, Fields
<1> HIDE DEF h
<1>2. CASE e.skip # "auto"
  <2>1. Undone(e) = WithStat(h, "ok")
    BY <1>2 DEF Undone, h
  <2>2. Sound(WithStat(h, "ok"), p) /\ WithStat(h, "ok").status = h.status
    BY <1>1, StatSet DEF Only, Fields
  <2> QED BY <1>1, <2>1, <2>2
<1>3. CASE e.skip = "auto" /\ Buffered(h, none)
  <2>1. Undone(e) = WithStat(c, "ok")
    BY <1>3 DEF Undone, h
  <2>2. v \in 1 .. Len(h.list)
    BY <1>1, <1>3 DEF Buffered, Sound, Fit, Engine
  <2> HIDE DEF v
  <2>3. Sound(c, p) /\ c.status = h.status
    BY <1>1, <2>2, CurSet DEF Only, Fields
  <2> HIDE DEF c
  <2>4. Sound(WithStat(c, "ok"), p) /\ WithStat(c, "ok").status = c.status
    BY <2>3, StatSet DEF Only, Fields
  <2> QED BY <1>1, <2>1, <2>3, <2>4
<1>4. CASE e.skip = "auto" /\ ~Buffered(h, none)
  <2>1. Undone(e) = Rebuffer(h, "none", none) /\ none \in Int
    BY <1>4 DEF Undone, h
  <2> HIDE DEF none
  <2>2. /\ Sound(Rebuffer(h, "none", none), p)
        /\ Rebuffer(h, "none", none).status = h.status
    BY <1>1, <2>1, Rebuffered DEF Only, Fields, BufferFields
  <2> QED BY <1>1, <2>1, <2>2
<1> QED BY <1>2, <1>3, <1>4

LEMMA SoundOnSeek ==
  ASSUME NEW p \in BOOLEAN, NEW e, Sound(e, p)
  PROVE  Sound(OnSeek(e), p)
<1> DEFINE back == Undone(e)
           now == WithSkip(back, "none")
<1>1. Fit(Halt(e))
  BY Halted DEF Sound
<1>2. OnSeek(e) = IF e.status = "stopped" \/ e.skip = "newlist" THEN e
                  ELSE IF back.stat # "ok" THEN StartCodecFailed(back)
                  ELSE IF now.cur = 0 THEN WithPlaying(now, None)
                  ELSE IF ~HasAudio(now, now.cur)
                  THEN WithPlaying(now, Id3(now, now.cur))
                  ELSE WithCodec(now, "decoding")
  BY <1>1, OnSeekIs
<1>3. CASE e.status = "stopped" \/ e.skip = "newlist"
  BY <1>2, <1>3
<1>4. CASE ~(e.status = "stopped" \/ e.skip = "newlist")
  <2>1. Sound(back, p) /\ back.status # "stopped"
    BY <1>4, SoundUndone
  <2> HIDE DEF back
  <2>2. Sound(now, p) /\ now.status # "stopped"
    BY <2>1, SkipSet DEF Only, Fields
  <2> HIDE DEF now
  <2>3. now.cur # 0 => Id3(now, now.cur) \in Tracks \cup {None}
    <3>1. now.cur # 0 => now.cur \in 1 .. Len(now.list)
      BY <2>2 DEF Sound, Fit, Engine
    <3> QED BY <2>2, <3>1, Id3Is DEF Sound
  <2>4. Sound(StartCodecFailed(back), p)
    BY <2>1, Completed
  <2>5. Sound(WithPlaying(now, None), p)
    BY <2>2, PlayingSet
  <2>6. now.cur # 0 => Sound(WithPlaying(now, Id3(now, now.cur)), p)
    BY <2>2, <2>3, PlayingSet
  <2>7. Sound(WithCodec(now, "decoding"), p)
    BY <2>2, CodecSet
  <2> QED BY <1>2, <1>4, <2>4, <2>5, <2>6, <2>7
<1> QED BY <1>3, <1>4

\* What a seek goes on from.
Afoot(e) ==
    /\ e.stat = "ok" /\ e.cur # 0 /\ Order(e, 0) /\ Heard(e) /\ Told(e)
    /\ Roomy(e) /\ Alone(e) /\ Still(e)

LEMMA UndoneBack ==
  ASSUME NEW e, Sound(e, FALSE), Order(e, 1), Heard(e), Told(e), Still(e),
         NEW v, v = e.cur - 1, v \in 1 .. Len(e.list), NEW r,
         Only(r, e, {"cur", "stat"}), r.cur = v, r.stat = "ok"
  PROVE  Afoot(r)
<1>1. /\ r.q = e.q /\ r.list = e.list /\ r.loading = e.loading /\ r.peek = e.peek
      /\ r.filling = e.filling /\ r.inbox = e.inbox /\ r.codec = e.codec
      /\ r.late = e.late /\ r.playing = e.playing
  BY DEF Only, Fields
<1>2. /\ DOMAIN e.list = 1 .. Len(e.list) /\ Len(e.list) \in Nat /\ e.cur \in Nat
      /\ e.cur <= Len(e.list) /\ e.peek \in Int
  BY Numbers DEF Sound
<1>3. r.cur # 0 /\ r.cur # Len(r.list) /\ e.cur # 0
  BY <1>1, <1>2
<1>4. Audio(r)
  BY <1>3, AudioIs
<1>5. ASSUME NEW i \in DOMAIN r.list PROVE r.list[i] = Peek(r.q, i - r.cur + 0)
  <2>1. i \in DOMAIN e.list /\ i \in Int
    BY <1>1, <1>2
  <2>2. r.list[i] = Peek(e.q, i - e.cur + 1)
    BY <1>1, <2>1 DEF Order
  <2>3. i - r.cur + 0 = i - e.cur + 1
    BY <1>2, <2>1
  <2> QED BY <1>1, <2>2, <2>3
<1>6. r.peek = 0 + Len(r.list) - r.cur
  <2>1. e.peek = 1 + Len(e.list) - e.cur
    BY <1>3 DEF Order
  <2> DEFINE n == Len(e.list)
  <2>2. n \in Nat /\ e.peek = 1 + n - e.cur /\ r.peek = e.peek /\ Len(r.list) = n
        /\ r.cur = e.cur - 1
    BY <1>1, <1>2, <2>1
  <2> HIDE DEF n
  <2> QED BY <1>2, <2>2
<1>7. Order(r, 0)
  BY <1>3, <1>5, <1>6 DEF Order
<1>8. Heard(r)
  BY <1>1, HeardKept
<1> QED BY <1>1, <1>3, <1>4, <1>7, <1>8 DEF Afoot, Told, Roomy, Alone, Still, Done

LEMMA UndoneIs ==
  ASSUME Calm, NEW e, Sound(e, FALSE), e.status # "stopped", AllOk(file), Good(e)
  PROVE  Afoot(Undone(e))
<1> DEFINE p == FALSE
           h == Halt(e)
           v == h.cur - 1
           c == WithCur(h, v)
           none == -1
           z == 0
<1>1. p \in BOOLEAN /\ Sound(e, p)
  OBVIOUS
<1>2. /\ Sound(h, p) /\ Only(h, e, {"inbox", "codec", "mark", "late"})
      /\ Alike(h, e, {"complete"}) /\ ~In(h.inbox, "complete")
      /\ h.codec = "idle" /\ h.late = FALSE
  <2> HIDE DEF p
  <2> QED BY <1>1, Halted
<1> HIDE DEF h
<1>3. /\ h.q = e.q /\ h.list = e.list /\ h.cur = e.cur /\ h.peek = e.peek
      /\ h.loading = e.loading /\ h.filling = e.filling /\ h.playing = e.playing
      /\ h.status = e.status
  BY <1>2 DEF Only, Fields
<1>4. Told(h)
  <2>1. "finish" \notin {"complete"}
    OBVIOUS
  <2> QED BY <1>2, <1>3, <2>1 DEF Told, Good, Alike
<1>5. e.cur # 0 /\ Heard(h) /\ Still(h)
  <2>1. Heard(e) /\ e.cur # 0
    BY DEF Good, Buffer, Steady
  <2> QED BY <1>2, <1>3, <2>1, HeardKept DEF Still, Done
<1>6. Sound(h, FALSE)
  BY <1>2
<1>7. CASE e.skip # "auto"
  <2> DEFINE r == WithStat(h, "ok")
  <2>1. Undone(e) = r
    BY <1>7 DEF Undone, h
  <2>2. Only(r, h, {"stat"}) /\ r.stat = "ok"
    <3> HIDE DEF p
    <3> QED BY <1>1, <1>2, StatSet
  <2> HIDE DEF r
  <2>3. /\ r.q = h.q /\ r.list = h.list /\ r.cur = h.cur /\ r.peek = h.peek
        /\ r.loading = h.loading /\ r.filling = h.filling
        /\ r.playing = h.playing /\ r.inbox = h.inbox /\ r.late = h.late
        /\ r.codec = h.codec
    BY <2>2 DEF Only, Fields
  <2>4. Behind(e) = 0
    BY <1>7 DEF Behind
  <2>5. Order(e, 0) /\ Alone(e) /\ Roomy(e)
    BY <2>4 DEF Good, Buffer
  <2>6. Order(r, 0)
    <3>1. r.q = e.q /\ r.list = e.list /\ r.cur = e.cur /\ r.peek = e.peek
      BY <1>3, <2>3
    <3> QED BY <2>5, <3>1, OrderKept
  <2>7. Audio(r) <=> Audio(e)
    BY <1>3, <2>3, AudioIs
  <2>8. Heard(r)
    BY <1>5, <2>3, HeardKept
  <2>9. Told(r) /\ Roomy(r) /\ Alone(r) /\ Still(r) /\ r.cur # 0
    BY <1>3, <1>4, <1>5, <2>3, <2>5, <2>7 DEF Told, Roomy, Alone, Still, Done
  <2> QED BY <2>1, <2>2, <2>6, <2>8, <2>9 DEF Afoot
<1>8. CASE e.skip = "auto" /\ Buffered(h, none)
  <2> DEFINE r == WithStat(c, "ok")
  <2>1. Undone(e) = r
    BY <1>8 DEF Undone, h
  <2>2. v \in 1 .. Len(h.list) /\ v = h.cur - 1
    BY <1>6, <1>8 DEF Buffered, Sound, Fit, Engine
  <2> HIDE DEF v
  <2>3. Sound(c, p) /\ Only(c, h, {"cur"}) /\ c.cur = v
    <3> HIDE DEF p
    <3> QED BY <1>1, <1>2, <2>2, CurSet
  <2> HIDE DEF c
  <2>4. Only(r, c, {"stat"}) /\ r.stat = "ok"
    <3> HIDE DEF p
    <3> QED BY <1>1, <2>3, StatSet
  <2> HIDE DEF r
  <2>5. Only(r, h, {"cur", "stat"}) /\ r.cur = v
    BY <2>3, <2>4 DEF Only, Fields
  <2>6. Order(h, 1)
    <3>1. Behind(e) = 1
      BY <1>8 DEF Behind
    <3>2. Order(e, 1)
      BY <3>1 DEF Good, Buffer
    <3> QED BY <1>3, <3>2, OrderKept
  <2>7. Afoot(r)
    BY <1>4, <1>5, <1>6, <2>2, <2>4, <2>5, <2>6, UndoneBack
  <2> QED BY <2>1, <2>7
<1>9. CASE e.skip = "auto" /\ ~Buffered(h, none)
  <2> DEFINE r == Rebuffer(h, "none", none)
  <2>1. Undone(e) = r
    BY <1>9 DEF Undone, h
  <2>2. none \in Int /\ z \in {0, 1} /\ none = z - 1
    OBVIOUS
  <2> HIDE DEF none
  <2>3. Only(r, h, BufferFields) /\ Alike(r, h, {"finish"})
    <3> HIDE DEF p
    <3> QED BY <1>1, <1>2, <2>2, Rebuffered
  <2>4. Peek(h.q, z) # None
    <3>1. Sane(h.q) /\ Length(h.q) > 0
      BY <1>6 DEF Sound, Fit, Tame
    <3> QED BY <3>1, PeekHere, NoneAssumption
  <2>5. /\ Order(r, z) /\ Told(r) /\ Roomy(r) /\ Alone(r)
        /\ Heard(h) => Heard(r)
        /\ r.cur = 1 /\ r.stat = "ok"
    <3> HIDE DEF p, z
    <3> QED BY <1>1, <1>2, <1>3, <2>2, <2>4, Restarted
  <2> HIDE DEF r
  <2>6. r.cur # 0
    BY <2>5
  <2>7. r.codec = h.codec /\ r.late = h.late
    BY <2>3 DEF Only, Fields, BufferFields
  <2>8. ~In(r.inbox, "complete")
    <3>1. "complete" \notin {"finish"}
      OBVIOUS
    <3> QED BY <1>2, <2>3, <3>1 DEF Alike
  <2>9. Still(r)
    BY <1>2, <2>7, <2>8 DEF Still, Done
  <2> QED BY <1>5, <2>1, <2>5, <2>6, <2>9 DEF Afoot
<1> QED BY <1>7, <1>8, <1>9

\* What is shown may become the current track's own.
LEMMA GoodToShow ==
  ASSUME NEW e, Sound(e, FALSE), Good(e), e.skip = "none", NEW r,
         Only(r, e, {"playing"}),
         r.playing = None \/ (e.cur # 0 /\ r.playing = Id3(e, e.cur))
  PROVE  Good(r)
<1>1. /\ r.q = e.q /\ r.list = e.list /\ r.cur = e.cur /\ r.peek = e.peek
      /\ r.loading = e.loading /\ r.filling = e.filling /\ r.inbox = e.inbox
      /\ r.skip = e.skip /\ r.mark = e.mark /\ r.late = e.late
      /\ r.status = e.status /\ r.codec = e.codec
  BY DEF Only, Fields
<1> DEFINE b == 0
<1>2. b \in {0, 1} /\ Behind(e) = b /\ Behind(r) = b /\ Fit(e)
  BY <1>1 DEF Behind, Sound
<1>3. Order(e, b) /\ Alone(e) /\ Roomy(e)
  BY <1>2 DEF Good, Buffer
<1>4. Heard(r)
  <2>1. CASE r.playing = None
    BY <2>1 DEF Heard
  <2>2. CASE r.playing # None
    <3>1. e.cur # 0 /\ r.playing = Id3(e, e.cur) /\ Id3(e, e.cur) # None
      BY <2>2
    <3>2. /\ Id3(e, e.cur) = Peek(e.q, b) /\ file[Id3(e, e.cur)] = "ok"
      <4> HIDE DEF b
      <4> QED BY <1>2, <1>3, <3>1, Id3InOrder
    <3> QED BY <1>1, <3>1, <3>2 DEF Heard
  <2> QED BY <2>1, <2>2
<1>5. Audio(r) <=> Audio(e)
  BY <1>1, AudioIs
<1>6. Order(r, b)
  BY <1>1, <1>3, OrderKept
<1>7. Buffer(r, Behind(r))
  BY <1>1, <1>2, <1>3, <1>4, <1>5, <1>6 DEF Buffer, Alone, Roomy
<1>8. Told(r) /\ Steady(r) /\ Awake(r)
  BY <1>1, <1>5 DEF Good, Told, Steady, Awake, Done
<1> QED BY <1>7, <1>8 DEF Good

LEMMA GoodOnSeek ==
  ASSUME Calm, NEW e, Sound(e, FALSE), e.status # "stopped", AllOk(file), Good(e)
  PROVE  Good(OnSeek(e))
<1> DEFINE p == FALSE
           back == Undone(e)
           now == WithSkip(back, "none")
           start == StartTrack(now, p)
<1>1. p \in BOOLEAN /\ Sound(e, p)
  OBVIOUS
<1>2. Sound(back, p) /\ back.status # "stopped" /\ Afoot(back)
  <2>1. Afoot(back)
    BY UndoneIs
  <2> HIDE DEF p
  <2> QED BY <1>1, <2>1, SoundUndone
<1>3. e.skip # "newlist"
  BY DEF Good, Steady
<1>4. Fit(Halt(e))
  <2>1. Sound(Halt(e), p)
    <3> HIDE DEF p
    <3> QED BY <1>1, Halted
  <2> QED BY <2>1 DEF Sound
<1>5. now.cur # 0 => OnSeek(e) = IF ~HasAudio(now, now.cur)
                                 THEN WithPlaying(now, Id3(now, now.cur))
                                 ELSE WithCodec(now, "decoding")
  <2>1. back.stat = "ok"
    BY <1>2 DEF Afoot
  <2> QED BY <1>3, <1>4, <2>1, OnSeekIs
<1> HIDE DEF back
<1>6. Sound(now, p) /\ Only(now, back, {"skip"}) /\ now.skip = "none"
  <2> HIDE DEF p
  <2> QED BY <1>1, <1>2, SkipSet
<1> HIDE DEF now
<1>7. /\ now.q = back.q /\ now.list = back.list /\ now.cur = back.cur
      /\ now.peek = back.peek /\ now.loading = back.loading
      /\ now.filling = back.filling /\ now.inbox = back.inbox
      /\ now.late = back.late /\ now.playing = back.playing
      /\ now.status = back.status /\ now.codec = back.codec
      /\ now.stat = back.stat
  BY <1>6 DEF Only, Fields
<1>8. Sound(now, FALSE) /\ now.status # "stopped"
  BY <1>2, <1>6, <1>7
<1>9. /\ now.stat = "ok" /\ now.cur # 0 /\ Still(now) /\ Told(now)
  BY <1>2, <1>7 DEF Afoot, Still, Done, Told
<1>10. Buffer(now, Behind(now))
  <2>1. Behind(now) = 0
    BY <1>6 DEF Behind
  <2>2. Audio(now) <=> Audio(back)
    BY <1>7, AudioIs
  <2>3. Order(now, 0) /\ Heard(now)
    BY <1>2, <1>7, OrderKept, HeardKept DEF Afoot
  <2>4. Alone(now) /\ Roomy(now)
    BY <1>2, <1>7, <2>2 DEF Afoot, Alone, Roomy
  <2> QED BY <2>1, <2>3, <2>4 DEF Buffer
<1>11. Good(start)
  <2>1. /\ now.skip # "newlist" /\ (now.skip # "none" => now.mark # "none")
        /\ now.skip # "auto"
    BY <1>6
  <2> HIDE DEF p
  <2> QED BY <1>1, <1>8, <1>9, <1>10, <2>1, GoodStart
<1>12. start = IF HasAudio(now, now.cur) THEN WithCodec(now, "decoding") ELSE now
  <2>1. Fit(now)
    BY <1>6 DEF Sound
  <2>2. start = IF ~HasAudio(now, now.cur) THEN now
                ELSE [now EXCEPT !.codec = "decoding", !.playing = now.playing]
    BY <1>9 DEF StartTrack
  <2>3. [now EXCEPT !.codec = "decoding", !.playing = now.playing]
          = WithCodec(now, "decoding")
    BY <2>1 DEF WithCodec, Fit, Engine
  <2> QED BY <2>2, <2>3
<1>13. CASE HasAudio(now, now.cur)
  BY <1>5, <1>9, <1>11, <1>12, <1>13
<1>14. CASE ~HasAudio(now, now.cur)
  <2> DEFINE v == Id3(now, now.cur)
             r == WithPlaying(now, v)
  <2>1. OnSeek(e) = r /\ Good(now)
    BY <1>5, <1>9, <1>11, <1>12, <1>14
  <2>2. v \in Tracks \cup {None}
    <3>1. now.cur \in 1 .. Len(now.list) /\ Fit(now)
      BY <1>8, <1>9 DEF Sound, Fit, Engine
    <3> QED BY <3>1, Id3Is
  <2> HIDE DEF v
  <2>3. Only(r, now, {"playing"}) /\ r.playing = v
    <3> HIDE DEF p
    <3> QED BY <1>1, <1>6, <1>8, <2>2, PlayingSet
  <2> HIDE DEF r
  <2>4. Good(r)
    BY <1>6, <1>8, <1>9, <2>1, <2>3, GoodToShow DEF v
  <2> QED BY <2>1, <2>4
<1> QED BY <1>13, <1>14

-----------------------------------------------------------------------------
(* The audio thread takes a message.                                       *)

\* The message in front is taken out, and the others are still there.
Took(t, e, m) ==
    /\ Only(t, e, {"inbox"}) /\ In(e.inbox, m)
    /\ \A x : x # m => (In(t.inbox, x) <=> In(e.inbox, x))
    /\ \A x : Once(e.inbox, x) => Once(t.inbox, x)
    /\ Once(e.inbox, m) => ~In(t.inbox, m)

LEMMA TailIs ==
  ASSUME NEW s \in Seq(Messages), s # <<>>
  PROVE  /\ Head(s) \in Messages /\ Tail(s) \in Seq(Messages) /\ In(s, Head(s))
         /\ \A x : In(Tail(s), x) => In(s, x)
         /\ \A x : x # Head(s) /\ In(s, x) => In(Tail(s), x)
         /\ \A x : Once(s, x) => Once(Tail(s), x)
         /\ Once(s, Head(s)) => ~In(Tail(s), Head(s))
<1> DEFINE r == SubSeq(s, 2, Len(s))
           m == Head(s)
           f == 2
<1>1. Len(s) \in Nat /\ Len(s) # 0 /\ DOMAIN s = 1 .. Len(s)
  OBVIOUS
<1>2. Tail(s) = SubSeq(s, f, Len(s))
  BY TailIsSubSeq
<1>3. f \in 1 .. Len(s) + 1 /\ f \in Nat /\ 1 .. f - 1 = {1}
  BY <1>1
<1>4. m = s[1] /\ 1 \in DOMAIN s /\ m \in Messages /\ 1 \in 1 .. f - 1
  BY <1>1
<1> HIDE DEF f, m
<1>5. /\ Tail(s) \in Seq(Messages)
      /\ \A x : In(Tail(s), x) => In(s, x)
      /\ \A x : In(s, x) /\ (\A i \in 1 .. f - 1 : s[i] # x) => In(Tail(s), x)
      /\ \A x : Once(s, x) =>
            /\ Once(Tail(s), x)
            /\ (\E i \in 1 .. f - 1 : s[i] = x) => ~In(Tail(s), x)
  BY <1>2, <1>3, RestIs
<1>6. ASSUME NEW x, x # m, In(s, x) PROVE In(Tail(s), x)
  <2>1. \A i \in 1 .. f - 1 : s[i] # x
    BY <1>3, <1>4, <1>6
  <2> QED BY <1>5, <1>6, <2>1
<1>7. Once(s, m) => ~In(Tail(s), m)
  BY <1>4, <1>5
<1>8. In(s, m)
  BY <1>4 DEF In
<1> QED BY <1>4, <1>5, <1>6, <1>7, <1>8 DEF m

LEMMA TookIs ==
  ASSUME NEW p \in BOOLEAN, NEW e, Sound(e, p), e.inbox # <<>>,
         NEW u \in BOOLEAN, u => p /\ Head(e.inbox) # "play"
  PROVE  LET t == WithInbox(e, Tail(e.inbox))
             m == Head(e.inbox)
         IN  Sound(t, u) /\ Took(t, e, m) /\ m \in Messages
<1> DEFINE s == e.inbox
           v == Tail(e.inbox)
           m == Head(e.inbox)
           t == WithInbox(e, v)
<1>1. s \in Seq(Messages) /\ s # <<>> /\ Fit(e)
  BY DEF Sound, Fit, Engine
<1>2. /\ m \in Messages /\ v \in Seq(Messages) /\ In(s, m)
      /\ \A x : In(v, x) => In(s, x)
      /\ \A x : x # m /\ In(s, x) => In(v, x)
      /\ \A x : Once(s, x) => Once(v, x)
      /\ Once(s, m) => ~In(v, m)
  <2> HIDE DEF s
  <2>1. /\ Head(s) \in Messages /\ Tail(s) \in Seq(Messages) /\ In(s, Head(s))
        /\ \A x : In(Tail(s), x) => In(s, x)
        /\ \A x : x # Head(s) /\ In(s, x) => In(Tail(s), x)
        /\ \A x : Once(s, x) => Once(Tail(s), x)
        /\ Once(s, Head(s)) => ~In(Tail(s), Head(s))
    BY <1>1, TailIs
  <2> QED BY <2>1 DEF s
<1>3. Head(e.inbox) = m
  OBVIOUS
<1> HIDE DEF v, m
<1>4. t.inbox = v /\ Only(t, e, {"inbox"})
  <2>1. t.inbox = v
    BY <1>1 DEF WithInbox, Fit, Engine
  <2>2. Only(t, e, {"inbox"})
    BY <1>1 DEF WithInbox, Only, Fields, Fit, Engine
  <2> QED BY <2>1, <2>2
<1> HIDE DEF t
<1>5. /\ t.q = e.q /\ t.status = e.status /\ t.loading = e.loading
      /\ t.filling = e.filling /\ t.hung = e.hung
  BY <1>4 DEF Only, Fields
<1>6. Mailed(t) /\ Tame(t, file)
  BY <1>2, <1>4, <1>5 DEF Sound, Mailed, Tame
<1>7. u => In(v, "play") \/ e.status = "stopped"
  BY <1>2, <1>3 DEF Sound
<1>8. Sound(e, u)
  BY DEF Sound
<1>9. Sound(t, u)
  BY <1>2, <1>6, <1>7, <1>8, InboxSet DEF t
<1>10. Took(t, e, m)
  BY <1>2, <1>4 DEF Took
<1> QED BY <1>2, <1>9, <1>10 DEF t, v, m

LEMMA SoundHandle ==
  ASSUME NEW p \in BOOLEAN, NEW e, Sound(e, p), NEW m \in Messages,
         m = "play" => ~p,
         m = "finish" => /\ e.loading = "read" /\ e.filling # "full"
                         /\ ~In(e.inbox, "finish"),
         NEW r \in Handle(e, m)
  PROVE  Sound(r, p)
<1>1. CASE m = "fill"
  BY <1>1, SoundFill DEF Handle
<1>2. CASE m = "finish"
  <2>1. PICK full \in BOOLEAN : r = OnFinishLoad(e, full)
    BY <1>2 DEF Handle
  <2> QED BY <1>2, <2>1, FinishedIs
<1>3. CASE m = "complete"
  BY <1>3, SoundComplete DEF Handle
<1>4. CASE m = "rebuffer"
  BY <1>4, SoundOnRebuffer DEF Handle
<1>5. CASE m = "skip"
  BY <1>5, SoundOnSkip DEF Handle
<1>6. CASE m = "seek"
  BY <1>6, SoundOnSeek DEF Handle
<1>7. CASE m = "play"
  BY <1>7, SoundPlay DEF Handle
<1>8. CASE m = "stop"
  BY <1>8, StopPlaybackIs DEF Handle
<1>9. CASE m = "pause"
  BY <1>9, SoundPause DEF Handle
<1>10. CASE m = "resume"
  BY <1>10, SoundPause DEF Handle
<1> QED BY <1>1, <1>2, <1>3, <1>4, <1>5, <1>6, <1>7, <1>8, <1>9, <1>10 DEF Messages

-----------------------------------------------------------------------------
(* The message leaves the engine in order.                                 *)

\* What the message does not take away.
LEMMA TookKeeps ==
  ASSUME NEW e, Good(e), NEW m, NEW t, Took(t, e, m)
  PROVE  /\ t.status = e.status /\ Buffer(t, Behind(t)) /\ Steady(t)
         /\ t.loading = e.loading /\ t.filling = e.filling
         /\ m # "finish" => Told(t)
         /\ m # "complete" /\ (m = "fill" => t.cur # 0) => Awake(t)
<1>1. /\ t.q = e.q /\ t.list = e.list /\ t.cur = e.cur /\ t.peek = e.peek
      /\ t.loading = e.loading /\ t.filling = e.filling /\ t.late = e.late
      /\ t.skip = e.skip /\ t.mark = e.mark /\ t.playing = e.playing
      /\ t.status = e.status /\ t.codec = e.codec
  BY DEF Took, Only, Fields
<1>2. Audio(t) <=> Audio(e)
  BY <1>1, AudioIs
<1>3. Behind(t) = Behind(e)
  BY <1>1, BehindIs
<1>4. Buffer(t, Behind(t))
  <2>1. Order(t, Behind(t)) /\ Heard(t)
    BY <1>1, <1>3, OrderKept, HeardKept DEF Good, Buffer
  <2>2. Alone(t) /\ Roomy(t)
    BY <1>1, <1>2 DEF Alone, Roomy, Good, Buffer
  <2> QED BY <2>1, <2>2 DEF Buffer
<1>5. /\ In(t.inbox, "complete") => In(e.inbox, "complete")
      /\ Once(e.inbox, "complete") => Once(t.inbox, "complete")
  BY DEF Took
<1>6. Steady(t)
  <2>1. Done(t) => Done(e)
    BY <1>1, <1>5 DEF Done
  <2> QED BY <1>1, <1>2, <1>5, <2>1 DEF Good, Steady
<1>7. m # "finish" => Told(t)
  BY <1>1 DEF Good, Told, Took
<1>8. ASSUME m # "complete", m = "fill" => t.cur # 0
      PROVE  Awake(t)
  <2>1. Done(t) <=> Done(e)
    BY <1>1, <1>8 DEF Done, Took
  <2>2. m # "fill" => (In(t.inbox, "fill") <=> In(e.inbox, "fill"))
    BY DEF Took
  <2> QED BY <1>1, <1>2, <1>8, <2>1, <2>2 DEF Good, Awake
<1> QED BY <1>1, <1>4, <1>6, <1>7, <1>8

LEMMA TookComplete ==
  ASSUME NEW e, Good(e), NEW m, m = "complete", NEW t, Took(t, e, m)
  PROVE  Over(t)
<1>1. /\ t.q = e.q /\ t.list = e.list /\ t.cur = e.cur /\ t.peek = e.peek
      /\ t.loading = e.loading /\ t.late = e.late
      /\ t.skip = e.skip /\ t.mark = e.mark /\ t.codec = e.codec
  BY DEF Took, Only, Fields
<1>2. Audio(t) <=> Audio(e)
  BY <1>1, AudioIs
<1>3. Buffer(t, Behind(t)) /\ Told(t)
  BY TookKeeps
<1>4. Done(e)
  BY DEF Done, Took
<1>5. Steady(e) /\ (Once(e.inbox, "complete") => ~In(t.inbox, "complete"))
  BY DEF Good, Took
<1> QED BY <1>1, <1>2, <1>3, <1>4, <1>5 DEF Steady, Over

LEMMA GoodHandle ==
  ASSUME Calm, NEW e, Sound(e, FALSE), e.status # "stopped", Good(e),
         NEW m \in Messages, m # "play", NEW t, Sound(t, FALSE), Took(t, e, m),
         NEW r \in Handle(t, m)
  PROVE  r.status = "stopped" \/ Good(r)
<1> DEFINE p == FALSE
<1>1. p \in BOOLEAN /\ Sound(t, p)
  OBVIOUS
<1>2. /\ t.status # "stopped" /\ Buffer(t, Behind(t)) /\ Steady(t)
      /\ t.loading = e.loading /\ t.filling = e.filling
      /\ m # "finish" => Told(t)
      /\ m # "complete" /\ (m = "fill" => t.cur # 0) => Awake(t)
  BY TookKeeps
<1>3. m \notin {"fill", "finish", "complete"} => Good(t)
  BY <1>2 DEF Good
<1>4. CASE m = "fill"
  <2>1. r = LoadFailed(Fill(t))
    BY <1>4 DEF Handle
  <2>2. Told(t) /\ (t.cur # 0 => Awake(t))
    BY <1>2, <1>4
  <2>3. Good(LoadFailed(Fill(t)))
    BY <1>2, <2>2, GoodFill
  <2> QED BY <2>1, <2>3
<1>5. CASE m = "finish"
  <2>1. PICK full \in BOOLEAN : r = OnFinishLoad(t, full)
    BY <1>5 DEF Handle
  <2>2. In(e.inbox, "finish") /\ ~In(t.inbox, "finish")
    <3>1. Once(e.inbox, "finish")
      BY DEF Sound, Mailed
    <3> QED BY <1>5, <3>1 DEF Took
  <2>3. t.loading = "read" /\ t.filling # "full"
    BY <1>2, <2>2 DEF Sound, Mailed
  <2>4. Sound(r, p) /\ Finished(r, t)
    <3> HIDE DEF p
    <3> QED BY <1>1, <2>1, <2>2, <2>3, FinishedIs
  <2>5. Sound(r, FALSE) /\ Awake(t)
    BY <1>2, <1>5, <2>4
  <2> QED BY <1>2, <2>3, <2>4, <2>5, GoodFinish
<1>6. CASE m = "complete"
  <2>1. r = OnCodecComplete(t)
    BY <1>6 DEF Handle
  <2>2. Over(t)
    BY <1>6, TookComplete
  <2> QED BY <1>2, <2>1, <2>2, GoodComplete
<1>7. CASE m = "rebuffer"
  <2>1. r = OnRebuffer(t) /\ Good(t)
    BY <1>3, <1>7 DEF Handle
  <2> QED BY <1>2, <2>1, GoodOnRebuffer
<1>8. CASE m = "skip"
  <2>1. r \in OnSkip(t) /\ Good(t)
    BY <1>3, <1>8 DEF Handle
  <2> QED BY <1>2, <2>1, GoodOnSkip
<1>9. CASE m = "seek"
  <2>1. r = OnSeek(t) /\ Good(t)
    BY <1>3, <1>9 DEF Handle
  <2>2. AllOk(file)
    BY <1>9 DEF Took, Sound, Tame
  <2> QED BY <1>2, <2>1, <2>2, GoodOnSeek
<1>10. CASE m = "stop"
  <2>1. r = StopPlayback(t)
    BY <1>10 DEF Handle
  <2>2. StopPlayback(t).status = "stopped"
    <3> HIDE DEF p
    <3> QED BY <1>1, StopPlaybackIs
  <2> QED BY <2>1, <2>2
<1>11. CASE m \in {"pause", "resume"}
  <2>1. PICK pause \in BOOLEAN : r = OnPause(t, pause)
    BY <1>11 DEF Handle
  <2>2. Good(t)
    BY <1>3, <1>11
  <2>3. Good(OnPause(t, pause))
    BY <1>2, <2>2, GoodPause
  <2> QED BY <2>1, <2>3
<1> QED BY <1>4, <1>5, <1>6, <1>7, <1>8, <1>9, <1>10, <1>11 DEF Messages

-----------------------------------------------------------------------------
(* The invariant, and how a step keeps it.                                 *)

Kept(e) == Sound(e, FALSE) /\ (Calm /\ Runs(e) => Good(e))

LEMMA Limbo ==
  ASSUME NEW e
  PROVE  Sound(e, TRUE) <=> Sound(e, FALSE) /\ ~Runs(e)
BY DEF Sound, Runs, Has, In

\* A step that keeps the order of a running engine, and leaves one alone that is
\* about to be started anew.
LEMMA KeptBy ==
  ASSUME NEW e, Kept(e), NEW r,
         \A p \in BOOLEAN : Sound(e, p) => Sound(r, p),
         Calm /\ e.status # "stopped" /\ Good(e) => r.status = "stopped" \/ Good(r)
  PROVE  Kept(r)
<1>1. Sound(e, FALSE) /\ Sound(r, FALSE)
  BY DEF Kept
<1>2. CASE Runs(e)
  BY <1>1, <1>2 DEF Kept, Runs
<1>3. CASE ~Runs(e)
  <2>1. Sound(e, TRUE)
    BY <1>1, <1>3, Limbo
  <2>2. Sound(r, TRUE)
    BY <2>1
  <2>3. ~Runs(r)
    BY <2>2, Limbo
  <2> QED BY <1>1, <2>3 DEF Kept
<1> QED BY <1>2, <1>3

\* What the order does not hang on.
LEMMA GoodOnly ==
  ASSUME NEW e, Good(e), NEW r, Only(r, e, {"stat", "skipBy"})
  PROVE  Good(r)
<1>1. /\ r.q = e.q /\ r.list = e.list /\ r.cur = e.cur /\ r.peek = e.peek
      /\ r.loading = e.loading /\ r.filling = e.filling /\ r.inbox = e.inbox
      /\ r.skip = e.skip /\ r.mark = e.mark /\ r.late = e.late
      /\ r.status = e.status /\ r.codec = e.codec /\ r.playing = e.playing
  BY DEF Only, Fields
<1>2. Likewise(r, e) /\ Told(r)
  BY <1>1 DEF Likewise, Told, Good
<1> QED BY <1>1, <1>2, GoodKept

WithHung(e, v) == [e EXCEPT !.hung = v]

\* The thread may hang only where the engine is not built for it.
LEMMA KeptSettle ==
  ASSUME NEW e, Kept(e), Kept(engine), Settle(e)
  PROVE  Kept(engine')
<1> DEFINE p == FALSE
           h == WithHung(engine, TRUE)
           g == IF e.hung THEN h ELSE e
           r == WithStat(g, "ok")
<1>1. engine' = r
  BY DEF Settle, WithStat, WithHung
<1>2. p \in BOOLEAN /\ Sound(e, p) /\ Sound(engine, p)
  BY DEF Kept
<1>3. CASE e.hung
  <2>1. ~Calm /\ ~AllOk(file)
    BY <1>3 DEF Kept, Sound, Tame
  <2>2. Fit(h) /\ Only(h, engine, {"hung"})
    <3>1. Fit(engine)
      BY DEF Kept, Sound
    <3>2. Fit(h)
      BY <3>1 DEF WithHung, Fit, Engine
    <3>3. Only(h, engine, {"hung"})
      BY <3>1 DEF WithHung, Only, Fields, Fit, Engine
    <3> QED BY <3>2, <3>3
  <2>3. g = h
    BY <1>3
  <2> HIDE DEF g, h
  <2>4. /\ h.q = engine.q /\ h.inbox = engine.inbox /\ h.status = engine.status
        /\ h.loading = engine.loading /\ h.filling = engine.filling
    BY <2>2 DEF Only, Fields
  <2>5. Sound(h, p)
    BY <1>2, <2>1, <2>2, <2>4 DEF Sound, Mailed, Tame
  <2>6. Sound(r, p)
    <3> HIDE DEF p
    <3> QED BY <1>2, <2>3, <2>5, StatSet
  <2> QED BY <1>1, <2>1, <2>6 DEF Kept
<1>4. CASE ~e.hung
  <2>1. g = e
    BY <1>4
  <2> HIDE DEF g
  <2>2. Sound(r, p) /\ Only(r, e, {"stat"})
    <3> HIDE DEF p
    <3> QED BY <1>2, <2>1, StatSet
  <2> HIDE DEF r
  <2>3. r.status = e.status /\ r.inbox = e.inbox
    BY <2>2 DEF Only, Fields
  <2>4. Runs(r) <=> Runs(e)
    BY <2>3 DEF Runs, Has
  <2>5. Only(r, e, {"stat", "skipBy"})
    BY <2>2 DEF Only
  <2>6. Good(e) => Good(r)
    BY <2>5, GoodOnly
  <2> QED BY <1>1, <2>2, <2>4, <2>6 DEF Kept
<1> QED BY <1>3, <1>4

-----------------------------------------------------------------------------
(* The audio thread.                                                       *)

LEMMA KeptTakeMessage ==
  ASSUME Kept(engine), TakeMessage
  PROVE  Kept(engine')
<1> DEFINE e == engine
           t == WithInbox(e, Tail(e.inbox))
           m == Head(e.inbox)
           p == FALSE
           u == TRUE
<1>1. PICK r \in Handle(t, m) : Settle(r)
  BY DEF TakeMessage, WithInbox
<1>2. e.inbox # <<>>
  BY DEF TakeMessage
<1>3. p \in BOOLEAN /\ u \in BOOLEAN /\ Sound(e, p) /\ ~p
  BY DEF Kept
<1>4. Sound(t, p) /\ Took(t, e, m) /\ m \in Messages
  <2>1. p => p /\ m # "play"
    OBVIOUS
  <2> HIDE DEF p
  <2> QED BY <1>2, <1>3, <2>1, TookIs
<1>5. m # "play" /\ Sound(e, u) => Sound(t, u)
  <2>1. m # "play" => (u => u /\ m # "play")
    OBVIOUS
  <2> HIDE DEF u
  <2> QED BY <1>2, <1>3, <2>1, TookIs
<1> HIDE DEF t, m
<1>6. m = "finish" => /\ t.loading = "read" /\ t.filling # "full"
                      /\ ~In(t.inbox, "finish")
  <2>1. t.loading = e.loading /\ t.filling = e.filling
    BY <1>4 DEF Took, Only, Fields
  <2>2. Mailed(e)
    BY <1>3 DEF Sound
  <2> QED BY <1>4, <2>1, <2>2 DEF Took, Mailed
<1>7. Kept(r)
  <2>1. CASE m = "play"
    <3>1. r = OnPlay(t)
      BY <1>1, <2>1 DEF Handle
    <3>2. Sound(OnPlay(t), p)
      <4> HIDE DEF p
      <4> QED BY <1>3, <1>4, SoundPlay
    <3>3. Calm => Good(OnPlay(t))
      <4>1. Sound(t, FALSE)
        BY <1>4
      <4> QED BY <4>1, GoodPlay
    <3> QED BY <3>1, <3>2, <3>3 DEF Kept
  <2>2. CASE m # "play" /\ Runs(e)
    <3>1. Sound(r, p)
      <4> HIDE DEF p
      <4> QED BY <1>1, <1>3, <1>4, <1>6, <2>2, SoundHandle
    <3>2. ASSUME Calm PROVE r.status = "stopped" \/ Good(r)
      <4>1. Good(e) /\ Sound(e, FALSE) /\ e.status # "stopped" /\ Sound(t, FALSE)
        BY <1>3, <1>4, <2>2, <3>2 DEF Kept, Runs
      <4> HIDE DEF e, p
      <4> QED BY <1>1, <1>4, <2>2, <3>2, <4>1, GoodHandle
    <3> QED BY <3>1, <3>2 DEF Kept, Runs
  <2>3. CASE m # "play" /\ ~Runs(e)
    <3>1. Sound(e, u)
      BY <1>3, <2>3, Limbo
    <3>2. Sound(t, u)
      BY <1>5, <2>3, <3>1
    <3>3. Sound(r, u)
      <4> HIDE DEF u
      <4> QED BY <1>1, <1>3, <1>4, <1>6, <2>3, <3>2, SoundHandle
    <3>4. Sound(r, FALSE) /\ ~Runs(r)
      BY <3>3, Limbo
    <3> QED BY <3>4 DEF Kept
  <2> QED BY <2>1, <2>2, <2>3
<1> QED BY <1>1, <1>7, KeptSettle

LEMMA KeptTrackChanged ==
  ASSUME Kept(engine), TrackChanged
  PROVE  Kept(engine')
<1> DEFINE r == OnTrackChanged(engine)
<1>1. engine.status # "stopped" /\ Settle(r) /\ Sound(engine, FALSE)
  BY DEF TrackChanged, Kept, Sound, Fit
<1>2. \A p \in BOOLEAN : Sound(engine, p) => Sound(r, p)
  BY <1>1, SoundTrackChanged
<1>3. Calm /\ Good(engine) => r.status = "stopped" \/ Good(r)
  BY <1>1, GoodTrackChanged
<1> HIDE DEF r
<1>4. Kept(r)
  BY <1>2, <1>3, KeptBy
<1> QED BY <1>1, <1>4, KeptSettle

LEMMA KeptBufferLow ==
  ASSUME Kept(engine), BufferLow
  PROVE  Kept(engine')
<1> DEFINE k == engine.peek
           r == Rebuffer(engine, "new", k)
<1>1. Sound(engine, FALSE) /\ k \in Int /\ k = engine.peek
  BY DEF Kept, Sound, Fit, Engine
<1>2. Settle(r) /\ engine.list # <<>>
  BY DEF BufferLow
<1> HIDE DEF k
<1>3. \A p \in BOOLEAN : Sound(engine, p) => Sound(r, p)
  BY <1>1, Rebuffered
<1>4. Calm /\ engine.status # "stopped" /\ Good(engine) => Good(r)
  BY <1>1, <1>2, GoodRelieved
<1> HIDE DEF r
<1>5. Kept(r)
  BY <1>3, <1>4, KeptBy
<1> QED BY <1>2, <1>5, KeptSettle

-----------------------------------------------------------------------------
(* What the other threads report.                                          *)

LEMMA KeptPost ==
  ASSUME NEW e, Kept(e), NEW m \in Messages \ {"finish", "complete"},
         m = "seek" => AllOk(file) \/ ~Calm
  PROVE  Kept(Post(e, m))
<1> DEFINE r == Post(e, m)
<1>1. m \in Messages /\ m # "finish" /\ m # "complete"
  OBVIOUS
<1>2. ASSUME NEW p \in BOOLEAN, Sound(e, p)
      PROVE  /\ Sound(r, p) /\ Only(r, e, {"inbox"}) /\ Alike(r, e, {m})
             /\ In(r.inbox, m)
  BY <1>1, <1>2, Posted
<1>3. Sound(e, FALSE)
  BY DEF Kept
<1>4. Only(r, e, {"inbox"}) /\ Alike(r, e, {m}) /\ In(r.inbox, m)
  BY <1>2, <1>3
<1> HIDE DEF r
<1>5. /\ r.q = e.q /\ r.list = e.list /\ r.cur = e.cur /\ r.peek = e.peek
      /\ r.loading = e.loading /\ r.filling = e.filling
      /\ r.skip = e.skip /\ r.mark = e.mark /\ r.late = e.late
      /\ r.status = e.status /\ r.codec = e.codec /\ r.playing = e.playing
  BY <1>4 DEF Only, Fields
<1>6. "finish" \notin {m} /\ "complete" \notin {m}
  BY <1>1
<1>7. In(e.inbox, "fill") => In(r.inbox, "fill")
  <2>1. CASE m = "fill"
    BY <1>4, <2>1
  <2>2. CASE m # "fill"
    <3>1. "fill" \notin {m}
      BY <2>2
    <3> QED BY <1>4, <3>1 DEF Alike
  <2> QED BY <2>1, <2>2
<1>8. ASSUME Good(e) PROVE Good(r)
  <2>1. Likewise(r, e)
    BY <1>4, <1>5, <1>6 DEF Likewise, Alike
  <2>2. Told(r)
    BY <1>4, <1>5, <1>6, <1>8 DEF Good, Told, Alike
  <2> QED BY <1>5, <1>7, <1>8, <2>1, <2>2, GoodKept
<1> QED BY <1>2, <1>8, KeptBy DEF r

LEMMA KeptLastBuffered ==
  ASSUME Kept(engine), LastBuffered
  PROVE  Kept(engine')
<1> DEFINE r == WithFilling(engine, "finished")
<1>1. engine' = r /\ engine.filling = "end" /\ Sound(engine, FALSE)
  BY DEF LastBuffered, WithFilling, Kept
<1>2. ASSUME NEW p \in BOOLEAN, Sound(engine, p)
      PROVE  Sound(r, p) /\ Only(r, engine, {"filling"}) /\ r.filling = "finished"
  BY <1>2, FillingSet
<1>3. Only(r, engine, {"filling"}) /\ r.filling = "finished"
  BY <1>1, <1>2
<1> HIDE DEF r
<1>4. /\ r.q = engine.q /\ r.list = engine.list /\ r.cur = engine.cur
      /\ r.peek = engine.peek /\ r.loading = engine.loading
      /\ r.skip = engine.skip /\ r.mark = engine.mark /\ r.late = engine.late
      /\ r.status = engine.status /\ r.codec = engine.codec
      /\ r.playing = engine.playing /\ r.inbox = engine.inbox
  BY <1>3 DEF Only, Fields
<1>5. ASSUME Good(engine) PROVE Good(r)
  <2>1. Likewise(r, engine)
    BY <1>4 DEF Likewise
  <2>2. Told(r)
    BY <1>1, <1>4, <1>5 DEF Good, Told
  <2>3. r.filling # "full"
    BY <1>3
  <2> QED BY <1>4, <1>5, <2>1, <2>2, <2>3, GoodKept
<1>6. Kept(r)
  BY <1>2, <1>5, KeptBy
<1> QED BY <1>1, <1>6

LEMMA KeptMetadataRead ==
  ASSUME Kept(engine), MetadataRead
  PROVE  Kept(engine')
<1> DEFINE l == WithLoading(engine, "read")
           m == "finish"
           r == Post(l, m)
<1>1. engine.loading = "reading" /\ Sound(engine, FALSE)
  BY DEF MetadataRead, Kept
<1>2. Mailed(engine) /\ engine.list # <<>>
  BY <1>1 DEF Sound, Fit
<1>3. ~In(engine.inbox, "finish") /\ engine.filling # "full"
  BY <1>1, <1>2 DEF Mailed
<1>4. engine' = r
  BY DEF MetadataRead, Post, WithLoading
<1>5. m \in Messages /\ m # "complete" /\ m # "seek"
  BY DEF Messages
<1>6. ASSUME NEW p \in BOOLEAN, Sound(engine, p)
      PROVE  /\ Sound(l, p) /\ Only(l, engine, {"loading"}) /\ l.loading = "read"
  BY <1>2, <1>6, LoadingSet
<1>7. Only(l, engine, {"loading"}) /\ l.loading = "read"
  BY <1>1, <1>6
<1> HIDE DEF l
<1>8. l.inbox = engine.inbox /\ l.filling = engine.filling /\ ~In(l.inbox, "finish")
  BY <1>3, <1>7 DEF Only, Fields
<1>9. ASSUME NEW p \in BOOLEAN, Sound(engine, p)
      PROVE  /\ Sound(r, p) /\ Only(r, l, {"inbox"}) /\ Alike(r, l, {m})
             /\ In(r.inbox, m)
  <2>1. Sound(l, p)
    BY <1>6, <1>9
  <2>2. m = "finish" => /\ ~In(l.inbox, "finish") /\ l.loading = "read"
                        /\ l.filling # "full"
    BY <1>3, <1>7, <1>8
  <2> HIDE DEF m
  <2> QED BY <1>5, <2>1, <2>2, Posted
<1>10. Only(r, l, {"inbox"}) /\ Alike(r, l, {m}) /\ In(r.inbox, "finish")
  BY <1>1, <1>9
<1> HIDE DEF r
<1>11. /\ r.q = engine.q /\ r.list = engine.list /\ r.cur = engine.cur
       /\ r.peek = engine.peek /\ r.filling = engine.filling
       /\ r.skip = engine.skip /\ r.mark = engine.mark /\ r.late = engine.late
       /\ r.status = engine.status /\ r.codec = engine.codec
       /\ r.playing = engine.playing /\ r.loading = "read"
  BY <1>7, <1>10 DEF Only, Fields
<1>12. "fill" \notin {m} /\ "complete" \notin {m}
  OBVIOUS
<1>13. ASSUME Good(engine) PROVE Good(r)
  <2>1. Likewise(r, engine)
    BY <1>8, <1>10, <1>11, <1>12 DEF Likewise, Alike
  <2>2. Told(r)
    BY <1>10 DEF Told
  <2>3. In(engine.inbox, "fill") => In(r.inbox, "fill")
    BY <1>8, <1>10, <1>12 DEF Alike
  <2>4. r.loading # "no" <=> engine.loading # "no"
    BY <1>1, <1>11
  <2> QED BY <1>11, <1>13, <2>1, <2>2, <2>3, <2>4, GoodKept
<1>14. Kept(r)
  BY <1>9, <1>13, KeptBy
<1> QED BY <1>4, <1>14

LEMMA KeptCodecDone ==
  ASSUME Kept(engine), CodecDone
  PROVE  Kept(engine')
<1> DEFINE m == "complete"
           c == Post(engine, m)
           r == WithCodec(c, "idle")
<1>1. engine.codec = "decoding" /\ Sound(engine, FALSE) /\ engine' = r
  BY DEF CodecDone, WithCodec, Kept
<1>2. engine.status # "stopped"
  BY <1>1 DEF Sound, Fit
<1>3. m \in Messages /\ m # "finish" /\ m # "seek"
  BY DEF Messages
<1>4. ASSUME NEW p \in BOOLEAN, Sound(engine, p)
      PROVE  /\ Sound(c, p) /\ Only(c, engine, {"inbox"}) /\ Alike(c, engine, {m})
             /\ In(c.inbox, m) /\ (~In(engine.inbox, m) => Once(c.inbox, m))
  <2> HIDE DEF m
  <2> QED BY <1>2, <1>3, <1>4, Posted
<1>5. /\ Only(c, engine, {"inbox"}) /\ Alike(c, engine, {m})
      /\ In(c.inbox, m) /\ (~In(engine.inbox, m) => Once(c.inbox, m))
  BY <1>1, <1>4
<1> HIDE DEF c
<1>6. ASSUME NEW p \in BOOLEAN, Sound(engine, p)
      PROVE  Sound(r, p) /\ Only(r, c, {"codec"}) /\ r.codec = "idle"
  BY <1>4, <1>6, CodecSet
<1>7. Only(r, c, {"codec"}) /\ r.codec = "idle"
  BY <1>1, <1>6
<1> HIDE DEF r
<1>8. /\ r.q = engine.q /\ r.list = engine.list /\ r.cur = engine.cur
      /\ r.peek = engine.peek /\ r.filling = engine.filling
      /\ r.skip = engine.skip /\ r.mark = engine.mark /\ r.late = engine.late
      /\ r.status = engine.status /\ r.loading = engine.loading
      /\ r.playing = engine.playing /\ r.inbox = c.inbox
  BY <1>5, <1>7 DEF Only, Fields
<1>9. ASSUME Good(engine) PROVE Good(r)
  <2>1. Audio(r) <=> Audio(engine)
    BY <1>8, AudioIs
  <2>2. Audio(engine) /\ engine.late = FALSE /\ ~In(engine.inbox, "complete")
        /\ engine.cur # 0
    <3>1. Audio(engine) /\ ~Done(engine)
      BY <1>1, <1>9 DEF Good, Steady
    <3>2. engine.late \in BOOLEAN
      BY <1>1 DEF Sound, Fit, Engine
    <3> QED BY <3>1, <3>2 DEF Done, Audio
  <2>3. Behind(r) = Behind(engine)
    BY <1>8, BehindIs
  <2>4. Buffer(r, Behind(r))
    <3>1. Order(r, Behind(r)) /\ Heard(r)
      BY <1>8, <1>9, <2>3, OrderKept, HeardKept DEF Good, Buffer
    <3>2. Alone(r) /\ Roomy(r)
      BY <1>8, <1>9, <2>1 DEF Alone, Roomy, Good, Buffer
    <3> QED BY <3>1, <3>2 DEF Buffer
  <2>5. "finish" \notin {m}
    OBVIOUS
  <2>6. Told(r)
    BY <1>5, <1>8, <1>9, <2>5 DEF Good, Told, Alike
  <2>7. Once(r.inbox, "complete") /\ In(r.inbox, "complete")
    BY <1>5, <1>8, <2>2
  <2>8. Steady(r)
    BY <1>7, <1>8, <1>9, <2>1, <2>2, <2>7 DEF Good, Steady
  <2>9. Awake(r)
    BY <2>7 DEF Awake, Done
  <2> QED BY <2>4, <2>6, <2>8, <2>9 DEF Good
<1>10. Kept(r)
  BY <1>6, <1>9, KeptBy
<1> QED BY <1>1, <1>10

LEMMA KeptMarkPlayed ==
  ASSUME Kept(engine), MarkPlayed
  PROVE  Kept(engine')
<1> DEFINE r == WithMark(engine, "played")
<1>1. engine' = r /\ engine.status # "stopped" /\ Sound(engine, FALSE)
  BY DEF MarkPlayed, WithMark, Kept
<1>2. ASSUME NEW p \in BOOLEAN, Sound(engine, p)
      PROVE  Sound(r, p) /\ Only(r, engine, {"mark"}) /\ r.mark = "played"
  BY <1>1, <1>2, MarkSet
<1>3. Only(r, engine, {"mark"}) /\ r.mark = "played"
  BY <1>1, <1>2
<1> HIDE DEF r
<1>4. /\ r.q = engine.q /\ r.list = engine.list /\ r.cur = engine.cur
      /\ r.peek = engine.peek /\ r.filling = engine.filling
      /\ r.skip = engine.skip /\ r.late = engine.late
      /\ r.status = engine.status /\ r.loading = engine.loading
      /\ r.playing = engine.playing /\ r.inbox = engine.inbox
      /\ r.codec = engine.codec
  BY <1>3 DEF Only, Fields
<1>5. ASSUME Good(engine) PROVE Good(r)
  <2>1. Audio(r) <=> Audio(engine)
    BY <1>4, AudioIs
  <2>2. Behind(r) = Behind(engine)
    BY <1>4, BehindIs
  <2>3. Order(r, Behind(r)) /\ Heard(r)
    BY <1>4, <1>5, <2>2, OrderKept, HeardKept DEF Good, Buffer
  <2>4. Alone(r) /\ Roomy(r) /\ Told(r)
    BY <1>4, <1>5, <2>1 DEF Alone, Roomy, Told, Good, Buffer
  <2>5. Steady(r) /\ Awake(r)
    BY <1>3, <1>4, <1>5, <2>1 DEF Good, Steady, Awake, Done
  <2> QED BY <2>3, <2>4, <2>5 DEF Good, Buffer
<1>6. Kept(r)
  BY <1>2, <1>5, KeptBy
<1> QED BY <1>1, <1>6

LEMMA KeptEngineNext ==
  ASSUME Kept(engine), EngineNext
  PROVE  Kept(engine')
<1>1. CASE AskRebuffer
  <2> DEFINE m == "rebuffer"
  <2>1. engine' = Post(engine, m) /\ m \in Messages \ {"finish", "complete"}
        /\ m # "seek"
    BY <1>1 DEF AskRebuffer, Messages
  <2> HIDE DEF m
  <2> QED BY <2>1, KeptPost
<1> QED BY <1>1, KeptTakeMessage, KeptTrackChanged, KeptBufferLow, KeptLastBuffered,
           KeptMetadataRead, KeptCodecDone, KeptMarkPlayed DEF EngineNext

-----------------------------------------------------------------------------
(* The listener.                                                           *)

\* Another queue, in another mode.
LEMMA QueueSet ==
  ASSUME NEW p \in BOOLEAN, NEW e, Sound(e, p), NEW v, Sane(v),
         AllOk(file) => Length(v) > 0,
         Calm => v.repeat \in Plain /\ (v.repeat = "all" => AllOk(file))
  PROVE  /\ Sound(WithQ(e, v), p) /\ WithQ(e, v).q = v
         /\ Only(WithQ(e, v), e, {"q"})
<1> DEFINE r == WithQ(e, v)
<1>1. Fit(r)
  BY DEF Sound, WithQ, Fit, Engine, Sane
<1>2. r.q = v
  BY DEF Sound, WithQ, Fit, Engine
<1>3. Only(r, e, {"q"})
  BY DEF WithQ, Only, Fields, Sound, Fit, Engine
<1> HIDE DEF r
<1>4. r.inbox = e.inbox /\ r.status = e.status /\ r.loading = e.loading
      /\ r.filling = e.filling /\ r.hung = e.hung
  BY <1>3 DEF Only, Fields
<1>5. Sound(r, p)
  BY <1>1, <1>2, <1>4 DEF Sound, Mailed, Tame
<1> QED BY <1>2, <1>3, <1>5 DEF r

\* The engine is about to be started anew.
LEMMA KeptStart ==
  ASSUME Kept(engine), NEW q, Sane(q), AllOk(file) => Length(q) > 0,
         q.repeat = engine.q.repeat
  PROVE  Kept(Post([engine EXCEPT !.q = q], "play"))
<1> DEFINE p == FALSE
           m == "play"
           w == WithQ(engine, q)
           r == Post(w, m)
<1>1. p \in BOOLEAN /\ Sound(engine, p)
  BY DEF Kept
<1>2. Sound(w, p)
  <2> HIDE DEF p
  <2> QED BY <1>1, QSet
<1>3. Post([engine EXCEPT !.q = q], "play") = r
  BY DEF WithQ
<1> HIDE DEF w
<1>4. m \in Messages /\ m # "finish" /\ m # "complete" /\ m # "seek"
  BY DEF Messages
<1>5. Sound(r, p) /\ In(r.inbox, m)
  <2> HIDE DEF p, m
  <2> QED BY <1>1, <1>2, <1>4, Posted
<1> HIDE DEF r
<1>6. Sound(r, FALSE) /\ ~Runs(r)
  BY <1>5 DEF Runs, Has, In
<1> QED BY <1>3, <1>6 DEF Kept

LEMMA KeptPlaylistStart ==
  ASSUME Kept(engine), NEW i \in 0 .. Length(engine.q) - 1, PlaylistStart(i)
  PROVE  Kept(engine')
<1> DEFINE q == GoTo(engine.q, i)
<1>1. engine' = Post([engine EXCEPT !.q = q], "play")
  BY DEF PlaylistStart
<1>2. Sane(engine.q) /\ Length(engine.q) \in Nat
  BY LengthType DEF Kept, Sound, Fit, Sane
<1>3. Sane(q) /\ q.repeat = engine.q.repeat /\ Length(q) = Length(engine.q)
  BY <1>2 DEF GoTo, Sane, Queue, Length
<1> HIDE DEF q
<1>4. Length(q) > 0
  BY <1>2, <1>3
<1> QED BY <1>1, <1>3, <1>4, KeptStart

LEMMA KeptReplaced ==
  ASSUME Kept(engine), NEW paths \in Queues, NEW start \in 0 .. Len(paths) - 1,
         NEW perm \in Orders(Len(paths)), Replaced(paths, start, perm)
  PROVE  Kept(engine')
<1>1. PICK q \in {Replace(engine.q, paths, start, perm),
                  ReplaceShuffled(engine.q, paths, perm)} :
        engine' = Post([engine EXCEPT !.q = q], "play")
  BY DEF Replaced
<1>2. engine.q \in Queue /\ paths \in Seq(Tracks) /\ paths # <<>>
  BY QueuesAssumption DEF Kept, Sound, Fit, Engine
<1>3. Sane(q) /\ q.repeat = engine.q.repeat /\ Length(q) = Len(paths)
  BY <1>2, ReplaceSane, ReplaceShuffledSane
<1>4. Length(q) > 0
  BY <1>2, <1>3
<1> QED BY <1>1, <1>3, <1>4, KeptStart

\* The skips at the head of the inbox make way for the new one.
LEMMA SkippedIs ==
  ASSUME NEW e, e = engine, Fit(e), NEW n \in {-1, 1}
  PROVE  \E v \in Seq(Messages), k \in Int :
            /\ Skipped(n) = Post(WithSkipBy(WithInbox(e, v), k), "skip")
            /\ \A x : x # "skip" => (In(v, x) <=> In(e.inbox, x))
            /\ \A x : Once(e.inbox, x) => Once(v, x)
<1> DEFINE inbox == e.inbox
           news == {i \in DOMAIN inbox : inbox[i] # "skip"}
           from == IF news = {} THEN Len(inbox) + 1
                   ELSE CHOOSE i \in news : \A j \in news : i <= j
           v == SubSeq(inbox, from, Len(inbox))
           k == e.skipBy + n
           s == WithSkipBy(WithInbox(e, v), k)
<1>1. inbox \in Seq(Messages) /\ e.skipBy \in Int
  BY DEF Fit, Engine
<1>2. DOMAIN inbox = 1 .. Len(inbox) /\ Len(inbox) \in Nat
  BY <1>1
<1>3. news \in SUBSET (1 .. Len(inbox)) /\ news \in SUBSET Nat
  BY <1>2
<1>4. news # {} => \E i \in news : \A j \in news : i <= j
  <2> HIDE DEF news
  <2> QED BY <1>3, Least
<1>5. from \in 1 .. Len(inbox) + 1 /\ \A i \in 1 .. from - 1 : i \notin news
  <2>1. CASE news = {}
    <3> HIDE DEF news, inbox
    <3> QED BY <1>2, <2>1
  <2>2. CASE news # {}
    <3>1. from \in news /\ \A j \in news : from <= j
      <4> HIDE DEF news
      <4> QED BY <1>4, <2>2
    <3> HIDE DEF from, news, inbox
    <3>2. from \in 1 .. Len(inbox) /\ from \in Nat
      BY <1>3, <3>1
    <3>3. \A i \in 1 .. from - 1 : i \notin news
      <4>1. \A i \in 1 .. from - 1 : ~(from <= i)
        BY <3>2
      <4> QED BY <3>1, <4>1
    <3> QED BY <1>2, <3>2, <3>3
  <2> QED BY <2>1, <2>2
<1>6. \A i \in 1 .. from - 1 : inbox[i] = "skip"
  <2>1. \A i \in 1 .. Len(inbox) : i \notin news => inbox[i] = "skip"
    BY <1>2
  <2> HIDE DEF news, inbox, from
  <2>2. \A i \in 1 .. from - 1 : i \in 1 .. Len(inbox)
    BY <1>2, <1>5
  <2> QED BY <1>5, <2>1, <2>2
<1>7. Skipped(n) = Post(s, "skip")
  <2>1. Skipped(n) = Post([e EXCEPT !.inbox = v, !.skipBy = k], "skip")
    BY DEF Skipped, Fit, Engine
  <2> QED BY <2>1 DEF WithInbox, WithSkipBy
<1> HIDE DEF from, inbox, news
<1>8. /\ v \in Seq(Messages)
      /\ \A x : In(v, x) => In(inbox, x)
      /\ \A x : In(inbox, x) /\ (\A i \in 1 .. from - 1 : inbox[i] # x) => In(v, x)
      /\ \A x : Once(inbox, x) => Once(v, x)
  BY <1>1, <1>5, RestIs
<1>9. \A x : x # "skip" => \A i \in 1 .. from - 1 : inbox[i] # x
  BY <1>6
<1> HIDE DEF v
<1>10. \A x : x # "skip" => (In(v, x) <=> In(inbox, x))
  BY <1>8, <1>9
<1>11. k \in Int
  BY <1>1
<1> HIDE DEF k
<1> QED BY <1>7, <1>8, <1>10, <1>11 DEF inbox

LEMMA KeptSkipped ==
  ASSUME Kept(engine), NEW n \in {-1, 1}
  PROVE  Kept(Skipped(n))
<1> DEFINE e == engine
<1>1. Fit(e) /\ Sound(e, FALSE)
  BY DEF Kept, Sound
<1>2. PICK v \in Seq(Messages), k \in Int :
            /\ Skipped(n) = Post(WithSkipBy(WithInbox(e, v), k), "skip")
            /\ \A x : x # "skip" => (In(v, x) <=> In(e.inbox, x))
            /\ \A x : Once(e.inbox, x) => Once(v, x)
  BY <1>1, SkippedIs
<1> DEFINE w == WithInbox(e, v)
           r == WithSkipBy(w, k)
<1>3. w.inbox = v /\ Only(w, e, {"inbox"})
  <2>1. w.inbox = v
    BY <1>1 DEF WithInbox, Fit, Engine
  <2>2. Only(w, e, {"inbox"})
    BY <1>1 DEF WithInbox, Only, Fields, Fit, Engine
  <2> QED BY <2>1, <2>2
<1> HIDE DEF e
<1>4. ASSUME NEW p \in BOOLEAN, Sound(e, p) PROVE Sound(w, p)
  <2> HIDE DEF w
  <2>1. /\ w.q = e.q /\ w.status = e.status /\ w.loading = e.loading
        /\ w.filling = e.filling /\ w.hung = e.hung
    BY <1>3 DEF Only, Fields
  <2>2. /\ In(v, "finish") <=> In(e.inbox, "finish")
        /\ In(v, "complete") <=> In(e.inbox, "complete")
        /\ In(v, "seek") <=> In(e.inbox, "seek")
        /\ In(v, "play") <=> In(e.inbox, "play")
        /\ Once(e.inbox, "finish") => Once(v, "finish")
    BY <1>2
  <2>3. Mailed(w) /\ Tame(w, file)
    BY <1>3, <1>4, <2>1, <2>2 DEF Sound, Mailed, Tame
  <2>4. p => In(v, "play") \/ e.status = "stopped"
    BY <1>4, <2>2 DEF Sound
  <2> QED BY <1>4, <2>3, <2>4, InboxSet DEF w
<1> HIDE DEF w
<1>5. ASSUME NEW p \in BOOLEAN, Sound(e, p)
      PROVE  Sound(r, p) /\ Only(r, w, {"skipBy"})
  BY <1>4, <1>5, SkipBySet
<1>6. Only(r, w, {"skipBy"})
  BY <1>1, <1>5
<1> HIDE DEF r
<1>7. /\ r.q = e.q /\ r.list = e.list /\ r.cur = e.cur /\ r.peek = e.peek
      /\ r.loading = e.loading /\ r.filling = e.filling
      /\ r.skip = e.skip /\ r.mark = e.mark /\ r.late = e.late
      /\ r.status = e.status /\ r.codec = e.codec /\ r.playing = e.playing
      /\ r.inbox = v
  BY <1>3, <1>6 DEF Only, Fields
<1>8. ASSUME Good(e) PROVE Good(r)
  <2>1. Likewise(r, e)
    BY <1>2, <1>7 DEF Likewise
  <2>2. Told(r)
    BY <1>2, <1>7, <1>8 DEF Good, Told
  <2>3. In(e.inbox, "fill") => In(r.inbox, "fill")
    BY <1>2, <1>7
  <2> QED BY <1>7, <1>8, <2>1, <2>2, <2>3, GoodKept
<1>9. Kept(e)
  BY DEF e
<1>10. Kept(r)
  BY <1>5, <1>8, <1>9, KeptBy
<1> DEFINE m == "skip"
<1>11. m \in Messages \ {"finish", "complete"} /\ m # "seek"
  BY DEF Messages
<1>12. Skipped(n) = Post(r, m)
  BY <1>2 DEF r, w
<1> HIDE DEF m
<1> QED BY <1>10, <1>11, <1>12, KeptPost

LEMMA KeptShuffle ==
  ASSUME Kept(engine), NEW on \in BOOLEAN, NEW perm \in Orders(Length(engine.q)),
         Shuffle(on, perm)
  PROVE  Kept(engine')
<1> DEFINE q == SetShuffle(engine.q, on, perm)
           r == WithQ(engine, q)
<1>1. engine' = r /\ (engine.status = "stopped" \/ "reorder" \in RoughSpots)
  BY DEF Shuffle, WithQ
<1>2. Sane(engine.q) /\ Sound(engine, FALSE)
  BY DEF Kept, Sound, Fit
<1>3. Sane(q) /\ Length(q) = Length(engine.q) /\ q.repeat = engine.q.repeat
  BY <1>2, SetShuffleSane
<1> HIDE DEF q
<1>4. AllOk(file) => Length(q) > 0
  BY <1>2, <1>3 DEF Sound, Tame
<1>5. \A p \in BOOLEAN : Sound(engine, p) => Sound(r, p)
  BY <1>3, <1>4, QSet
<1>6. ~(Calm /\ engine.status # "stopped")
  BY <1>1 DEF Calm
<1> HIDE DEF r
<1>7. Kept(r)
  BY <1>5, <1>6, KeptBy
<1> QED BY <1>1, <1>7

LEMMA MayRepeatIs ==
  ASSUME NEW mode \in Modes, MayRepeat(mode)
  PROVE  Calm => mode \in Plain /\ (mode = "all" => AllOk(file))
BY DEF MayRepeat, Calm, Broken, AllOk

LEMMA KeptRepeat ==
  ASSUME Kept(engine), NEW mode \in Modes, Repeat(mode)
  PROVE  Kept(engine')
<1> DEFINE q == SetRepeat(engine.q, mode)
           r == WithQ(engine, q)
<1>1. /\ engine' = r /\ (engine.status = "stopped" \/ "reorder" \in RoughSpots)
      /\ MayRepeat(mode)
  BY DEF Repeat, WithQ
<1>2. Sane(engine.q) /\ Sound(engine, FALSE) /\ mode \in RepeatModes
  BY ModesAssumption DEF Kept, Sound, Fit
<1>3. Sane(q) /\ Length(q) = Length(engine.q) /\ q.repeat = mode
  BY <1>2 DEF SetRepeat, Sane, Queue, Length
<1> HIDE DEF q
<1>4. AllOk(file) => Length(q) > 0
  BY <1>2, <1>3 DEF Sound, Tame
<1>5. Calm => q.repeat \in Plain /\ (q.repeat = "all" => AllOk(file))
  BY <1>1, <1>3, MayRepeatIs
<1>6. \A p \in BOOLEAN : Sound(engine, p) => Sound(r, p)
  BY <1>3, <1>4, <1>5, QueueSet
<1>7. ~(Calm /\ engine.status # "stopped")
  BY <1>1 DEF Calm
<1> HIDE DEF r
<1>8. Kept(r)
  BY <1>6, <1>7, KeptBy
<1> QED BY <1>1, <1>8

LEMMA KeptUserNext ==
  ASSUME Kept(engine), UserNext
  PROVE  Kept(engine')
<1>1. \A m \in {"resume", "stop", "pause"} : Kept(Post(engine, m))
  <2>1. \A m \in {"resume", "stop", "pause"} :
           m \in Messages \ {"finish", "complete"} /\ m # "seek"
    BY DEF Messages
  <2> QED BY <2>1, KeptPost
<1>2. CASE \E i \in 0 .. Length(engine.q) - 1 : PlaylistStart(i)
  BY <1>2, KeptPlaylistStart
<1>3. CASE Resume
  BY <1>1, <1>3 DEF Resume
<1>4. CASE QueueReplace
  BY <1>1, <1>4 DEF QueueReplace
<1>5. CASE PlayPause
  <2> DEFINE m == IF engine.status = "paused" THEN "resume" ELSE "pause"
  <2>1. engine' = Post(engine, m) /\ m \in {"resume", "stop", "pause"}
    BY <1>5 DEF PlayPause
  <2> HIDE DEF m
  <2> QED BY <1>1, <2>1
<1>6. CASE Seek
  <2> DEFINE m == "seek"
  <2>1. engine' = Post(engine, m) /\ m \in Messages \ {"finish", "complete"}
    BY <1>6 DEF Seek, Messages
  <2>2. AllOk(file) \/ ~Calm
    BY <1>6 DEF Seek, Broken, AllOk, Calm
  <2> HIDE DEF m
  <2> QED BY <2>1, <2>2, KeptPost
<1>7. CASE \E paths \in Queues : \E start \in 0 .. Len(paths) - 1,
              perm \in Orders(Len(paths)) : Replaced(paths, start, perm)
  BY <1>7, KeptReplaced
<1>8. CASE \E n \in {-1, 1} : Skip(n)
  <2>1. PICK n \in {-1, 1} : engine' = Skipped(n)
    BY <1>8 DEF Skip
  <2> QED BY <2>1, KeptSkipped
<1>9. CASE \E on \in BOOLEAN, perm \in Orders(Length(engine.q)) : Shuffle(on, perm)
  BY <1>9, KeptShuffle
<1>10. CASE \E mode \in Modes : Repeat(mode)
  BY <1>10, KeptRepeat
<1> QED BY <1>2, <1>3, <1>4, <1>5, <1>6, <1>7, <1>8, <1>9, <1>10 DEF UserNext

-----------------------------------------------------------------------------
(* The theorems.                                                           *)

LEMMA KeptIdle ==
  ASSUME NEW paths \in Queues, NEW mode \in Modes, NEW i \in 0 .. Len(paths) - 1,
         MayRepeat(mode)
  PROVE  LET idle == Stopped(Queued(paths, mode, i))
         IN  /\ Kept(idle) /\ idle.status = "stopped" /\ idle.playing = None
             /\ idle.skipBy = 0 /\ Length(idle.q) = Len(paths) /\ Len(paths) \in Nat
             /\ \A m : ~In(idle.inbox, m)
<1> DEFINE q == Queued(paths, mode, i)
           idle == Stopped(q)
<1>3. paths \in Seq(Tracks) /\ mode \in RepeatModes
  BY QueuesAssumption, ModesAssumption
<1>4. q \in Queue /\ q.paths = paths /\ q.original = paths /\ q.index = i
      /\ q.repeat = mode
  <2> DEFINE none == <<>>
             e == [paths |-> none, original |-> none, index |-> 0,
                   shuffle |-> FALSE, repeat |-> mode]
             a == [e EXCEPT !.paths = paths]
             b == [a EXCEPT !.original = paths]
  <2>1. none \in Seq(Tracks)
    OBVIOUS
  <2>2. q = [b EXCEPT !.index = i]
    BY DEF Queued, Empty
  <2> HIDE DEF none
  <2>3. e \in Queue /\ e.repeat = mode
    BY <1>3, <2>1 DEF Queue
  <2> HIDE DEF e
  <2>4. a \in Queue /\ a.paths = paths /\ a.repeat = mode
    BY <1>3, <2>3 DEF Queue
  <2> HIDE DEF a
  <2>5. b \in Queue /\ b.paths = paths /\ b.original = paths /\ b.repeat = mode
    BY <1>3, <2>4 DEF Queue
  <2> HIDE DEF b, q
  <2> QED BY <2>2, <2>5 DEF Queue
<1>6. i < Len(paths)
  BY <1>3
<1>7. Sane(q) /\ Length(q) > 0
  <2> HIDE DEF q
  <2> QED BY <1>3, <1>4, <1>6 DEF Sane, Length
<1> HIDE DEF q
<1>8. q \in Queue
  BY <1>7 DEF Sane
<1> DEFINE none == <<>>
<1>9. none \in Seq(Messages) /\ none \in Seq(Tracks)
  OBVIOUS
<1>10. idle = [
    q |-> q, inbox |-> none, status |-> "stopped", list |-> none, cur |-> 0,
    loading |-> "no", peek |-> 0, filling |-> "idle", skip |-> "none",
    late |-> FALSE, codec |-> "idle", mark |-> "none", playing |-> None,
    skipBy |-> 0, stat |-> "ok", hung |-> FALSE ]
  BY DEF Stopped, q
<1>11. Len(none) = 0
  OBVIOUS
<1> HIDE DEF none, idle
<1>12. idle \in Engine
  BY <1>8, <1>9, <1>10 DEF Engine
<1>13. idle.q = q /\ idle.list = none /\ idle.cur = 0 /\ idle.loading = "no"
       /\ idle.mark = "none" /\ idle.late = FALSE /\ idle.skip = "none"
       /\ idle.playing = None /\ idle.codec = "idle"
       /\ idle.inbox = none /\ idle.status = "stopped" /\ ~idle.hung
       /\ idle.filling = "idle"
  BY <1>10
<1>14. Fit(idle)
  BY <1>7, <1>11, <1>12, <1>13 DEF Fit, none
<1>15. \A x : ~In(idle.inbox, x) /\ Once(idle.inbox, x)
  <2>1. DOMAIN none = {}
    BY DEF none
  <2> QED BY <1>13, <2>1 DEF In, Once
<1>16. Mailed(idle)
  BY <1>13, <1>15 DEF Mailed
<1>17. Tame(idle, file)
  <2>1. Calm => mode \in Plain /\ (mode = "all" => AllOk(file))
    BY MayRepeatIs
  <2>2. idle.q.repeat = mode
    BY <1>4, <1>13
  <2> QED BY <1>7, <1>13, <1>15, <2>1, <2>2 DEF Tame
<1>18. Sound(idle, FALSE) /\ ~Runs(idle)
  BY <1>13, <1>14, <1>16, <1>17 DEF Sound, Runs
<1>19. idle.skipBy = 0 /\ Length(idle.q) = Len(paths) /\ Len(paths) \in Nat
  BY <1>3, <1>4, <1>10, <1>13 DEF Length
<1> QED BY <1>13, <1>15, <1>18, <1>19 DEF Kept, idle, q

LEMMA KeptInit ==
  ASSUME Init
  PROVE  Kept(engine)
BY KeptIdle DEF Init

LEMMA KeptStep ==
  ASSUME Kept(engine), [Next]_vars
  PROVE  Kept(engine)'
<1>1. file' = file
  <2>1. CASE UserNext
    BY <2>1 DEF UserNext, PlaylistStart, Resume, QueueReplace, PlayPause, Seek,
                Replaced, Skip, Shuffle, Repeat, Command
  <2>2. CASE EngineNext
    BY <2>2 DEF EngineNext, TakeMessage, TrackChanged, BufferLow, LastBuffered,
                MetadataRead, AskRebuffer, CodecDone, MarkPlayed
  <2>3. CASE UNCHANGED vars
    BY <2>3 DEF vars
  <2> QED BY <2>1, <2>2, <2>3 DEF Next
<1>2. Kept(engine')
  <2>1. CASE UserNext
    BY <2>1, KeptUserNext
  <2>2. CASE EngineNext
    BY <2>2, KeptEngineNext
  <2>3. CASE UNCHANGED vars
    BY <2>3 DEF vars
  <2> QED BY <2>1, <2>2, <2>3 DEF Next
<1> QED BY <1>1, <1>2 DEF Kept, Sound, Good, Buffer, Heard, Steady

\* What is not the engine's.
Aside ==
    /\ ui \in {"free", "playing", "resume", "stopping", "replace", "waiting"}
    /\ commands \in 0 .. MaxCommands
    /\ file \in [Tracks -> {"ok", "missing", "unreadable"}]

LEMMA AsideStep ==
  ASSUME Aside, [Next]_vars
  PROVE  Aside'
<1>1. MaxCommands \in Nat
  BY BoundAssumption
<1>2. CASE UNCHANGED vars
  BY <1>2 DEF Aside, vars
<1>3. CASE TakeMessage
  BY <1>3 DEF TakeMessage, Replied, Aside
<1>4. CASE EngineNext /\ ~TakeMessage
  <2>1. UNCHANGED <<ui, commands, file>>
    <3>1. CASE TrackChanged
      BY <3>1 DEF TrackChanged
    <3>2. CASE BufferLow
      BY <3>2 DEF BufferLow
    <3>3. CASE LastBuffered
      BY <3>3 DEF LastBuffered
    <3>4. CASE MetadataRead \/ AskRebuffer \/ CodecDone \/ MarkPlayed
      BY <3>4 DEF MetadataRead, AskRebuffer, CodecDone, MarkPlayed
    <3> QED BY <1>4, <3>1, <3>2, <3>3, <3>4 DEF EngineNext
  <2> QED BY <2>1 DEF Aside
<1>5. CASE UserNext
  <2> DEFINE Bounded == /\ commands' = commands \/ commands' = commands + 1
                        /\ commands' <= MaxCommands \/ commands' = commands
                        /\ file' = file
                        /\ ui' = ui \/ ui' \in {"playing", "waiting", "stopping"}
  <2> SUFFICES Bounded
    BY <1>1 DEF Aside
  <2>1. ASSUME Command
        PROVE  commands' = commands + 1 /\ commands' <= MaxCommands /\ file' = file
    BY <1>1, <2>1 DEF Command, Aside
  <2>2. CASE \E i \in 0 .. Length(engine.q) - 1 : PlaylistStart(i)
    BY <2>1, <2>2 DEF PlaylistStart
  <2>3. CASE Resume
    BY <2>3 DEF Resume
  <2>4. CASE QueueReplace \/ PlayPause \/ Seek
    BY <2>1, <2>4 DEF QueueReplace, PlayPause, Seek
  <2>5. CASE \E paths \in Queues : \E start \in 0 .. Len(paths) - 1,
                perm \in Orders(Len(paths)) : Replaced(paths, start, perm)
    BY <2>5 DEF Replaced
  <2>6. CASE \E n \in {-1, 1} : Skip(n)
    BY <2>1, <2>6 DEF Skip
  <2>7. CASE \E on \in BOOLEAN, perm \in Orders(Length(engine.q)) : Shuffle(on, perm)
    BY <2>1, <2>7 DEF Shuffle
  <2>8. CASE \E mode \in Modes : Repeat(mode)
    BY <2>1, <2>8 DEF Repeat
  <2> QED BY <1>5, <2>2, <2>3, <2>4, <2>5, <2>6, <2>7, <2>8 DEF UserNext
<1> QED BY <1>2, <1>3, <1>4, <1>5 DEF Next

LEMMA TypedIs ==
  ASSUME Kept(engine), Aside
  PROVE  TypeOK
BY DEF Kept, Sound, Fit, Aside, TypeOK, Sane

Inv == Kept(engine) /\ Aside

LEMMA Invariance == Spec => []Inv
<1>1. Init => Inv
  <2>1. Init => Aside
    BY BoundAssumption DEF Init, Aside
  <2> QED BY <2>1, KeptInit DEF Inv
<1>2. Inv /\ [Next]_vars => Inv'
  BY KeptStep, AsideStep DEF Inv
<1> QED BY <1>1, <1>2, PTL DEF Spec

(* The engine keeps its types, the position stays in the queue, the        *)
(* current track in the list, and a stopped engine holds no tracks and     *)
(* waits for nothing, whatever the listener commands, whatever files are   *)
(* broken, and also where the engine is not built for it (RoughSpots).     *)
THEOREM EngineTyped == Spec => []TypeOK
<1>1. Inv => TypeOK
  BY TypedIs DEF Inv
<1> QED BY <1>1, Invariance, PTL

(* What is heard and shown is the entry of the queue at its position, for  *)
(* any queue, any buffer and any broken files, through automatic changes,  *)
(* skips and seeks in the middle of them, stops and fresh starts.          *)
THEOREM EngineHeard ==
  ASSUME Calm
  PROVE  Spec => []HeardIsCurrent
<1>1. Inv => HeardIsCurrent
  <2> SUFFICES ASSUME Inv, Runs(engine), engine.playing # None
               PROVE  engine.playing = At(engine.q, engine.q.index)
    BY DEF HeardIsCurrent
  <2>1. engine.playing = Peek(engine.q, 0)
    BY DEF Inv, Kept, Good, Buffer, Heard
  <2>2. Sane(engine.q)
    BY DEF Inv, Kept, Sound, Fit
  <2>3. Length(engine.q) \in Nat
    BY <2>2, LengthType DEF Sane
  <2>4. Length(engine.q) > 0
    BY <2>1, <2>2, <2>3, PeekHere
  <2> QED BY <2>1, <2>2, <2>4, PeekHere
<1> QED BY <1>1, Invariance, PTL

(* The buffer holds the tracks in the order in which they will be played,  *)
(* around the position or, while the display is a track behind, around the *)
(* next one; and the codec runs only on a track whose audio is there.      *)
THEOREM EngineBuffered ==
  ASSUME Calm
  PROVE  Spec => []BufferedInOrder
<1>1. Inv => BufferedInOrder
  <2> SUFFICES ASSUME Inv, Runs(engine)
               PROVE  /\ \A i \in DOMAIN engine.list :
                            engine.list[i] = Peek(engine.q,
                                               i - engine.cur + Behind(engine))
                      /\ engine.codec = "decoding" =>
                            engine.cur # 0 /\ HasAudio(engine, engine.cur)
    BY DEF BufferedInOrder
  <2>1. Good(engine)
    BY DEF Inv, Kept
  <2>2. Order(engine, Behind(engine)) /\ Steady(engine)
    BY <2>1 DEF Good, Buffer
  <2>3. engine.codec = "decoding" => Audio(engine)
    BY <2>2 DEF Steady
  <2> QED BY <2>2, <2>3 DEF Order, Audio
<1> QED BY <1>1, Invariance, PTL

(* While the engine plays, something is under way that it will be told of, *)
(* whichever notifications a halt of the codec has taken back.             *)
THEOREM EngineAwake ==
  ASSUME Calm
  PROVE  Spec => []NotComatose
<1>1. Inv => NotComatose
  <2> SUFFICES ASSUME Inv, engine.status = "playing"
               PROVE  \/ engine.codec = "decoding" \/ engine.loading = "reading"
                      \/ engine.inbox # <<>> \/ engine.mark # "none"
    BY DEF NotComatose
  <2>1. engine.loading \in {"no", "reading", "read"}
    BY DEF Inv, Kept, Sound, Fit, Engine
  <2>2. ASSUME NEW x, In(engine.inbox, x) PROVE engine.inbox # <<>>
    BY <2>2 DEF In
  <2>3. CASE ~Runs(engine)
    <3>1. In(engine.inbox, "play")
      BY <2>3 DEF Runs, Has, In
    <3> QED BY <2>2, <3>1
  <2>4. CASE Runs(engine)
    <3>1. Good(engine)
      BY <2>4 DEF Inv, Kept
    <3>2. Awake(engine) /\ Steady(engine) /\ Told(engine) /\ Roomy(engine)
      BY <3>1 DEF Good, Buffer
    <3>3. CASE engine.late \/ engine.skip = "endlist"
      BY <3>2, <3>3 DEF Steady
    <3>4. CASE In(engine.inbox, "complete") \/ In(engine.inbox, "fill")
      BY <2>2, <3>4
    <3>5. CASE engine.cur # 0 /\ ~Audio(engine)
      <4>1. engine.loading # "no"
        BY <3>5, AudioIs
      <4>2. engine.filling # "full"
        BY <3>2, <3>5, <4>1 DEF Roomy
      <4>3. engine.loading = "read" => In(engine.inbox, "finish")
        BY <3>2, <4>2 DEF Told
      <4> QED BY <2>1, <2>2, <4>1, <4>3
    <3> QED BY <3>2, <3>3, <3>4, <3>5 DEF Awake, Done
  <2> QED BY <2>3, <2>4
<1> QED BY <1>1, Invariance, PTL

(* The search for a file that is there comes to an end, however many are   *)
(* missing: a queue that does not repeat gets shorter with each of them.   *)
THEOREM EngineLoads ==
  ASSUME Calm
  PROVE  Spec => []LoadEnds
<1>1. Inv => LoadEnds
  BY DEF Inv, Kept, Sound, Tame, LoadEnds
<1> QED BY <1>1, Invariance, PTL
=============================================================================
