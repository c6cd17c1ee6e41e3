------------------------------- MODULE FairLock -------------------------------
(***************************************************************************)
(* What the kernel's locks promise their callers, whatever a mutex or a    *)
(* readers/writer lock is made of: whoever asks either gets in at once or  *)
(* stands in line, nobody gets in past somebody who stands in line, and    *)
(* whenever somebody leaves, the front of the line moves in as far as it   *)
(* can.  A reader may be inside with readers, a writer only alone.  A      *)
(* mutex has writers only.                                                 *)
(***************************************************************************)
EXTENDS Naturals, Sequences

CONSTANTS Threads, Locks

VARIABLES
  inside,   \* [lock -> set of <<thread, mode>>]
  line      \* [lock -> sequence of <<thread, mode>>]

Modes == {"read", "write"}

Client == Threads \X Modes

Alone(who) == who[2] = "write"

\* May who join those who are in?
Fits(in, who) == \/ in = {}
                 \/ ~Alone(who) /\ \A other \in in : ~Alone(other)

Init == /\ inside = [l \in Locks |-> {}]
        /\ line = [l \in Locks |-> <<>>]

GetIn(l, who) ==
  /\ line[l] = <<>>
  /\ Fits(inside[l], who)
  /\ inside' = [inside EXCEPT ![l] = @ \cup {who}]
  /\ UNCHANGED line

StandInLine(l, who) ==
  /\ ~(line[l] = <<>> /\ Fits(inside[l], who))
  /\ line' = [line EXCEPT ![l] = Append(@, who)]
  /\ UNCHANGED inside

\* The first n of the line q may move in together with those who are in.
MoveIn(in, q, n) ==
  \A i \in 1..n : Fits(in \cup {q[j] : j \in 1..(i - 1)}, q[i])

Leave(l, who) ==
  LET left == inside[l] \ {who}
      q    == line[l]
      n    == CHOOSE k \in 0..Len(q) :
                /\ MoveIn(left, q, k)
                /\ k = Len(q) \/ ~MoveIn(left, q, k + 1)
  IN  /\ who \in inside[l]
      /\ inside' = [inside EXCEPT ![l] = left \cup {q[i] : i \in 1..n}]
      /\ line' = [line EXCEPT ![l] = SubSeq(q, n + 1, Len(q))]

Next == \E l \in Locks, who \in Client :
          GetIn(l, who) \/ StandInLine(l, who) \/ Leave(l, who)

vars == <<inside, line>>

Spec == Init /\ [][Next]_vars
===============================================================================
