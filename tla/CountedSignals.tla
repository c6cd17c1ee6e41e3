---------------------------- MODULE CountedSignals ----------------------------
(***************************************************************************)
(* What a counting semaphore promises: every signal is kept, up to a       *)
(* limit, or given to the first who waits; whoever was given one in time   *)
(* returns with success, whoever returns with success has taken one, and   *)
(* nobody is given a signal while somebody else has waited longer.  A      *)
(* signal is wasted in one way only: it is given to somebody who still     *)
(* stands in line but has seen the time run out.                           *)
(***************************************************************************)
EXTENDS Naturals, Sequences

CONSTANTS Threads, Limit

VARIABLES
  spare,    \* signals that nobody has taken
  line,     \* who waits, in order
  given,    \* who has been given a signal and has not returned yet
  expired,  \* who has seen the time run out and has not returned yet
  answer    \* what the call that returned in the last step answered

Init == /\ spare = 0 /\ line = <<>> /\ given = {} /\ expired = {} /\ answer = "none"

Signal ==
  /\ IF line # <<>> THEN /\ given' = given \cup {Head(line)}
                         /\ line' = Tail(line)
                         /\ UNCHANGED spare
     ELSE /\ spare' = IF spare < Limit THEN spare + 1 ELSE spare
          /\ UNCHANGED <<line, given>>
  /\ answer' = "none"
  /\ UNCHANGED expired

\* There is one: take it and do not wait.
TakeSpare ==
  /\ spare > 0
  /\ spare' = spare - 1
  /\ answer' = "succeeded"
  /\ UNCHANGED <<line, given, expired>>

\* There is none and the caller does not want to wait.
Refuse ==
  /\ spare = 0
  /\ answer' = "timed out"
  /\ UNCHANGED <<spare, line, given, expired>>

Join(t) ==
  /\ spare = 0
  /\ line' = Append(line, t)
  /\ answer' = "none"
  /\ UNCHANGED <<spare, given, expired>>

TakeGiven(t) ==
  /\ t \in given \ expired
  /\ given' = given \ {t}
  /\ answer' = "succeeded"
  /\ UNCHANGED <<spare, line, expired>>

\* Whoever still stands in line has waited as long as it wants to.
Expire(t) ==
  /\ \E i \in DOMAIN line : line[i] = t
  /\ expired' = expired \cup {t}
  /\ answer' = "none"
  /\ UNCHANGED <<spare, line, given>>

\* Whoever stands behind moves up.
GiveUp(t) ==
  /\ t \in expired
  /\ expired' = expired \ {t}
  /\ \E i \in DOMAIN line :
       /\ line[i] = t
       /\ line' = [j \in 1..(Len(line) - 1) |->
                     IF j < i THEN line[j] ELSE line[j + 1]]
  /\ answer' = "timed out"
  /\ UNCHANGED <<spare, given>>

\* It has been given a signal meanwhile: the signal is wasted.
TooLate(t) ==
  /\ t \in given \cap expired
  /\ given' = given \ {t}
  /\ expired' = expired \ {t}
  /\ answer' = "timed out"
  /\ UNCHANGED <<spare, line>>

\* Something else happens.
Elsewhere == answer' = "none" /\ UNCHANGED <<spare, line, given, expired>>

Next == Signal \/ TakeSpare \/ Refuse \/ Elsewhere
        \/ \E t \in Threads : Join(t) \/ TakeGiven(t) \/ Expire(t)
                              \/ GiveUp(t) \/ TooLate(t)

vars == <<spare, line, given, expired, answer>>

Spec == Init /\ [][Next]_vars
===============================================================================
