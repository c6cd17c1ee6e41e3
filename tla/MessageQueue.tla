---------------------------- MODULE MessageQueue ----------------------------
(***************************************************************************)
(* What an event queue of the kernel promises its users: messages are      *)
(* received in the order in which they were written, each at most once; a  *)
(* thread that sends is blocked until its own message has been received    *)
(* and answered, or passed over, or dropped unreceived; and it returns the *)
(* answer only in the first case, NoReply in the others.                   *)
(*                                                                         *)
(* There is no ring, no sender map and no waiting list here.               *)
(***************************************************************************)
EXTENDS Integers, Sequences

CONSTANTS Senders, None, Ids, SYS_TIMEOUT

VARIABLES
    pending,   \* the messages not yet received, oldest first
    written,   \* how many messages have been written
    serving,   \* the sender of the message being served, or None
    got,       \* the message received last, or Timeout
    thread, retval

vars == <<pending, written, serving, got, thread, retval>>

NoReply == 0
Answer == 1
Timeout == [id |-> SYS_TIMEOUT, seq |-> 0]

Init ==
    /\ pending = <<>> /\ written = 0
    /\ serving = None /\ got = Timeout
    /\ thread = [t \in Senders |-> "running"]
    /\ retval = [t \in Senders |-> NoReply]

Return(ts, value) ==
    /\ thread' = [t \in Senders |-> IF t \in ts THEN "running" ELSE thread[t]]
    /\ retval' = [t \in Senders |-> IF t \in ts THEN value ELSE retval[t]]

Message(id, from) ==
    [msg |-> [id |-> id, seq |-> written], from |-> from]

Post(id) ==
    /\ pending' = Append(pending, Message(id, None))
    /\ written' = written + 1
    /\ UNCHANGED <<serving, got, thread, retval>>

Send(t, id) ==
    /\ thread[t] = "running"
    /\ pending' = Append(pending, Message(id, t))
    /\ written' = written + 1
    /\ thread' = [thread EXCEPT ![t] = "sending"]
    /\ UNCHANGED <<serving, got, retval>>

(* The oldest message is received; the one before it is over.              *)
Receive ==
    /\ pending # <<>>
    /\ got' = Head(pending).msg
    /\ serving' = Head(pending).from
    /\ pending' = Tail(pending)
    /\ Return({serving}, NoReply)
    /\ UNCHANGED written

(* The receiver comes back for more and finds nothing yet.                 *)
PassOver ==
    /\ serving' = None
    /\ Return({serving}, NoReply)
    /\ got' \in {got, Timeout}
    /\ got' # got => pending = <<>>
    /\ UNCHANGED <<pending, written>>

Reply ==
    /\ serving # None
    /\ serving' = None
    /\ Return({serving}, Answer)
    /\ UNCHANGED <<pending, written, got>>

(* The oldest message is dropped.                                          *)
DropHead ==
    /\ pending # <<>>
    /\ pending' = Tail(pending)
    /\ Return({Head(pending).from}, NoReply)
    /\ UNCHANGED <<written, serving, got>>

FromAll == {pending[i].from : i \in DOMAIN pending}

DropAll ==
    /\ pending' = <<>>
    /\ Return(FromAll, NoReply)
    /\ UNCHANGED <<written, serving, got>>

Close ==
    /\ pending' = <<>> /\ serving' = None
    /\ Return(FromAll \cup {serving}, NoReply)
    /\ UNCHANGED <<written, got>>

Next ==
    \/ \E id \in Ids : Post(id) \/ \E t \in Senders : Send(t, id)
    \/ Receive \/ PassOver \/ Reply
    \/ DropHead \/ DropAll \/ Close

Spec == Init /\ [][Next]_vars
=============================================================================
