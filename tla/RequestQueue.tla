------------------------------ MODULE RequestQueue ------------------------------
(***************************************************************************)
(* What the HTTP server is to its clients, without bytes and buffers: a    *)
(* queue of connections served one at a time in the order in which they    *)
(* were made.  Once it has been told to close, it serves at most one more  *)
(* connection, and whoever still waits when it shuts is turned away.       *)
(***************************************************************************)
EXTENDS Sequences

CONSTANTS
    Customers,
    Nobody

VARIABLES
    waiting,   \* connections not looked at yet, oldest first
    current,   \* the one being served, or Nobody
    phase      \* "open", "closing" (one more may be served), "last", "shut"

queue == <<waiting, current, phase>>

QueueInit == waiting = <<>> /\ current = Nobody /\ phase = "open"

Arrive(c) ==
    /\ phase # "shut"
    /\ c # current /\ \A i \in DOMAIN waiting : waiting[i] # c
    /\ waiting' = Append(waiting, c)
    /\ UNCHANGED <<current, phase>>

\* The oldest connection leaves the queue, to be served or turned away.
Call(who) ==
    /\ phase \in {"open", "closing"} /\ current = Nobody /\ waiting # <<>>
    /\ waiting' = Tail(waiting)
    /\ current' = who
    /\ phase' = IF phase = "closing" THEN "last" ELSE phase

Finish ==
    /\ current # Nobody
    /\ current' = Nobody
    /\ UNCHANGED <<waiting, phase>>

Close ==
    /\ phase = "open"
    /\ phase' \in {"closing", "last"}
    /\ UNCHANGED <<waiting, current>>

Gone == waiting' = <<>> /\ current' = Nobody /\ phase' = "shut"

\* In good order, or because serving a connection went wrong.
Shut == (phase = "last" \/ current # Nobody) /\ phase # "shut" /\ Gone

QueueNext ==
    \/ \E c \in Customers : Arrive(c)
    \/ \E c \in Customers : waiting # <<>> /\ c = Head(waiting) /\ Call(c)
    \/ Call(Nobody)
    \/ Finish
    \/ Close
    \/ Shut

QueueSpec == QueueInit /\ [][QueueNext]_queue
===============================================================================
