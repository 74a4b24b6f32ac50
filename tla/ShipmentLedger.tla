----------------------------- MODULE ShipmentLedger -----------------------------
(***************************************************************************)
(* What the tracking side of the store promises, without its tables: a     *)
(* ledger that knows the current status of every consignment and remembers *)
(* events in the order they happened.  Events are never rewritten or       *)
(* reordered.  The memory is bounded: once it is full, statuses go on      *)
(* changing and further events are lost.  A reset starts over.             *)
(***************************************************************************)
EXTENDS Integers, Sequences

CONSTANTS
    Status,         \* what a consignment can be
    NewStatus,      \* the status of a new consignment
    Capacity,       \* number of events that fit
    LargestBatch,   \* most consignments booked at once
    FirstStatuses,  \* the consignments known after a reset
    FirstEvents     \* and their events

VARIABLES
    current,  \* current[c]: status of consignment c
    events    \* sequence of [shipment, status]

ledger == <<current, events>>

Event(c, status) == [shipment |-> c, status |-> status]

\* The part of a sequence of events that fits.
Kept(es) == IF Len(es) <= Capacity THEN es ELSE SubSeq(es, 1, Capacity)

LedgerInit == current = FirstStatuses /\ events = FirstEvents

\* k consignments are booked at once.
Book(k) ==
    /\ current' = current \o [i \in 1 .. k |-> NewStatus]
    /\ events' = Kept(events \o
                   [i \in 1 .. k |-> Event(Len(current) + i, NewStatus)])

Record(c, status) ==
    /\ current' = [current EXCEPT ![c] = status]
    /\ events' = Kept(Append(events, Event(c, status)))

Reset == current' = FirstStatuses /\ events' = FirstEvents

LedgerNext ==
    \/ \E k \in 1 .. LargestBatch : Book(k)
    \/ \E c \in DOMAIN current, status \in Status : Record(c, status)
    \/ Reset

LedgerSpec == LedgerInit /\ [][LedgerNext]_ledger
===============================================================================
