----------------------------- MODULE ShipmentStore -----------------------------
(***************************************************************************)
(* The in-memory store of shipments, tracking checkpoints and audit        *)
(* entries (db.c) with the request handlers that change it.                *)
(*                                                                         *)
(* The server handles one request at a time, so a handler is one atomic    *)
(* action: every db_* call it makes is part of that action.  What makes    *)
(* the store delicate is that the three tables are separate fixed-size     *)
(* arrays: an append to a full table fails, and the callers ignore the     *)
(* failure.                                                                *)
(*                                                                         *)
(* A definition whose name starts with "Faulty" is not part of the model:  *)
(* it is the following definition with a plausible bug, put in its place   *)
(* to confirm that a property notices.                                     *)
(***************************************************************************)
EXTENDS CrmData

CONSTANTS
    MaxShipments,     \* MAX_SHIPMENTS
    MaxCheckpoints,   \* MAX_CHECKPOINTS
    MaxAudits,        \* MAX_AUDIT_LOGS
    MaxBatch,         \* bound on the items of one bulk booking
    Callers,          \* authenticated callers that send requests
    GeneratedIds,     \* tracking ids the generator may draw
    ScanIds,          \* tracking ids scanners send
    ScanHubs,         \* hub ids scanners send
    LocationTags,     \* location tags scanners send
    StatusTexts,      \* status texts clients send
    Origins,          \* origin hubs of bookings
    Agents,           \* agents that are dispatched
    TargetSlots,      \* shipments named by id in a request, stored or not
    Signatures,       \* signatures uploaded as proof of delivery
    Images            \* images uploaded as proof of delivery

ASSUME CapacityAssumption ==
    /\ MaxShipments \in Nat   /\ MaxShipments >= Len(SeedShipments)
    /\ MaxCheckpoints \in Nat /\ MaxCheckpoints >= Len(SeedCheckpoints)
    /\ MaxAudits \in Nat      /\ MaxAudits >= Len(SeedAudit)
    /\ MaxBatch \in Nat

ASSUME InputAssumption ==
    /\ \A c \in Callers : c.known = TRUE /\ c.role \in Roles
    /\ Signatures \cup Images \subseteq {"empty", "short", "long"}

VARIABLES
    shipments,     \* g_shipments[0 .. g_shipment_count - 1]
    checkpoints,   \* g_checkpoints, oldest first
    audit,         \* g_audit_logs, oldest first
    reply          \* what the last request was told

vars == <<shipments, checkpoints, audit, reply>>

Slots == DOMAIN shipments

(***************************************************************************)
(* Types.                                                                  *)
(***************************************************************************)
\* POD data as stored: nothing or an empty string, the whole upload, or the
\* first 2047 bytes of it.
PodData == {None, "whole", "cut"}

UserIds  == {None, "u1", "u3"} \cup {c.id : c \in Callers} \cup Agents
HubIds   == {None} \cup SeedHubs \cup Origins
Tracking == {"T1", "T2", "T3", "T4"} \cup GeneratedIds
Places   == SeedHubs \cup LocationTags \cup
            {"free text", "Origin Hub", "Transit Station", "Final Destination",
             "Logistics Transit Station", "Local Delivery Hub"}

ShipmentRecord ==
    [tracking : Tracking, sender : UserIds, origin : HubIds, agent : UserIds,
     status : Statuses, signature : PodData, image : PodData]

CheckpointRecord ==
    [shipment : Nat, status : Statuses, hub : HubIds, by : UserIds,
     place : Places, note : {"seed", "booking", "update"}]

AuditRecord ==
    [actor : UserIds, shipment : Nat, detail : {None} \cup Statuses \cup Agents,
     action : {"SYSTEM_INIT", "STATUS_CHANGE", "AGENT_ASSIGNMENT"}]

Reply ==
    [op : {"boot", "book", "bulk", "scan", "pod", "override", "dispatch"},
     ok : BOOLEAN, shipment : Nat, booked : Nat,
     text : {None} \cup StatusTexts \cup GeneratedIds]

\* The type invariant, with the capacity of the arrays and the references
\* from checkpoints and audit entries to stored shipments.
TypeOK ==
    /\ shipments \in Seq(ShipmentRecord)
    /\ checkpoints \in Seq(CheckpointRecord)
    /\ audit \in Seq(AuditRecord)
    /\ reply \in Reply
    /\ Len(shipments) <= MaxShipments
    /\ Len(checkpoints) <= MaxCheckpoints
    /\ Len(audit) <= MaxAudits
    /\ \A i \in DOMAIN checkpoints : checkpoints[i].shipment \in Slots
    /\ \A i \in DOMAIN audit : audit[i].shipment \in Slots \cup {0}

(***************************************************************************)
(* Table operations.                                                       *)
(***************************************************************************)
Smaller(a, b) == IF a <= b THEN a ELSE b

FaultyAddPastEnd(table, checkpoint) ==
    IF Len(table) <= MaxCheckpoints THEN Append(table, checkpoint) ELSE table

FaultyAddOverOldest(table, checkpoint) ==
    Append(IF Len(table) < MaxCheckpoints THEN table ELSE Tail(table), checkpoint)

AddCheckpoint(table, checkpoint) ==
    IF Len(table) < MaxCheckpoints THEN Append(table, checkpoint) ELSE table

LogAudit(log, entry) ==
    IF Len(log) < MaxAudits THEN Append(log, entry) ELSE log

\* The search goes from the newest shipment down.
FaultyFindByTracking(id) ==
    IF \E s \in Slots : shipments[s].tracking = id
    THEN CHOOSE s \in Slots :
            /\ shipments[s].tracking = id
            /\ \A r \in s+1 .. Len(shipments) : shipments[r].tracking # id
    ELSE 0

\* The first shipment with that tracking id, 0 when there is none.
FindByTracking(id) ==
    IF \E s \in Slots : shipments[s].tracking = id
    THEN CHOOSE s \in Slots :
            /\ shipments[s].tracking = id
            /\ \A r \in 1 .. s-1 : shipments[r].tracking # id
    ELSE 0

\* The checkpoint is filled in before the status is assigned.
FaultyCheckpointFirst(table, log, s, status, by, place) ==
    /\ shipments' = [table EXCEPT ![s].status = status]
    /\ checkpoints' = AddCheckpoint(checkpoints,
            [shipment |-> s, status |-> table[s].status,
             hub |-> table[s].origin, by |-> by, note |-> "update",
             place |-> "Transit Station"])
    /\ audit' = LogAudit(log, [actor |-> by, action |-> "STATUS_CHANGE",
                               shipment |-> s, detail |-> status])

\* A change to the status the shipment already has is not audited.
FaultyAuditOnlyChanges(table, log, s, status, by, place) ==
    /\ shipments' = [table EXCEPT ![s].status = status]
    /\ checkpoints' = AddCheckpoint(checkpoints,
            [shipment |-> s, status |-> status, hub |-> table[s].origin,
             by |-> by, note |-> "update", place |-> "Transit Station"])
    /\ audit' = IF table[s].status = status THEN log
                ELSE LogAudit(log, [actor |-> by, action |-> "STATUS_CHANGE",
                                    shipment |-> s, detail |-> status])

(***************************************************************************)
(* db_update_shipment_status on the tables its caller has reached:         *)
(* overwrite the status, append a checkpoint, append an audit entry.  The  *)
(* checkpoint always carries the ORIGIN hub of the shipment; where the     *)
(* scan took place is only in the location tag (place), and an absent or   *)
(* empty tag becomes a fixed text.  Neither append is checked.             *)
(***************************************************************************)
UpdateStatus(table, log, s, status, by, place) ==
    /\ shipments' = [table EXCEPT ![s].status = status]
    /\ checkpoints' = AddCheckpoint(checkpoints,
            [shipment |-> s, status |-> status, hub |-> table[s].origin,
             by |-> by, note |-> "update",
             place |-> IF place \in {Null, None} THEN "Transit Station"
                                                 ELSE place])
    /\ audit' = LogAudit(log,
            [actor |-> by, action |-> "STATUS_CHANGE", shipment |-> s,
             detail |-> status])

(***************************************************************************)
(* Init: db_init seeds the tables, whatever was stored before.             *)
(***************************************************************************)
BootReply ==
    [op |-> "boot", ok |-> TRUE, shipment |-> 0, text |-> None, booked |-> 0]

Init ==
    /\ shipments = SeedShipments
    /\ checkpoints = SeedCheckpoints
    /\ audit = SeedAudit
    /\ reply = BootReply

Refuse(op) ==
    /\ reply' = [BootReply EXCEPT !.op = op, !.ok = FALSE]
    /\ UNCHANGED <<shipments, checkpoints, audit>>

(***************************************************************************)
(* Bookings.  handle_shipment_create and db_create_shipment, for the n     *)
(* items of one request: an item is stored while there is room and then    *)
(* gets its first checkpoint while there is room for that.                 *)
(***************************************************************************)
NewShipment(caller, origin, id) ==
    [tracking |-> id, sender |-> caller.id, origin |-> origin, agent |-> None,
     status |-> "ORDER_CREATED", signature |-> None, image |-> None]

BookingCheckpoint(s, caller, origin) ==
    [shipment |-> s, status |-> "ORDER_CREATED", hub |-> origin,
     by |-> caller.id, note |-> "booking",
     place |-> IF origin \in SeedHubs THEN origin ELSE "Origin Hub"]

Stored(n) == Smaller(n, MaxShipments - Len(shipments))

\* Items after the first get no checkpoint.
FaultyBatchHistory(n, caller, origin, ids) ==
    /\ shipments' = shipments \o
           [i \in 1 .. Stored(n) |-> NewShipment(caller, origin, ids[i])]
    /\ checkpoints' =
           IF Stored(n) = 0 THEN checkpoints
           ELSE AddCheckpoint(checkpoints,
                    BookingCheckpoint(Len(shipments) + 1, caller, origin))
    /\ audit' = audit

StoreBookings(n, caller, origin, ids) ==
    LET base == Len(shipments)
        logged == Smaller(Stored(n), MaxCheckpoints - Len(checkpoints))
    IN  /\ shipments' = shipments \o
               [i \in 1 .. Stored(n) |-> NewShipment(caller, origin, ids[i])]
        /\ checkpoints' = checkpoints \o
               [i \in 1 .. logged |-> BookingCheckpoint(base + i, caller, origin)]
        /\ audit' = audit

\* The reply names the shipment found again through the new tracking id.
FoundAgain(id) ==
    IF FindByTracking(id) \in Slots THEN FindByTracking(id)
                                    ELSE Len(shipments) + 1

BookShipment(caller, origin, id) ==
    IF Len(shipments) >= MaxShipments
    THEN Refuse("book")
    ELSE /\ StoreBookings(1, caller, origin, <<id>>)
         /\ reply' = [op |-> "book", ok |-> TRUE, shipment |-> FoundAgain(id),
                      text |-> id, booked |-> 1]

FaultyBulkCount(n, caller, origin, ids) ==
    /\ StoreBookings(n, caller, origin, ids)
    /\ reply' = [BootReply EXCEPT !.op = "bulk", !.booked = n]

\* The batch goes on after an item that could not be stored, and always
\* succeeds as a whole.
BulkBooking(n, caller, origin, ids) ==
    /\ StoreBookings(n, caller, origin, ids)
    /\ reply' = [BootReply EXCEPT !.op = "bulk", !.booked = Stored(n)]

\* A body that does not parse is no booking, one without a list no batch.
BookingGarbled == Refuse("book") \/ Refuse("bulk")

(***************************************************************************)
(* handle_checkpoint_scan.  The place is the tag the client sent, or the   *)
(* name of a known hub, or a fixed text.                                   *)
(***************************************************************************)
ScanPlace(hub, tag) ==
    IF tag # Null THEN tag
    ELSE IF hub \in SeedHubs THEN hub ELSE "Logistics Transit Station"

Scan(caller, id, hub, text, tag) ==
    IF \/ ~ HasPermission(caller, DELIVERY_AGENT)
       \/ id = Null
       \/ text = Null
       \/ FindByTracking(id) \notin Slots
    THEN Refuse("scan")
    ELSE LET s == FindByTracking(id)
         IN  /\ UpdateStatus(shipments, audit, s, StatusOfText(text),
                             caller.id, ScanPlace(hub, tag))
             /\ reply' = [BootReply EXCEPT !.op = "scan", !.shipment = s,
                                           !.text = text]

(***************************************************************************)
(* handle_proof_of_delivery and db_update_shipment_pod.  An uploaded       *)
(* string replaces the stored one, cut to the size of the field.           *)
(***************************************************************************)
StoredUpload(upload, old) ==
    CASE upload = Null    -> old
      [] upload = "empty" -> None
      [] upload = "short" -> "whole"
      [] upload = "long"  -> "cut"

\* An image alone is stored without marking the shipment delivered.
FaultyImageOnly(caller, s, signature, image) ==
    /\ s \in Slots
    /\ HasPermission(caller, DELIVERY_AGENT)
    /\ shipments' = [shipments EXCEPT ![s].image = StoredUpload(image, @)]
    /\ UNCHANGED <<checkpoints, audit>>
    /\ reply' = [BootReply EXCEPT !.op = "pod", !.shipment = s]

ProofOfDelivery(caller, s, signature, image) ==
    IF \/ ~ HasPermission(caller, DELIVERY_AGENT)
       \/ signature = Null /\ image = Null
       \/ s \notin Slots
    THEN Refuse("pod")
    ELSE /\ UpdateStatus(
               [shipments EXCEPT
                   ![s].signature = StoredUpload(signature, @),
                   ![s].image = StoredUpload(image, @)],
               audit, s, "DELIVERED", caller.id, "Final Destination")
         /\ reply' = [BootReply EXCEPT !.op = "pod", !.shipment = s]

(***************************************************************************)
(* The two back-office handlers of admin_ops.c that server.c does not      *)
(* route: they are compiled in, and only a new route would call them.      *)
(***************************************************************************)
StatusOverride(caller, s, text, tag) ==
    IF \/ ~ HasPermission(caller, HUB_MANAGER)
       \/ text = Null
       \/ s \notin Slots
    THEN Refuse("override")
    ELSE /\ UpdateStatus(shipments, audit, s, StatusOfText(text), caller.id, tag)
         /\ reply' = [BootReply EXCEPT !.op = "override", !.shipment = s]

\* The assignment is logged after the status change.
FaultyDispatchOrder(caller, s, agent) ==
    /\ HasPermission(caller, HUB_MANAGER) /\ s \in Slots
    /\ shipments' = [shipments EXCEPT ![s].agent = agent,
                                     ![s].status = "OUT_FOR_DELIVERY"]
    /\ audit' = LogAudit(
           LogAudit(audit, [actor |-> caller.id, action |-> "STATUS_CHANGE",
                            shipment |-> s, detail |-> "OUT_FOR_DELIVERY"]),
           [actor |-> caller.id, action |-> "AGENT_ASSIGNMENT",
            shipment |-> s, detail |-> agent])
    /\ UNCHANGED <<checkpoints, reply>>

AgentDispatch(caller, s, agent) ==
    IF ~ HasPermission(caller, HUB_MANAGER) \/ s \notin Slots
    THEN Refuse("dispatch")
    ELSE /\ UpdateStatus(
               [shipments EXCEPT ![s].agent = agent],
               LogAudit(audit, [actor |-> caller.id, shipment |-> s,
                                action |-> "AGENT_ASSIGNMENT",
                                detail |-> agent]),
               s, "OUT_FOR_DELIVERY", caller.id, "Local Delivery Hub")
         /\ reply' = [BootReply EXCEPT !.op = "dispatch", !.shipment = s]

\* The process stops and starts again: nothing was written outside memory.
Restart ==
    /\ shipments' = SeedShipments
    /\ checkpoints' = SeedCheckpoints
    /\ audit' = SeedAudit
    /\ reply' = BootReply

(***************************************************************************)
(* Specifications: the requests server.c routes, and these together with   *)
(* the back-office handlers.                                               *)
(***************************************************************************)
Anyone == Callers \cup {NoCaller}

RequestBy(c) ==
    \/ BookingGarbled
    \/ \E o \in Origins, id \in GeneratedIds : BookShipment(c, o, id)
    \/ \E n \in 0 .. MaxBatch, o \in Origins :
            \E ids \in [1 .. Stored(n) -> GeneratedIds] : BulkBooking(n, c, o, ids)
    \/ \E id \in ScanIds \cup {Null}, h \in ScanHubs \cup {Null},
          text \in StatusTexts \cup {Null}, tag \in LocationTags \cup {Null} :
            Scan(c, id, h, text, tag)
    \/ \E s \in TargetSlots,
          sig \in Signatures \cup {Null}, img \in Images \cup {Null} :
            ProofOfDelivery(c, s, sig, img)

Requests == \E c \in Anyone : RequestBy(c)

BackOffice ==
    \/ \E c \in Anyone, s \in TargetSlots, text \in StatusTexts \cup {Null},
          tag \in LocationTags \cup {Null} :
            StatusOverride(c, s, text, tag)
    \/ \E c \in Anyone, s \in TargetSlots, a \in Agents :
            AgentDispatch(c, s, a)

ServerNext == Requests \/ Restart
ServerSpec == Init /\ [][ServerNext]_vars

Next == Requests \/ BackOffice \/ Restart
Spec == Init /\ [][Next]_vars
===============================================================================
