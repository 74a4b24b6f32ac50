----------------------------- MODULE ShipmentProofs -----------------------------
(***************************************************************************)
(* Proofs about the shipment store, for tables of any size and any inputs. *)
(*                                                                         *)
(* Every step changes the tables in one of four ways: not at all (a        *)
(* refusal), by one call of db_update_shipment_status (Update), by the     *)
(* bookings of one request (Booking), or by starting over (Init').  That   *)
(* is lemma StepCases; each invariant is then shown to survive the four.   *)
(***************************************************************************)
EXTENDS ShipmentProps, SequenceTheorems, FiniteSetTheorems, TLAPS

Staff == {c \in Callers : c.role <= DELIVERY_AGENT}

Unchanged ==
    /\ UNCHANGED <<shipments, checkpoints, audit>>
    /\ reply' \in Reply

Assignment(by, s, agent) ==
    [actor |-> by, shipment |-> s, action |-> "AGENT_ASSIGNMENT",
     detail |-> agent]

\* The handler of a staff member has reached the tables "table" and "log",
\* which differ from the stored ones in shipment s and, before a departure for
\* delivery, in the entry of an assignment, and updates the status of s.
Update(table, log, s, status, by, place) ==
    /\ table \in Seq(ShipmentRecord)
    /\ Len(table) = Len(shipments)
    /\ \A r \in Slots : r # s => table[r] = shipments[r]
    /\ table[s].tracking = shipments[s].tracking
    /\ \/ status = "DELIVERED"
       \/ /\ table[s].signature = shipments[s].signature
          /\ table[s].image = shipments[s].image
    /\ log \in Seq(AuditRecord)
    /\ Len(log) <= MaxAudits
    /\ \A i \in DOMAIN log : log[i].shipment \in Slots \cup {0}
    /\ \/ log = audit
       \/ /\ status = "OUT_FOR_DELIVERY"
          /\ \E agent \in Agents : log = LogAudit(audit, Assignment(by, s, agent))
    /\ s \in Slots /\ status \in Statuses
    /\ \E c \in Staff : c.id = by
    /\ place \in Places \cup {Null, None}
    /\ UpdateStatus(table, log, s, status, by, place)
    /\ reply' \in Reply

Booking(n, caller, origin, ids) ==
    /\ n \in Nat
    /\ caller.id \in UserIds
    /\ origin \in Origins
    /\ ids \in [1 .. Stored(n) -> GeneratedIds]
    /\ StoreBookings(n, caller, origin, ids)
    /\ reply' \in Reply

\* What a request of caller c comes to: nothing, a status change by c as a
\* member of staff, or bookings in the name of c.
StaffUpdate(c) ==
    /\ c \in Staff
    /\ \E table, s, status, place :
          /\ Update(table, audit, s, status, c.id, place)
          /\ table[s].sender = shipments[s].sender
          /\ table[s].agent = shipments[s].agent

RequestCase(c) ==
    \/ Unchanged
    \/ StaffUpdate(c)
    \/ \E n, origin, ids : Booking(n, c, origin, ids)

StepCase ==
    \/ Unchanged
    \/ \E table, log, s, status, by, place :
            Update(table, log, s, status, by, place)
    \/ \E n, caller, origin, ids : Booking(n, caller, origin, ids)
    \/ Init'

--------------------------------------------------------------------------------
(* The callers, the seed and the replies have the right types.             *)

LEMMA AnyoneType == \A c \in Anyone : c.id \in UserIds
  BY DEF Anyone, NoCaller, UserIds

LEMMA PermittedIsStaff ==
    ASSUME NEW c \in Anyone, NEW minimum \in {HUB_MANAGER, DELIVERY_AGENT},
           HasPermission(c, minimum)
    PROVE  c \in Staff
  <1>1. c \in Callers /\ c.role \in Roles
    BY InputAssumption DEF InputAssumption, Anyone, NoCaller, HasPermission
  <1> QED
    BY <1>1 DEF HasPermission, Staff, Roles, SUPER_ADMIN, HUB_MANAGER,
       DELIVERY_AGENT, STANDARD_CUSTOMER

LEMMA StaffId == ASSUME NEW c \in Staff PROVE c.id \in UserIds
  BY DEF Staff, UserIds

LEMMA SeedTypes ==
    /\ SeedShipments \in Seq(ShipmentRecord) /\ Len(SeedShipments) = 4
    /\ SeedCheckpoints \in Seq(CheckpointRecord) /\ Len(SeedCheckpoints) = 5
    /\ SeedAudit \in Seq(AuditRecord) /\ Len(SeedAudit) = 1
    /\ \A i \in 1 .. 5 : SeedCheckpoints[i].shipment \in 1 .. 4
    /\ SeedAudit[1].shipment = 0
  <1>1. SeedShipments \in Seq(ShipmentRecord) /\ Len(SeedShipments) = 4
    <2>1. ASSUME NEW t \in Tracking, NEW st \in Statuses, NEW o \in HubIds,
                 NEW a \in UserIds
          PROVE  SeedShipment(t, st, o, a) \in ShipmentRecord
      BY DEF SeedShipment, None, ShipmentRecord, PodData, UserIds
    <2>2. /\ {"T1", "T2", "T3", "T4"} \subseteq Tracking
          /\ {"H1", "H3"} \subseteq HubIds
          /\ {None, "u3"} \subseteq UserIds
          /\ {"OUT_FOR_DELIVERY", "IN_TRANSIT", "PICKED_UP", "DELIVERED"}
                \subseteq Statuses
      BY DEF Tracking, HubIds, SeedHubs, UserIds, Statuses
    <2>3. /\ SeedShipment("T1", "OUT_FOR_DELIVERY", "H1", "u3") \in ShipmentRecord
          /\ SeedShipment("T2", "IN_TRANSIT", "H1", None) \in ShipmentRecord
          /\ SeedShipment("T3", "PICKED_UP", "H1", None) \in ShipmentRecord
          /\ SeedShipment("T4", "DELIVERED", "H3", "u3") \in ShipmentRecord
      BY <2>1, <2>2
    <2> QED BY <2>3 DEF SeedShipments
  <1>2. SeedCheckpoints \in Seq(CheckpointRecord) /\ Len(SeedCheckpoints) = 5
    <2>1. ASSUME NEW s \in 1 .. 4, NEW st \in Statuses
          PROVE  SeedCheckpoint(s, st) \in CheckpointRecord
      BY DEF SeedCheckpoint, CheckpointRecord, HubIds, UserIds, Places
    <2>2. {"ORDER_CREATED", "PICKED_UP", "OUT_FOR_DELIVERY", "IN_TRANSIT"}
                \subseteq Statuses
      BY DEF Statuses
    <2>3. /\ SeedCheckpoint(1, "ORDER_CREATED") \in CheckpointRecord
          /\ SeedCheckpoint(1, "PICKED_UP") \in CheckpointRecord
          /\ SeedCheckpoint(1, "OUT_FOR_DELIVERY") \in CheckpointRecord
          /\ SeedCheckpoint(2, "ORDER_CREATED") \in CheckpointRecord
          /\ SeedCheckpoint(2, "IN_TRANSIT") \in CheckpointRecord
      BY <2>1, <2>2
    <2> QED BY <2>3 DEF SeedCheckpoints
  <1>3. SeedAudit \in Seq(AuditRecord) /\ Len(SeedAudit) = 1
    BY DEF SeedAudit, AuditRecord, UserIds
  <1>4. ASSUME NEW i \in 1 .. 5
        PROVE  SeedCheckpoints[i].shipment \in 1 .. 4
    <2>1. /\ SeedCheckpoints[1].shipment = 1
          /\ SeedCheckpoints[2].shipment = 1
          /\ SeedCheckpoints[3].shipment = 1
          /\ SeedCheckpoints[4].shipment = 2
          /\ SeedCheckpoints[5].shipment = 2
      BY DEF SeedCheckpoints, SeedCheckpoint
    <2> QED BY <2>1
  <1>5. SeedAudit[1].shipment = 0
    BY DEF SeedAudit
  <1> QED BY <1>1, <1>2, <1>3, <1>4, <1>5

LEMMA Capacity ==
    /\ MaxShipments \in Nat /\ MaxCheckpoints \in Nat /\ MaxAudits \in Nat
    /\ MaxShipments >= 4 /\ MaxCheckpoints >= 5 /\ MaxAudits >= 1
    /\ MaxBatch \in Nat
  BY CapacityAssumption, SeedTypes DEF CapacityAssumption

LEMMA BootType == BootReply \in Reply
  BY DEF BootReply, Reply

LEMMA RefuseCase ==
    ASSUME NEW op \in {"book", "bulk", "scan", "pod", "override", "dispatch"},
           Refuse(op)
    PROVE  Unchanged
  BY BootType DEF Refuse, Unchanged, Reply, BootReply

\* What db_init seeds is of its type.
THEOREM InitType == Init => TypeOK
  <1> SUFFICES ASSUME Init PROVE TypeOK
    OBVIOUS
  <1>1. Slots = 1 .. 4
    BY SeedTypes DEF Init, Slots
  <1>2. /\ shipments \in Seq(ShipmentRecord) /\ Len(shipments) <= MaxShipments
        /\ audit \in Seq(AuditRecord) /\ Len(audit) <= MaxAudits
        /\ reply \in Reply
    BY SeedTypes, Capacity, BootType DEF Init
  <1>3. /\ checkpoints \in Seq(CheckpointRecord)
        /\ Len(checkpoints) <= MaxCheckpoints
        /\ \A i \in DOMAIN checkpoints : checkpoints[i].shipment \in Slots
    BY SeedTypes, Capacity, <1>1 DEF Init
  <1>4. \A i \in DOMAIN audit : audit[i].shipment \in Slots \cup {0}
    BY SeedTypes DEF Init
  <1> QED BY <1>2, <1>3, <1>4 DEF TypeOK

--------------------------------------------------------------------------------
(* Every step is one of the four cases.                                    *)

LEMMA SlotType ==
    ASSUME TypeOK
    PROVE  /\ Slots = 1 .. Len(shipments) /\ Len(shipments) \in Nat
           /\ \A s \in Slots : s \in Nat /\ shipments[s] \in ShipmentRecord
  <1>1. shipments \in Seq(ShipmentRecord)
    BY DEF TypeOK
  <1>2. Slots = 1 .. Len(shipments) /\ Len(shipments) \in Nat
    BY <1>1 DEF Slots
  <1> QED BY <1>1, <1>2, ElementOfSeq

\* Replacing one record by a record of the right type.
LEMMA Replace ==
    ASSUME TypeOK, NEW s \in Slots, NEW record \in ShipmentRecord
    PROVE  LET table == [shipments EXCEPT ![s] = record]
           IN  /\ table \in Seq(ShipmentRecord)
               /\ Len(table) = Len(shipments)
               /\ table[s] = record
               /\ \A r \in Slots : r # s => table[r] = shipments[r]
  <1>1. shipments \in Seq(ShipmentRecord) /\ s \in 1 .. Len(shipments)
    BY SlotType DEF TypeOK
  <1>2. /\ [shipments EXCEPT ![s] = record] \in Seq(ShipmentRecord)
        /\ Len([shipments EXCEPT ![s] = record]) = Len(shipments)
    BY <1>1, ExceptSeq
  <1> QED BY <1>2 DEF Slots

LEMMA PlaceType ==
    ASSUME NEW hub, NEW tag \in LocationTags \cup {Null}
    PROVE  ScanPlace(hub, tag) \in Places \cup {Null, None}
  BY DEF ScanPlace, Places

LEMMA StaffUpdates == ASSUME NEW c, StaffUpdate(c) PROVE StepCase
  BY DEF StaffUpdate, StepCase

LEMMA SameTableUpdate ==
    ASSUME TypeOK, NEW c \in Staff, NEW s \in Slots, NEW status \in Statuses,
           NEW place \in Places \cup {Null, None},
           UpdateStatus(shipments, audit, s, status, c.id, place),
           reply' \in Reply
    PROVE  StaffUpdate(c)
  <1>1. Update(shipments, audit, s, status, c.id, place)
    BY DEF Update, TypeOK
  <1> QED BY <1>1 DEF StaffUpdate

LEMMA ScanCase ==
    ASSUME TypeOK, NEW c \in Anyone, NEW id, NEW hub,
           NEW text \in StatusTexts \cup {Null},
           NEW tag \in LocationTags \cup {Null},
           Scan(c, id, hub, text, tag)
    PROVE  RequestCase(c)
  <1>1. CASE Refuse("scan")
    BY <1>1, RefuseCase DEF RequestCase
  <1>2. CASE ~ Refuse("scan")
    <2> DEFINE s == FindByTracking(id)
    <2>1. /\ HasPermission(c, DELIVERY_AGENT)
          /\ text # Null
          /\ s \in Slots
          /\ UpdateStatus(shipments, audit, s, StatusOfText(text), c.id,
                          ScanPlace(hub, tag))
          /\ reply' = [BootReply EXCEPT !.op = "scan", !.shipment = s,
                                        !.text = text]
      BY <1>2 DEF Scan
    <2>2. c \in Staff
      BY <2>1, PermittedIsStaff
    <2>3. StatusOfText(text) \in Statuses
      BY DEF StatusOfText, Statuses
    <2>4. reply' \in Reply
      <3>1. s \in Nat
        BY <2>1 DEF Slots, TypeOK
      <3> QED BY <2>1, <3>1 DEF BootReply, Reply
    <2> QED BY <2>1, <2>2, <2>3, <2>4, PlaceType, SameTableUpdate
       DEF RequestCase
  <1> QED BY <1>1, <1>2

LEMMA OverrideCase ==
    ASSUME TypeOK, NEW c \in Anyone, NEW s,
           NEW text \in StatusTexts \cup {Null},
           NEW tag \in LocationTags \cup {Null},
           StatusOverride(c, s, text, tag)
    PROVE  StepCase
  <1>1. CASE Refuse("override")
    BY <1>1, RefuseCase DEF StepCase
  <1>2. CASE ~ Refuse("override")
    <2>1. /\ HasPermission(c, HUB_MANAGER)
          /\ s \in Slots
          /\ UpdateStatus(shipments, audit, s, StatusOfText(text), c.id, tag)
          /\ reply' = [BootReply EXCEPT !.op = "override", !.shipment = s]
      BY <1>2 DEF StatusOverride
    <2>2. c \in Staff
      BY <2>1, PermittedIsStaff
    <2>3. StatusOfText(text) \in Statuses
      BY DEF StatusOfText, Statuses
    <2>4. reply' \in Reply
      <3>1. s \in Nat
        BY <2>1 DEF Slots, TypeOK
      <3> QED BY <2>1, <3>1 DEF BootReply, Reply
    <2>5. tag \in Places \cup {Null, None}
      BY DEF Places
    <2> QED BY <2>1, <2>2, <2>3, <2>4, <2>5, SameTableUpdate, StaffUpdates
  <1> QED BY <1>1, <1>2

LEMMA UploadType ==
    ASSUME NEW upload \in Signatures \cup Images \cup {Null},
           NEW old \in PodData
    PROVE  StoredUpload(upload, old) \in PodData
  <1>1. upload \in {Null, "empty", "short", "long"}
    BY InputAssumption DEF InputAssumption
  <1> QED BY <1>1 DEF StoredUpload, PodData, Null

LEMMA ProofCase ==
    ASSUME TypeOK, NEW c \in Anyone, NEW s,
           NEW signature \in Signatures \cup {Null},
           NEW image \in Images \cup {Null},
           ProofOfDelivery(c, s, signature, image)
    PROVE  RequestCase(c)
  <1>1. CASE Refuse("pod")
    BY <1>1, RefuseCase DEF RequestCase
  <1>2. CASE ~ Refuse("pod")
    <2> DEFINE table == [shipments EXCEPT
                            ![s].signature = StoredUpload(signature, @),
                            ![s].image = StoredUpload(image, @)]
               record == [shipments[s] EXCEPT
                            !.signature = StoredUpload(signature, @),
                            !.image = StoredUpload(image, @)]
    <2>1. /\ HasPermission(c, DELIVERY_AGENT)
          /\ s \in Slots
          /\ UpdateStatus(table, audit, s, "DELIVERED", c.id,
                          "Final Destination")
          /\ reply' = [BootReply EXCEPT !.op = "pod", !.shipment = s]
      BY <1>2 DEF ProofOfDelivery
    <2>2. c \in Staff
      BY <2>1, PermittedIsStaff
    <2>3. s \in Nat /\ shipments[s] \in ShipmentRecord
      BY <2>1, SlotType
    <2>4. reply' \in Reply
      BY <2>1, <2>3 DEF BootReply, Reply
    <2>5. /\ StoredUpload(signature, shipments[s].signature) \in PodData
          /\ StoredUpload(image, shipments[s].image) \in PodData
      BY <2>3, UploadType DEF ShipmentRecord
    <2>6. record \in ShipmentRecord
      BY <2>3, <2>5 DEF ShipmentRecord
    <2>7. /\ table \in Seq(ShipmentRecord)
          /\ Len(table) = Len(shipments)
          /\ \A r \in Slots : r # s => table[r] = shipments[r]
      <3>1. table = [shipments EXCEPT ![s] = record]
        BY <2>1, <2>3 DEF Slots, ShipmentRecord
      <3> HIDE DEF table, record
      <3>2. LET new == [shipments EXCEPT ![s] = record]
            IN  /\ new \in Seq(ShipmentRecord)
                /\ Len(new) = Len(shipments)
                /\ \A r \in Slots : r # s => new[r] = shipments[r]
        BY ZenonT(40), <2>1, <2>6, Replace
      <3> QED BY <3>1, <3>2
    <2>8. "DELIVERED" \in Statuses /\ "Final Destination" \in Places
      BY DEF Statuses, Places
    <2>9. /\ table[s].sender = shipments[s].sender
          /\ table[s].agent = shipments[s].agent
          /\ table[s].tracking = shipments[s].tracking
      BY <2>1, <2>3 DEF ShipmentRecord, Slots
    <2>10. Update(table, audit, s, "DELIVERED", c.id, "Final Destination")
      BY <2>1, <2>2, <2>4, <2>7, <2>8, <2>9 DEF Update, TypeOK
    <2> HIDE DEF table
    <2> QED BY <2>2, <2>9, <2>10 DEF RequestCase, StaffUpdate
  <1> QED BY <1>1, <1>2

LEMMA LogAuditType ==
    ASSUME TypeOK, NEW entry \in AuditRecord,
           entry.shipment \in Slots \cup {0}
    PROVE  /\ LogAudit(audit, entry) \in Seq(AuditRecord)
           /\ Len(LogAudit(audit, entry)) <= MaxAudits
           /\ \A i \in DOMAIN LogAudit(audit, entry) :
                 LogAudit(audit, entry)[i].shipment \in Slots \cup {0}
  <1> DEFINE log == LogAudit(audit, entry)
  <1>0. audit \in Seq(AuditRecord) /\ Len(audit) <= MaxAudits /\ MaxAudits \in Nat
    BY Capacity DEF TypeOK
  <1>1. CASE Len(audit) >= MaxAudits
    <2>1. log = audit
      BY <1>0, <1>1 DEF LogAudit
    <2> QED BY <2>1 DEF TypeOK
  <1>2. CASE Len(audit) < MaxAudits
    <2>1. log = Append(audit, entry)
      BY <1>2 DEF LogAudit
    <2>2. /\ log \in Seq(AuditRecord) /\ Len(log) = Len(audit) + 1
          /\ log[Len(log)] = entry
          /\ \A i \in 1 .. Len(audit) : log[i] = audit[i]
      BY <1>0, <2>1, AppendProperties
    <2>3. \A i \in DOMAIN log : log[i].shipment \in Slots \cup {0}
      BY <1>0, <2>2 DEF TypeOK
    <2> QED BY <1>0, <1>2, <2>2, <2>3
  <1> QED BY <1>0, <1>1, <1>2

LEMMA DispatchCase ==
    ASSUME TypeOK, NEW c \in Anyone, NEW s, NEW agent \in Agents,
           AgentDispatch(c, s, agent)
    PROVE  StepCase
  <1>1. CASE Refuse("dispatch")
    BY <1>1, RefuseCase DEF StepCase
  <1>2. CASE ~ Refuse("dispatch")
    <2> DEFINE table == [shipments EXCEPT ![s].agent = agent]
               entry == Assignment(c.id, s, agent)
               log == LogAudit(audit, entry)
    <2>1. /\ HasPermission(c, HUB_MANAGER)
          /\ s \in Slots
          /\ UpdateStatus(table, log, s, "OUT_FOR_DELIVERY", c.id,
                          "Local Delivery Hub")
          /\ reply' = [BootReply EXCEPT !.op = "dispatch", !.shipment = s]
      BY <1>2 DEF AgentDispatch, Assignment
    <2>2. c \in Staff
      BY <2>1, PermittedIsStaff
    <2>3. s \in Nat /\ shipments[s] \in ShipmentRecord
      BY <2>1, SlotType
    <2>4. reply' \in Reply
      BY <2>1, <2>3 DEF BootReply, Reply
    <2>5. [shipments[s] EXCEPT !.agent = agent] \in ShipmentRecord
      BY <2>3 DEF ShipmentRecord, UserIds
    <2>6. /\ table \in Seq(ShipmentRecord)
          /\ Len(table) = Len(shipments)
          /\ \A r \in Slots : r # s => table[r] = shipments[r]
          /\ table[s].signature = shipments[s].signature
          /\ table[s].image = shipments[s].image
          /\ table[s].tracking = shipments[s].tracking
      <3>1. /\ [shipments[s] EXCEPT !.agent = agent].signature
                  = shipments[s].signature
            /\ [shipments[s] EXCEPT !.agent = agent].image = shipments[s].image
            /\ [shipments[s] EXCEPT !.agent = agent].tracking
                  = shipments[s].tracking
        BY <2>3 DEF ShipmentRecord
      <3> QED BY <2>1, <2>5, <3>1, Replace
    <2>7. entry \in AuditRecord
      BY <2>2, <2>3, StaffId DEF AuditRecord, Assignment
    <2>8. /\ log \in Seq(AuditRecord) /\ Len(log) <= MaxAudits
          /\ \A i \in DOMAIN log : log[i].shipment \in Slots \cup {0}
      <3>1. entry.shipment \in Slots \cup {0}
        BY <2>1 DEF Assignment
      <3> QED BY <2>7, <3>1, LogAuditType
    <2>9. "OUT_FOR_DELIVERY" \in Statuses /\ "Local Delivery Hub" \in Places
      BY DEF Statuses, Places
    <2>10. \E a \in Agents : log = LogAudit(audit, Assignment(c.id, s, a))
      OBVIOUS
    <2> HIDE DEF table, log
    <2>11. Update(table, log, s, "OUT_FOR_DELIVERY", c.id, "Local Delivery Hub")
      BY <2>1, <2>2, <2>4, <2>6, <2>8, <2>9, <2>10 DEF Update
    <2> QED BY <2>11 DEF StepCase
  <1> QED BY <1>1, <1>2

LEMMA BookCase ==
    ASSUME TypeOK, NEW c \in Anyone, NEW origin \in Origins,
           NEW id \in GeneratedIds, BookShipment(c, origin, id)
    PROVE  RequestCase(c)
  <1>1. CASE Refuse("book")
    BY <1>1, RefuseCase DEF RequestCase
  <1>2. CASE ~ Refuse("book")
    <2>1. /\ Len(shipments) < MaxShipments
          /\ StoreBookings(1, c, origin, <<id>>)
          /\ reply' = [op |-> "book", ok |-> TRUE, shipment |-> FoundAgain(id),
                       text |-> id, booked |-> 1]
      BY <1>2, Capacity DEF BookShipment, TypeOK
    <2>2. Stored(1) = 1
      BY <2>1, Capacity DEF Stored, Smaller, TypeOK
    <2>3. <<id>> \in [1 .. Stored(1) -> GeneratedIds]
      BY <2>2
    <2>4. FoundAgain(id) \in Nat
      BY DEF FoundAgain, Slots, TypeOK
    <2>5. reply' \in Reply
      BY <2>1, <2>4 DEF Reply
    <2>6. Booking(1, c, origin, <<id>>)
      BY <2>1, <2>3, <2>5, AnyoneType DEF Booking
    <2> QED BY <2>6 DEF RequestCase
  <1> QED BY <1>1, <1>2

LEMMA BulkCase ==
    ASSUME TypeOK, NEW n \in 0 .. MaxBatch, NEW c \in Anyone,
           NEW origin \in Origins, NEW ids \in [1 .. Stored(n) -> GeneratedIds],
           BulkBooking(n, c, origin, ids)
    PROVE  RequestCase(c)
  <1>1. n \in Nat
    BY Capacity
  <1>2. Stored(n) \in Nat
    BY <1>1, Capacity DEF Stored, Smaller, TypeOK
  <1>3. reply' \in Reply
    BY <1>2 DEF BulkBooking, BootReply, Reply
  <1>4. Booking(n, c, origin, ids)
    BY <1>1, <1>3, AnyoneType DEF BulkBooking, Booking
  <1> QED BY <1>4 DEF RequestCase

LEMMA RequestCases ==
    ASSUME TypeOK, NEW c \in Anyone, RequestBy(c)
    PROVE  RequestCase(c)
  <1>1. CASE BookingGarbled
    BY <1>1, RefuseCase DEF BookingGarbled, RequestCase
  <1> QED BY <1>1, BookCase, BulkCase, ScanCase, ProofCase DEF RequestBy

LEMMA StepCases ==
    ASSUME TypeOK, [Next]_vars
    PROVE  StepCase
  <1>1. CASE Requests
    <2>1. PICK c \in Anyone : RequestCase(c)
      BY <1>1, RequestCases DEF Requests
    <2> QED BY <2>1, StaffUpdates DEF RequestCase, StepCase
  <1>2. CASE BackOffice
    BY <1>2, OverrideCase, DispatchCase DEF BackOffice
  <1>3. CASE Restart
    BY <1>3 DEF Restart, Init, StepCase
  <1>4. CASE UNCHANGED vars
    BY <1>4 DEF vars, StepCase, Unchanged, TypeOK
  <1> QED BY <1>1, <1>2, <1>3, <1>4 DEF Next

--------------------------------------------------------------------------------
(* What the two kinds of change do to the tables, entry by entry.          *)

TableTypes ==
    /\ Len(shipments) \in Nat   /\ Slots = 1 .. Len(shipments)
    /\ Len(checkpoints) \in Nat /\ DOMAIN checkpoints = 1 .. Len(checkpoints)
    /\ Len(audit) \in Nat       /\ DOMAIN audit = 1 .. Len(audit)

LEMMA Tables == TypeOK => TableTypes
  BY DEF TypeOK, TableTypes, Slots

UpdateEntry(table, s, status, by, place) ==
    [shipment |-> s, status |-> status, hub |-> table[s].origin,
     by |-> by, note |-> "update",
     place |-> IF place \in {Null, None} THEN "Transit Station" ELSE place]

LEMMA UpdateEffect ==
    ASSUME TypeOK, NEW table, NEW log, NEW s, NEW status, NEW by, NEW place,
           Update(table, log, s, status, by, place)
    PROVE  /\ shipments' \in Seq(ShipmentRecord)
           /\ Len(shipments') = Len(shipments)
           /\ s \in Slots /\ status \in Statuses
           /\ \A r \in Slots : r # s => shipments'[r] = shipments[r]
           /\ shipments'[s].status = status
           /\ \/ status = "DELIVERED"
              \/ /\ shipments'[s].signature = shipments[s].signature
                 /\ shipments'[s].image = shipments[s].image
           /\ \A r \in Slots : shipments'[r].tracking = shipments[r].tracking
  <1>1. /\ table \in Seq(ShipmentRecord) /\ Len(table) = Len(shipments)
        /\ s \in 1 .. Len(table) /\ s \in Slots /\ status \in Statuses
    BY Tables DEF Update, TableTypes
  <1>2. table[s] \in ShipmentRecord
    BY <1>1, ElementOfSeq
  <1> DEFINE record == [table[s] EXCEPT !.status = status]
  <1>3. /\ record \in ShipmentRecord
        /\ record.status = status
        /\ record.tracking = table[s].tracking
        /\ record.signature = table[s].signature
        /\ record.image = table[s].image
    BY <1>1, <1>2 DEF ShipmentRecord
  <1>4. shipments' = [table EXCEPT ![s] = record]
    BY DEF Update, UpdateStatus
  <1> HIDE DEF record
  <1>5. /\ [table EXCEPT ![s] = record] \in Seq(ShipmentRecord)
        /\ Len([table EXCEPT ![s] = record]) = Len(table)
        /\ \A r \in 1 .. Len(table) :
              [table EXCEPT ![s] = record][r] = IF r = s THEN record ELSE table[r]
    BY <1>1, <1>3, ExceptSeq
  <1>6. \A r \in 1 .. Len(shipments) :
            shipments'[r] = IF r = s THEN record ELSE table[r]
    BY <1>1, <1>4, <1>5
  <1> QED BY <1>1, <1>3, <1>4, <1>5, <1>6, Tables DEF Update, TableTypes

LEMMA UpdateHistory ==
    ASSUME TypeOK, NEW table, NEW log, NEW s, NEW status, NEW by, NEW place,
           Update(table, log, s, status, by, place)
    PROVE  LET entry == UpdateEntry(table, s, status, by, place)
           IN  /\ entry \in CheckpointRecord
               /\ \/ HistoryFull /\ UNCHANGED checkpoints
                  \/ /\ Len(checkpoints) < MaxCheckpoints
                     /\ checkpoints' \in Seq(CheckpointRecord)
                     /\ Len(checkpoints') = Len(checkpoints) + 1
                     /\ \A i \in 1 .. Len(checkpoints) :
                            checkpoints'[i] = checkpoints[i]
                     /\ checkpoints'[Len(checkpoints) + 1] = entry
  <1> DEFINE entry == UpdateEntry(table, s, status, by, place)
  <1>1. /\ table \in Seq(ShipmentRecord)
        /\ s \in 1 .. Len(table) /\ s \in Nat /\ status \in Statuses
        /\ by \in UserIds /\ place \in Places \cup {Null, None}
    BY Tables, StaffId DEF Update, TableTypes
  <1>2. table[s].origin \in HubIds
    <2>1. table[s] \in ShipmentRecord
      BY <1>1, ElementOfSeq
    <2> QED BY <2>1 DEF ShipmentRecord
  <1>3. entry \in CheckpointRecord
    BY <1>1, <1>2 DEF UpdateEntry, CheckpointRecord, Places
  <1>4. checkpoints' = AddCheckpoint(checkpoints, entry)
    BY DEF Update, UpdateStatus, UpdateEntry
  <1> HIDE DEF entry
  <1>5. /\ checkpoints \in Seq(CheckpointRecord)
        /\ Len(checkpoints) <= MaxCheckpoints
        /\ Len(checkpoints) \in Nat /\ MaxCheckpoints \in Nat
    BY Tables, Capacity DEF TypeOK, TableTypes
  <1>6. CASE Len(checkpoints) < MaxCheckpoints
    <2>1. checkpoints' = Append(checkpoints, entry)
      BY <1>4, <1>6 DEF AddCheckpoint
    <2>2. /\ Append(checkpoints, entry) \in Seq(CheckpointRecord)
          /\ Len(Append(checkpoints, entry)) = Len(checkpoints) + 1
          /\ \A i \in 1 .. Len(checkpoints) :
                Append(checkpoints, entry)[i] = checkpoints[i]
          /\ Append(checkpoints, entry)[Len(checkpoints) + 1] = entry
      BY <1>3, <1>5, AppendProperties
    <2> QED BY <1>3, <1>6, <2>1, <2>2 DEF entry
  <1>7. CASE ~ (Len(checkpoints) < MaxCheckpoints)
    BY <1>3, <1>4, <1>5, <1>7 DEF AddCheckpoint, HistoryFull, entry
  <1> QED BY <1>6, <1>7

\* The number of checkpoints that one request's bookings append.
Logged(n) == Smaller(Stored(n), MaxCheckpoints - Len(checkpoints))

LEMMA BookingCounts ==
    ASSUME TypeOK, NEW n \in Nat
    PROVE  /\ Stored(n) \in Nat /\ Logged(n) \in Nat
           /\ Logged(n) <= Stored(n)
           /\ Len(shipments) + Stored(n) <= MaxShipments
           /\ Len(checkpoints) + Logged(n) <= MaxCheckpoints
           /\ \/ Logged(n) = Stored(n)
              \/ Len(checkpoints) + Logged(n) = MaxCheckpoints
  BY Tables, Capacity DEF TypeOK, TableTypes, Stored, Logged, Smaller

\* What concatenation does, indexed from the end of the first sequence.
LEMMA AppendAll ==
    ASSUME NEW S, NEW table \in Seq(S), NEW more \in Seq(S)
    PROVE  /\ table \o more \in Seq(S)
           /\ Len(table \o more) = Len(table) + Len(more)
           /\ \A i \in 1 .. Len(table) : (table \o more)[i] = table[i]
           /\ \A i \in 1 .. Len(more) :
                 (table \o more)[Len(table) + i] = more[i]
  <1>1. Len(more) \in Nat /\ Len(table) \in Nat
    OBVIOUS
  <1>2. /\ table \o more \in Seq(S)
        /\ Len(table \o more) = Len(table) + Len(more)
        /\ \A i \in 1 .. Len(table) + Len(more) : (table \o more)[i] =
                IF i <= Len(table) THEN table[i] ELSE more[i - Len(table)]
    BY ConcatProperties
  <1> QED BY <1>1, <1>2

LEMMA BookingShipments ==
    ASSUME TypeOK, NEW n, NEW caller, NEW origin, NEW ids,
           Booking(n, caller, origin, ids)
    PROVE  /\ shipments' \in Seq(ShipmentRecord)
           /\ Len(shipments') = Len(shipments) + Stored(n)
           /\ \A s \in 1 .. Len(shipments) : shipments'[s] = shipments[s]
           /\ \A i \in 1 .. Stored(n) : shipments'[Len(shipments) + i] =
                    NewShipment(caller, origin, ids[i])
  <1> DEFINE more == [i \in 1 .. Stored(n) |-> NewShipment(caller, origin, ids[i])]
  <1>1. Stored(n) \in Nat
    BY BookingCounts DEF Booking
  <1>2. more \in [1 .. Stored(n) -> ShipmentRecord]
    <2> SUFFICES ASSUME NEW i \in 1 .. Stored(n)
                 PROVE  NewShipment(caller, origin, ids[i]) \in ShipmentRecord
      OBVIOUS
    <2>1. /\ ids[i] \in Tracking /\ caller.id \in UserIds /\ None \in UserIds
          /\ origin \in HubIds /\ "ORDER_CREATED" \in Statuses
          /\ None \in PodData
      BY DEF Booking, Tracking, UserIds, HubIds, Statuses, PodData
    <2> QED BY <2>1 DEF NewShipment, ShipmentRecord
  <1>3. shipments' = shipments \o more /\ shipments \in Seq(ShipmentRecord)
    BY DEF Booking, StoreBookings, TypeOK
  <1>4. \A i \in 1 .. Stored(n) : more[i] = NewShipment(caller, origin, ids[i])
    OBVIOUS
  <1> HIDE DEF more
  <1>5. more \in Seq(ShipmentRecord) /\ Len(more) = Stored(n)
    <2>1. more \in Seq(ShipmentRecord)
      BY <1>1, <1>2, SeqDef
    <2> QED BY <1>1, <1>2, <2>1
  <1>6. /\ shipments \o more \in Seq(ShipmentRecord)
        /\ Len(shipments \o more) = Len(shipments) + Len(more)
        /\ \A s \in 1 .. Len(shipments) : (shipments \o more)[s] = shipments[s]
        /\ \A i \in 1 .. Len(more) :
              (shipments \o more)[Len(shipments) + i] = more[i]
    <2>1. shipments \in Seq(ShipmentRecord) /\ more \in Seq(ShipmentRecord)
      BY <1>3, <1>5
    <2> QED BY <2>1, AppendAll
  <1> QED BY <1>3, <1>4, <1>5, <1>6

LEMMA BookingHistory ==
    ASSUME TypeOK, NEW n, NEW caller, NEW origin, NEW ids,
           Booking(n, caller, origin, ids)
    PROVE  /\ checkpoints' \in Seq(CheckpointRecord)
           /\ Len(checkpoints') = Len(checkpoints) + Logged(n)
           /\ \A i \in 1 .. Len(checkpoints) : checkpoints'[i] = checkpoints[i]
           /\ \A i \in 1 .. Logged(n) : checkpoints'[Len(checkpoints) + i] =
                    BookingCheckpoint(Len(shipments) + i, caller, origin)
  <1> DEFINE more == [i \in 1 .. Logged(n) |->
                         BookingCheckpoint(Len(shipments) + i, caller, origin)]
  <1>1. Logged(n) \in Nat /\ Len(shipments) \in Nat
    BY BookingCounts, Tables DEF Booking, TableTypes
  <1>2. more \in [1 .. Logged(n) -> CheckpointRecord]
    <2> SUFFICES ASSUME NEW i \in 1 .. Logged(n)
                 PROVE  BookingCheckpoint(Len(shipments) + i, caller, origin)
                            \in CheckpointRecord
      OBVIOUS
    <2>1. /\ Len(shipments) + i \in Nat
          /\ caller.id \in UserIds /\ origin \in HubIds
          /\ "ORDER_CREATED" \in Statuses
      BY <1>1 DEF Booking, HubIds, Statuses
    <2>2. (IF origin \in SeedHubs THEN origin ELSE "Origin Hub") \in Places
      BY DEF Places
    <2> QED BY <2>1, <2>2 DEF BookingCheckpoint, CheckpointRecord
  <1>3. /\ checkpoints' = checkpoints \o more
        /\ checkpoints \in Seq(CheckpointRecord)
    BY DEF Booking, StoreBookings, TypeOK, Logged
  <1>4. \A i \in 1 .. Logged(n) :
            more[i] = BookingCheckpoint(Len(shipments) + i, caller, origin)
    OBVIOUS
  <1> HIDE DEF more
  <1>5. more \in Seq(CheckpointRecord) /\ Len(more) = Logged(n)
    <2>1. more \in Seq(CheckpointRecord)
      BY <1>1, <1>2, SeqDef
    <2> QED BY <1>1, <1>2, <2>1
  <1>6. /\ checkpoints \o more \in Seq(CheckpointRecord)
        /\ Len(checkpoints \o more) = Len(checkpoints) + Len(more)
        /\ \A i \in 1 .. Len(checkpoints) : (checkpoints \o more)[i] = checkpoints[i]
        /\ \A i \in 1 .. Len(more) :
              (checkpoints \o more)[Len(checkpoints) + i] = more[i]
    <2>1. checkpoints \in Seq(CheckpointRecord) /\ more \in Seq(CheckpointRecord)
      BY <1>3, <1>5
    <2> QED BY <2>1, AppendAll
  <1> QED BY <1>3, <1>4, <1>5, <1>6

--------------------------------------------------------------------------------
(* Type correctness.                                                       *)

LEMMA UpdateType ==
    ASSUME TypeOK, NEW table, NEW log, NEW s, NEW status, NEW by, NEW place,
           Update(table, log, s, status, by, place)
    PROVE  TypeOK'
  <1> DEFINE entry == UpdateEntry(table, s, status, by, place)
  <1> USE Tables, Capacity DEF TableTypes
  <1>1. /\ shipments' \in Seq(ShipmentRecord)
        /\ Len(shipments') = Len(shipments)
        /\ s \in Slots
    BY UpdateEffect
  <1>2. Slots' = Slots /\ Len(shipments') <= MaxShipments
    BY <1>1 DEF Slots, TypeOK
  <1>3. entry \in CheckpointRecord /\ entry.shipment = s
    BY UpdateHistory DEF UpdateEntry
  <1>4. /\ checkpoints' \in Seq(CheckpointRecord)
        /\ Len(checkpoints') <= MaxCheckpoints
        /\ \A i \in DOMAIN checkpoints' : checkpoints'[i].shipment \in Slots
    <2>1. CASE UNCHANGED checkpoints
      BY <2>1 DEF TypeOK
    <2>2. CASE ~ UNCHANGED checkpoints
      <3>1. /\ Len(checkpoints) < MaxCheckpoints
            /\ checkpoints' \in Seq(CheckpointRecord)
            /\ Len(checkpoints') = Len(checkpoints) + 1
            /\ \A i \in 1 .. Len(checkpoints) : checkpoints'[i] = checkpoints[i]
            /\ checkpoints'[Len(checkpoints) + 1] = entry
        BY <2>2, UpdateHistory
      <3>2. DOMAIN checkpoints' = 1 .. Len(checkpoints) + 1
        BY <3>1
      <3> HIDE DEF entry
      <3>3. \A i \in 1 .. Len(checkpoints) : checkpoints'[i].shipment \in Slots
        BY <3>1 DEF TypeOK
      <3>4. checkpoints'[Len(checkpoints) + 1].shipment \in Slots
        BY <1>1, <1>3, <3>1
      <3> QED BY <3>1, <3>2, <3>3, <3>4
    <2> QED BY <2>1, <2>2
  <1>5. /\ audit' \in Seq(AuditRecord)
        /\ Len(audit') <= MaxAudits
        /\ \A i \in DOMAIN audit' : audit'[i].shipment \in Slots \cup {0}
    <2> DEFINE change == [actor |-> by, action |-> "STATUS_CHANGE",
                          shipment |-> s, detail |-> status]
    <2>1. /\ log \in Seq(AuditRecord) /\ Len(log) <= MaxAudits
          /\ \A i \in DOMAIN log : log[i].shipment \in Slots \cup {0}
          /\ audit' = LogAudit(log, change)
      BY DEF Update, UpdateStatus
    <2>2. change \in AuditRecord /\ change.shipment = s
      BY <1>1, StaffId DEF Update, AuditRecord
    <2> HIDE DEF change
    <2>3. CASE Len(log) < MaxAudits
      <3>1. audit' = Append(log, change)
        BY <2>1, <2>3 DEF LogAudit
      <3>2. /\ audit' \in Seq(AuditRecord) /\ Len(audit') = Len(log) + 1
            /\ \A i \in 1 .. Len(log) : audit'[i] = log[i]
            /\ audit'[Len(log) + 1] = change
        BY <2>1, <2>2, <3>1, AppendProperties
      <3>3. DOMAIN audit' = 1 .. Len(log) + 1 /\ DOMAIN log = 1 .. Len(log)
        BY <2>1, <3>2
      <3> QED BY <1>1, <2>1, <2>2, <2>3, <3>2, <3>3
    <2>4. CASE ~ (Len(log) < MaxAudits)
      BY <2>1, <2>4 DEF LogAudit
    <2> QED BY <2>3, <2>4
  <1> QED BY <1>1, <1>2, <1>4, <1>5 DEF TypeOK, Update

LEMMA BookingType ==
    ASSUME TypeOK, NEW n, NEW caller, NEW origin, NEW ids,
           Booking(n, caller, origin, ids)
    PROVE  TypeOK'
  <1>1. /\ Stored(n) \in Nat /\ Logged(n) \in Nat
        /\ Logged(n) <= Stored(n)
        /\ Len(shipments) + Stored(n) <= MaxShipments
        /\ Len(checkpoints) + Logged(n) <= MaxCheckpoints
    BY BookingCounts DEF Booking
  <1>2. /\ shipments' \in Seq(ShipmentRecord)
        /\ Len(shipments') = Len(shipments) + Stored(n)
    BY BookingShipments
  <1>3. /\ checkpoints' \in Seq(CheckpointRecord)
        /\ Len(checkpoints') = Len(checkpoints) + Logged(n)
        /\ \A i \in 1 .. Len(checkpoints) : checkpoints'[i] = checkpoints[i]
        /\ \A i \in 1 .. Logged(n) : checkpoints'[Len(checkpoints) + i] =
                BookingCheckpoint(Len(shipments) + i, caller, origin)
    BY BookingHistory
  <1>4. /\ Len(shipments) \in Nat /\ Len(checkpoints) \in Nat
        /\ Slots' = 1 .. Len(shipments) + Stored(n)
        /\ DOMAIN checkpoints' = 1 .. Len(checkpoints) + Logged(n)
    BY <1>2, <1>3, Tables DEF TableTypes, Slots
  <1>5. ASSUME NEW i \in DOMAIN checkpoints'
        PROVE  checkpoints'[i].shipment \in Slots'
    <2>1. CASE i <= Len(checkpoints)
      <3>1. i \in 1 .. Len(checkpoints)
        BY <1>1, <1>4, <2>1
      <3>2. checkpoints[i].shipment \in 1 .. Len(shipments)
        BY <3>1, Tables DEF TypeOK, TableTypes
      <3> QED BY <1>1, <1>3, <1>4, <3>1, <3>2
    <2>2. CASE ~ (i <= Len(checkpoints))
      <3> DEFINE k == i - Len(checkpoints)
      <3>1. k \in 1 .. Logged(n) /\ i = Len(checkpoints) + k
        BY <1>1, <1>4, <2>2
      <3> HIDE DEF k
      <3>2. checkpoints'[i] = BookingCheckpoint(Len(shipments) + k, caller, origin)
        BY <1>3, <3>1
      <3>3. BookingCheckpoint(Len(shipments) + k, caller, origin).shipment
                = Len(shipments) + k
        BY DEF BookingCheckpoint
      <3> QED BY <1>1, <1>4, <3>1, <3>2, <3>3
    <2> QED BY <2>1, <2>2
  <1>6. /\ audit' \in Seq(AuditRecord) /\ Len(audit') <= MaxAudits
        /\ \A i \in DOMAIN audit' : audit'[i].shipment \in Slots' \cup {0}
    BY <1>1, <1>4, Tables DEF Booking, StoreBookings, TypeOK, TableTypes
  <1> QED BY <1>1, <1>2, <1>3, <1>5, <1>6 DEF TypeOK, Booking

LEMMA StepType == ASSUME TypeOK, [Next]_vars PROVE TypeOK'
  <1>1. CASE Unchanged
    BY <1>1 DEF Unchanged, TypeOK, Slots
  <1>2. CASE Init'
    <2>1. Init' => TypeOK'
      BY InitType, PTL
    <2> QED BY <1>2, <2>1
  <1> QED BY <1>1, <1>2, UpdateType, BookingType, StepCases DEF StepCase

\* No table ever holds more entries than its array, every entry has its type,
\* and checkpoints and audit entries name stored shipments.
THEOREM TypeCorrect == Spec => []TypeOK
  BY InitType, StepType, PTL DEF Spec

--------------------------------------------------------------------------------
(* The status of a shipment is that of its last checkpoint.                *)

LEMMA SeedFields ==
    /\ SeedShipments[1].status = "OUT_FOR_DELIVERY"
    /\ SeedShipments[2].status = "IN_TRANSIT"
    /\ \A s \in 1 .. 4 : /\ SeedShipments[s].signature = None
                         /\ SeedShipments[s].image = None
    /\ SeedCheckpoints[1].shipment = 1 /\ SeedCheckpoints[2].shipment = 1
    /\ SeedCheckpoints[3].shipment = 1 /\ SeedCheckpoints[4].shipment = 2
    /\ SeedCheckpoints[5].shipment = 2
    /\ SeedCheckpoints[3].status = "OUT_FOR_DELIVERY"
    /\ SeedCheckpoints[5].status = "IN_TRANSIT"
    /\ \A i \in 1 .. 5 : SeedCheckpoints[i].note = "seed"
  <1>1. /\ SeedShipments[1].status = "OUT_FOR_DELIVERY"
        /\ SeedShipments[2].status = "IN_TRANSIT"
        /\ SeedShipments[1].signature = None /\ SeedShipments[1].image = None
        /\ SeedShipments[2].signature = None /\ SeedShipments[2].image = None
        /\ SeedShipments[3].signature = None /\ SeedShipments[3].image = None
        /\ SeedShipments[4].signature = None /\ SeedShipments[4].image = None
    BY DEF SeedShipments, SeedShipment
  <1>2. /\ SeedCheckpoints[1].shipment = 1 /\ SeedCheckpoints[1].note = "seed"
        /\ SeedCheckpoints[2].shipment = 1 /\ SeedCheckpoints[2].note = "seed"
        /\ SeedCheckpoints[3].shipment = 1 /\ SeedCheckpoints[3].note = "seed"
        /\ SeedCheckpoints[4].shipment = 2 /\ SeedCheckpoints[4].note = "seed"
        /\ SeedCheckpoints[5].shipment = 2 /\ SeedCheckpoints[5].note = "seed"
        /\ SeedCheckpoints[3].status = "OUT_FOR_DELIVERY"
        /\ SeedCheckpoints[5].status = "IN_TRANSIT"
    BY DEF SeedCheckpoints, SeedCheckpoint
  <1> QED BY <1>1, <1>2

LEMMA InitStatus == Init => StatusIsLastEvent
  <1> SUFFICES ASSUME Init, NEW i \in DOMAIN checkpoints, IsLastEvent(i)
               PROVE  shipments[checkpoints[i].shipment].status
                        = checkpoints[i].status
    BY DEF StatusIsLastEvent
  <1>1. i \in 1 .. 5 /\ Len(checkpoints) = 5
    BY SeedTypes DEF Init
  <1>2. i = 3 \/ i = 5
    BY <1>1, SeedFields DEF Init, IsLastEvent
  <1> QED BY <1>2, SeedFields DEF Init

LEMMA UpdateStatusKept ==
    ASSUME TypeOK, StatusIsLastEvent,
           NEW table, NEW log, NEW s, NEW status, NEW by, NEW place,
           Update(table, log, s, status, by, place)
    PROVE  StatusIsLastEvent'
  <1> DEFINE entry == UpdateEntry(table, s, status, by, place)
             n == Len(checkpoints)
  <1> SUFFICES ASSUME ~ HistoryFull', NEW i \in DOMAIN checkpoints',
                      IsLastEvent(i)'
               PROVE  shipments'[checkpoints'[i].shipment].status
                        = checkpoints'[i].status
    BY DEF StatusIsLastEvent
  <1>1. /\ n < MaxCheckpoints /\ n \in Nat /\ MaxCheckpoints \in Nat
        /\ checkpoints' \in Seq(CheckpointRecord)
        /\ Len(checkpoints') = n + 1
        /\ \A j \in 1 .. n : checkpoints'[j] = checkpoints[j]
        /\ checkpoints'[n + 1] = entry
    <2>1. ~ (HistoryFull /\ UNCHANGED checkpoints)
      BY DEF HistoryFull
    <2> QED BY <2>1, UpdateHistory, Tables, Capacity DEF TableTypes
  <1>2. entry.shipment = s /\ entry.status = status
    BY DEF UpdateEntry
  <1>3. /\ \A r \in Slots : r # s => shipments'[r] = shipments[r]
        /\ shipments'[s].status = status
    BY UpdateEffect
  <1>4. DOMAIN checkpoints' = 1 .. n + 1 /\ DOMAIN checkpoints = 1 .. n
    BY <1>1, Tables DEF TableTypes
  <1> HIDE DEF entry, n
  <1>5. CASE i = n + 1
    BY <1>1, <1>2, <1>3, <1>5
  <1>6. CASE i # n + 1
    <2>1. i \in 1 .. n /\ checkpoints'[i] = checkpoints[i]
      BY <1>1, <1>4, <1>6
    <2>2. IsLastEvent(i) /\ checkpoints[i].shipment # s
      BY <1>1, <1>2, <2>1 DEF IsLastEvent, n
    <2>3. checkpoints[i].shipment \in Slots
      BY <1>4, <2>1 DEF TypeOK
    <2>4. shipments[checkpoints[i].shipment].status = checkpoints[i].status
      <3>1. ~ HistoryFull
        BY <1>1 DEF HistoryFull, n
      <3> QED BY <1>4, <2>1, <2>2, <3>1 DEF StatusIsLastEvent
    <2> QED BY <1>3, <2>1, <2>2, <2>3, <2>4
  <1> QED BY <1>5, <1>6

\* The facts about a booking that the invariants need.
LEMMA BookingFacts ==
    ASSUME TypeOK, NEW n, NEW caller, NEW origin, NEW ids,
           Booking(n, caller, origin, ids)
    PROVE  /\ Stored(n) \in Nat /\ Logged(n) \in Nat
           /\ Len(shipments) \in Nat /\ Len(checkpoints) \in Nat
           /\ Len(shipments') = Len(shipments) + Stored(n)
           /\ Len(checkpoints') = Len(checkpoints) + Logged(n)
           /\ DOMAIN checkpoints = 1 .. Len(checkpoints)
           /\ DOMAIN checkpoints' = 1 .. Len(checkpoints) + Logged(n)
           /\ Slots' = 1 .. Len(shipments) + Stored(n)
           /\ \A s \in 1 .. Len(shipments) : shipments'[s] = shipments[s]
           /\ \A i \in 1 .. Len(checkpoints) : checkpoints'[i] = checkpoints[i]
           /\ \A i \in 1 .. Len(checkpoints) :
                 checkpoints[i].shipment \in 1 .. Len(shipments)
           /\ ~ HistoryFull' => Logged(n) = Stored(n) /\ ~ HistoryFull
  <1>1. /\ Stored(n) \in Nat /\ Logged(n) \in Nat
        /\ \/ Logged(n) = Stored(n)
           \/ Len(checkpoints) + Logged(n) = MaxCheckpoints
        /\ Len(checkpoints) + Logged(n) <= MaxCheckpoints
    BY BookingCounts DEF Booking
  <1>2. /\ shipments' \in Seq(ShipmentRecord)
        /\ Len(shipments') = Len(shipments) + Stored(n)
        /\ \A s \in 1 .. Len(shipments) : shipments'[s] = shipments[s]
    BY BookingShipments
  <1>3. /\ checkpoints' \in Seq(CheckpointRecord)
        /\ Len(checkpoints') = Len(checkpoints) + Logged(n)
        /\ \A i \in 1 .. Len(checkpoints) : checkpoints'[i] = checkpoints[i]
    BY BookingHistory
  <1>4. /\ Len(shipments) \in Nat /\ Len(checkpoints) \in Nat
        /\ MaxCheckpoints \in Nat
        /\ DOMAIN checkpoints = 1 .. Len(checkpoints)
        /\ \A i \in 1 .. Len(checkpoints) :
              checkpoints[i].shipment \in 1 .. Len(shipments)
    BY Tables, Capacity DEF TableTypes, TypeOK
  <1>5. /\ Slots' = 1 .. Len(shipments) + Stored(n)
        /\ DOMAIN checkpoints' = 1 .. Len(checkpoints) + Logged(n)
    BY <1>2, <1>3 DEF Slots
  <1>6. ASSUME ~ HistoryFull'
        PROVE  Logged(n) = Stored(n) /\ ~ HistoryFull
    <2>1. Len(checkpoints) + Logged(n) # MaxCheckpoints
      BY <1>3, <1>6 DEF HistoryFull
    <2>2. Len(checkpoints) # MaxCheckpoints
      <3>1. ASSUME NEW a \in Nat, NEW b \in Nat, NEW c \in Nat,
                   a + b <= c, a + b # c
            PROVE  a # c
        BY <3>1
      <3> QED BY <1>1, <1>4, <2>1, <3>1
    <2>3. Logged(n) = Stored(n)
      BY <1>1, <2>1
    <2> QED BY <2>2, <2>3 DEF HistoryFull
  <1> QED BY <1>1, <1>2, <1>3, <1>4, <1>5, <1>6

\* Entry k of the ones a booking appends.
LEMMA BookingEntry ==
    ASSUME TypeOK, NEW n, NEW caller, NEW origin, NEW ids,
           Booking(n, caller, origin, ids)
    PROVE  /\ \A k \in 1 .. Logged(n) :
                 LET c == checkpoints'[Len(checkpoints) + k]
                 IN  /\ c.shipment = Len(shipments) + k
                     /\ c.status = "ORDER_CREATED"
                     /\ c.note = "booking"
           /\ \A k \in 1 .. Stored(n) :
                 LET s == shipments'[Len(shipments) + k]
                 IN  /\ s.status = "ORDER_CREATED"
                     /\ s.signature = None /\ s.image = None
  <1>1. ASSUME NEW k \in 1 .. Logged(n)
        PROVE  LET c == BookingCheckpoint(Len(shipments) + k, caller, origin)
               IN  /\ c.shipment = Len(shipments) + k
                   /\ c.status = "ORDER_CREATED"
                   /\ c.note = "booking"
    BY DEF BookingCheckpoint
  <1>2. ASSUME NEW k \in 1 .. Stored(n)
        PROVE  LET s == NewShipment(caller, origin, ids[k])
               IN  /\ s.status = "ORDER_CREATED"
                   /\ s.signature = None /\ s.image = None
    BY DEF NewShipment
  <1>3. \A k \in 1 .. Logged(n) : checkpoints'[Len(checkpoints) + k] =
                BookingCheckpoint(Len(shipments) + k, caller, origin)
    BY BookingHistory
  <1>4. \A k \in 1 .. Stored(n) : shipments'[Len(shipments) + k] =
                NewShipment(caller, origin, ids[k])
    BY BookingShipments
  <1> QED BY <1>1, <1>2, <1>3, <1>4

LEMMA BookingStatusKept ==
    ASSUME TypeOK, StatusIsLastEvent,
           NEW n, NEW caller, NEW origin, NEW ids,
           Booking(n, caller, origin, ids)
    PROVE  StatusIsLastEvent'
  <1> DEFINE m == Len(checkpoints)
  <1> SUFFICES ASSUME ~ HistoryFull', NEW i \in DOMAIN checkpoints',
                      IsLastEvent(i)'
               PROVE  shipments'[checkpoints'[i].shipment].status
                        = checkpoints'[i].status
    BY DEF StatusIsLastEvent
  <1>1. Logged(n) = Stored(n) /\ ~ HistoryFull
    BY BookingFacts
  <1>2. CASE i \in 1 .. m
    <2>1. /\ checkpoints'[i] = checkpoints[i]
          /\ checkpoints[i].shipment \in 1 .. Len(shipments)
          /\ i \in DOMAIN checkpoints
      BY <1>2, BookingFacts
    <2>2. IsLastEvent(i)
      <3> SUFFICES ASSUME NEW j \in i+1 .. Len(checkpoints)
                   PROVE  checkpoints[j].shipment # checkpoints[i].shipment
        BY DEF IsLastEvent
      <3>1. j \in 1 .. Len(checkpoints) /\ j \in i+1 .. Len(checkpoints')
        BY <1>2, BookingFacts
      <3>2. checkpoints'[j] = checkpoints[j]
        BY <3>1, BookingFacts
      <3> QED BY <2>1, <3>1, <3>2 DEF IsLastEvent
    <2>3. shipments[checkpoints[i].shipment].status = checkpoints[i].status
      BY <1>1, <2>1, <2>2 DEF StatusIsLastEvent
    <2> QED BY <2>1, <2>3, BookingFacts
  <1>3. CASE i \notin 1 .. m
    <2> DEFINE k == i - m
    <2>1. k \in 1 .. Stored(n) /\ i = m + k
      BY <1>1, <1>3, BookingFacts
    <2> HIDE DEF k
    <2>2. /\ checkpoints'[i].shipment = Len(shipments) + k
          /\ checkpoints'[i].status = "ORDER_CREATED"
          /\ shipments'[Len(shipments) + k].status = "ORDER_CREATED"
      BY <1>1, <2>1, BookingEntry
    <2> QED BY <2>2
  <1> QED BY <1>2, <1>3

\* Until the checkpoint table is full, a shipment's status is the status of
\* its most recent checkpoint.
THEOREM StatusFollowsHistory == Spec => []StatusIsLastEvent
  <1>1. ASSUME TypeOK, StatusIsLastEvent, [Next]_vars
        PROVE  StatusIsLastEvent'
    <2>1. CASE Unchanged
      BY <1>1, <2>1 DEF Unchanged, StatusIsLastEvent, IsLastEvent, HistoryFull
    <2>2. CASE Init'
      <3>1. Init' => StatusIsLastEvent'
        BY InitStatus, PTL
      <3> QED BY <2>2, <3>1
    <2> QED BY <1>1, <2>1, <2>2, StepCases, UpdateStatusKept, BookingStatusKept
        DEF StepCase
  <1> QED BY <1>1, InitStatus, TypeCorrect, PTL DEF Spec

--------------------------------------------------------------------------------
(* Histories open with the booking.                                        *)

\* The facts about an update that the remaining invariants need.
LEMMA UpdateFacts ==
    ASSUME TypeOK, NEW table, NEW log, NEW s, NEW status, NEW by, NEW place,
           Update(table, log, s, status, by, place)
    PROVE  /\ Len(shipments') = Len(shipments) /\ Slots' = Slots
           /\ Len(checkpoints) \in Nat /\ Len(shipments) \in Nat
           /\ DOMAIN checkpoints = 1 .. Len(checkpoints)
           /\ Slots = 1 .. Len(shipments)
           /\ \A i \in DOMAIN checkpoints : checkpoints'[i] = checkpoints[i]
           /\ \/ HistoryFull' /\ UNCHANGED checkpoints
              \/ /\ ~ HistoryFull
                 /\ DOMAIN checkpoints' = 1 .. Len(checkpoints) + 1
                 /\ LET c == checkpoints'[Len(checkpoints) + 1]
                    IN  /\ c.shipment = s /\ c.status = status
                        /\ c.note = "update" /\ c.by = by
  <1> DEFINE entry == UpdateEntry(table, s, status, by, place)
  <1>1. /\ shipments' \in Seq(ShipmentRecord)
        /\ Len(shipments') = Len(shipments)
    BY UpdateEffect
  <1>2. /\ Len(checkpoints) \in Nat /\ Len(shipments) \in Nat
        /\ DOMAIN checkpoints = 1 .. Len(checkpoints)
        /\ Slots = 1 .. Len(shipments)
        /\ MaxCheckpoints \in Nat
    BY Tables, Capacity DEF TableTypes
  <1>3. Slots' = Slots
    BY <1>1, <1>2 DEF Slots
  <1>4. CASE HistoryFull /\ UNCHANGED checkpoints
    BY <1>1, <1>2, <1>3, <1>4 DEF HistoryFull
  <1>5. CASE ~ (HistoryFull /\ UNCHANGED checkpoints)
    <2>1. /\ Len(checkpoints) < MaxCheckpoints
          /\ checkpoints' \in Seq(CheckpointRecord)
          /\ Len(checkpoints') = Len(checkpoints) + 1
          /\ \A i \in 1 .. Len(checkpoints) : checkpoints'[i] = checkpoints[i]
          /\ checkpoints'[Len(checkpoints) + 1] = entry
      BY <1>5, UpdateHistory
    <2>2. /\ entry.shipment = s /\ entry.status = status
          /\ entry.note = "update" /\ entry.by = by
      BY DEF UpdateEntry
    <2>3. ~ HistoryFull
      <3>1. ASSUME NEW a \in Nat, NEW b \in Nat, a < b
            PROVE  a # b
        BY <3>1
      <3> QED BY <1>2, <2>1, <3>1 DEF HistoryFull
    <2>4. DOMAIN checkpoints' = 1 .. Len(checkpoints) + 1
      BY <2>1
    <2> HIDE DEF entry
    <2> QED BY <1>1, <1>2, <1>3, <2>1, <2>2, <2>3, <2>4
  <1> QED BY <1>4, <1>5

OpensWithBooking(s) ==
    \E i \in DOMAIN checkpoints :
        /\ checkpoints[i].shipment = s
        /\ checkpoints[i].note = "booking"
        /\ \A j \in 1 .. i-1 : checkpoints[j].shipment # s

\* An opening entry stays the opening entry when entries are only appended.
LEMMA OpeningKept ==
    ASSUME NEW s, OpensWithBooking(s),
           Len(checkpoints) \in Nat, DOMAIN checkpoints = 1 .. Len(checkpoints),
           DOMAIN checkpoints \subseteq DOMAIN checkpoints',
           \A i \in DOMAIN checkpoints : checkpoints'[i] = checkpoints[i]
    PROVE  OpensWithBooking(s)'
  <1> PICK i \in DOMAIN checkpoints :
            /\ checkpoints[i].shipment = s
            /\ checkpoints[i].note = "booking"
            /\ \A j \in 1 .. i-1 : checkpoints[j].shipment # s
    BY DEF OpensWithBooking
  <1>1. \A j \in 1 .. i-1 : checkpoints'[j] = checkpoints[j]
    OBVIOUS
  <1> QED BY <1>1 DEF OpensWithBooking

LEMMA UpdateOpeningKept ==
    ASSUME TypeOK, HistoryOpensWithBooking,
           NEW table, NEW log, NEW s, NEW status, NEW by, NEW place,
           Update(table, log, s, status, by, place)
    PROVE  HistoryOpensWithBooking'
  <1> SUFFICES ASSUME ~ HistoryFull',
                      NEW r \in Len(SeedShipments) + 1 .. Len(shipments')
               PROVE  OpensWithBooking(r)'
    BY DEF HistoryOpensWithBooking, OpensWithBooking
  <1>1. /\ ~ HistoryFull
        /\ Len(checkpoints) \in Nat /\ DOMAIN checkpoints = 1 .. Len(checkpoints)
        /\ DOMAIN checkpoints' = 1 .. Len(checkpoints) + 1
        /\ \A i \in DOMAIN checkpoints : checkpoints'[i] = checkpoints[i]
        /\ Len(shipments') = Len(shipments)
    BY UpdateFacts
  <1>2. OpensWithBooking(r)
    BY <1>1 DEF HistoryOpensWithBooking, OpensWithBooking
  <1>3. DOMAIN checkpoints \subseteq DOMAIN checkpoints'
    BY <1>1
  <1> QED BY <1>1, <1>2, <1>3, OpeningKept

LEMMA BookingOpeningKept ==
    ASSUME TypeOK, HistoryOpensWithBooking,
           NEW n, NEW caller, NEW origin, NEW ids,
           Booking(n, caller, origin, ids)
    PROVE  HistoryOpensWithBooking'
  <1> SUFFICES ASSUME ~ HistoryFull',
                      NEW r \in Len(SeedShipments) + 1 .. Len(shipments')
               PROVE  OpensWithBooking(r)'
    BY DEF HistoryOpensWithBooking, OpensWithBooking
  <1>1. /\ ~ HistoryFull /\ Logged(n) = Stored(n) /\ Stored(n) \in Nat
        /\ Len(checkpoints) \in Nat /\ DOMAIN checkpoints = 1 .. Len(checkpoints)
        /\ DOMAIN checkpoints' = 1 .. Len(checkpoints) + Stored(n)
        /\ \A i \in DOMAIN checkpoints : checkpoints'[i] = checkpoints[i]
        /\ Len(shipments) \in Nat
        /\ Len(shipments') = Len(shipments) + Stored(n)
        /\ \A i \in 1 .. Len(checkpoints) :
              checkpoints[i].shipment \in 1 .. Len(shipments)
    BY BookingFacts
  <1>2. r \in Nat
    BY <1>1, SeedTypes
  <1>3. CASE r <= Len(shipments)
    <2>1. OpensWithBooking(r)
      BY <1>1, <1>2, <1>3, SeedTypes DEF HistoryOpensWithBooking, OpensWithBooking
    <2>2. DOMAIN checkpoints \subseteq DOMAIN checkpoints'
      BY <1>1
    <2> QED BY <1>1, <2>1, <2>2, OpeningKept
  <1>4. CASE ~ (r <= Len(shipments))
    <2> DEFINE k == r - Len(shipments)
               m == Len(checkpoints)
    <2>1. k \in 1 .. Stored(n) /\ r = Len(shipments) + k /\ k \in Nat
      BY <1>1, <1>2, <1>4, SeedTypes
    <2> HIDE DEF k
    <2>2. \A q \in 1 .. Stored(n) :
             /\ checkpoints'[m + q].shipment = Len(shipments) + q
             /\ checkpoints'[m + q].note = "booking"
      BY <1>1, BookingEntry
    <2>3. m + k \in DOMAIN checkpoints'
      BY <1>1, <2>1
    <2>4. ASSUME NEW j \in 1 .. (m + k) - 1
          PROVE  checkpoints'[j].shipment # r
      <3>1. CASE j <= m
        <4>1. j \in 1 .. Len(checkpoints)
          BY <1>1, <2>1, <3>1
        <4>2. checkpoints'[j].shipment \in 1 .. Len(shipments)
          BY <1>1, <4>1
        <4> QED BY <1>1, <1>4, <4>2
      <3>2. CASE ~ (j <= m)
        <4> DEFINE q == j - m
        <4>1. q \in 1 .. Stored(n) /\ j = m + q /\ q < k
          <5>1. /\ m \in Nat /\ k \in Nat /\ k <= Stored(n)
                /\ Stored(n) \in Nat
            BY <1>1, <2>1
          <5> HIDE DEF m
          <5> QED BY <3>2, <5>1
        <4> HIDE DEF q
        <4>2. checkpoints'[j].shipment = Len(shipments) + q
          BY <2>2, <4>1
        <4> QED BY <1>1, <2>1, <4>1, <4>2
      <3> QED BY <3>1, <3>2
    <2>5. checkpoints'[m + k].shipment = r /\ checkpoints'[m + k].note = "booking"
      BY <2>1, <2>2
    <2> HIDE DEF m
    <2> QED BY <2>3, <2>4, <2>5 DEF OpensWithBooking
  <1> QED BY <1>3, <1>4

\* Until the checkpoint table is full, the history of every shipment booked
\* since boot opens with the checkpoint of its booking.
THEOREM HistoriesOpenWithBooking == Spec => []HistoryOpensWithBooking
  <1>1. Init => HistoryOpensWithBooking
    <2>1. Len(SeedShipments) + 1 .. Len(SeedShipments) = {}
      BY SeedTypes
    <2> QED BY <2>1 DEF Init, HistoryOpensWithBooking
  <1>2. ASSUME TypeOK, HistoryOpensWithBooking, [Next]_vars
        PROVE  HistoryOpensWithBooking'
    <2>1. CASE Unchanged
      BY <1>2, <2>1 DEF Unchanged, HistoryOpensWithBooking, HistoryFull
    <2>2. CASE Init'
      <3>1. Init' => HistoryOpensWithBooking'
        BY <1>1, PTL
      <3> QED BY <2>2, <3>1
    <2> QED BY <1>2, <2>1, <2>2, StepCases, UpdateOpeningKept, BookingOpeningKept
        DEF StepCase
  <1> QED BY <1>1, <1>2, TypeCorrect, PTL DEF Spec

--------------------------------------------------------------------------------
(* Proof of delivery and the authority behind updates.                     *)

ReportedDelivered(s) ==
    \E i \in DOMAIN checkpoints :
        /\ checkpoints[i].shipment = s
        /\ checkpoints[i].status = "DELIVERED"

HasProof(s) == shipments[s].signature # None \/ shipments[s].image # None

LEMMA DeliveryKept ==
    ASSUME NEW s, ReportedDelivered(s),
           DOMAIN checkpoints \subseteq DOMAIN checkpoints',
           \A i \in DOMAIN checkpoints : checkpoints'[i] = checkpoints[i]
    PROVE  ReportedDelivered(s)'
  BY DEF ReportedDelivered

LEMMA UpdateProofKept ==
    ASSUME TypeOK, ProofImpliesDelivery,
           NEW table, NEW log, NEW s, NEW status, NEW by, NEW place,
           Update(table, log, s, status, by, place)
    PROVE  ProofImpliesDelivery'
  <1> SUFFICES ASSUME ~ HistoryFull', NEW r \in Slots', HasProof(r)'
               PROVE  ReportedDelivered(r)'
    BY DEF ProofImpliesDelivery, HasProof, ReportedDelivered
  <1>1. /\ ~ HistoryFull
        /\ Len(checkpoints) \in Nat /\ DOMAIN checkpoints = 1 .. Len(checkpoints)
        /\ DOMAIN checkpoints' = 1 .. Len(checkpoints) + 1
        /\ \A i \in DOMAIN checkpoints : checkpoints'[i] = checkpoints[i]
        /\ checkpoints'[Len(checkpoints) + 1].shipment = s
        /\ checkpoints'[Len(checkpoints) + 1].status = status
        /\ Slots' = Slots
    BY UpdateFacts
  <1>2. DOMAIN checkpoints \subseteq DOMAIN checkpoints'
    BY <1>1
  <1>3. CASE r = s /\ status = "DELIVERED"
    <2>1. Len(checkpoints) + 1 \in DOMAIN checkpoints'
      BY <1>1
    <2> QED BY <1>1, <1>3, <2>1 DEF ReportedDelivered
  <1>4. CASE ~ (r = s /\ status = "DELIVERED")
    <2>1. /\ shipments'[r].signature = shipments[r].signature
          /\ shipments'[r].image = shipments[r].image
      BY <1>1, <1>4, UpdateEffect
    <2>2. HasProof(r)
      BY <2>1 DEF HasProof
    <2>3. ReportedDelivered(r)
      BY <1>1, <2>2 DEF ProofImpliesDelivery, HasProof, ReportedDelivered
    <2> QED BY <1>1, <1>2, <2>3, DeliveryKept
  <1> QED BY <1>3, <1>4

LEMMA BookingProofKept ==
    ASSUME TypeOK, ProofImpliesDelivery,
           NEW n, NEW caller, NEW origin, NEW ids,
           Booking(n, caller, origin, ids)
    PROVE  ProofImpliesDelivery'
  <1> SUFFICES ASSUME ~ HistoryFull', NEW r \in Slots', HasProof(r)'
               PROVE  ReportedDelivered(r)'
    BY DEF ProofImpliesDelivery, HasProof, ReportedDelivered
  <1>1. /\ ~ HistoryFull /\ Stored(n) \in Nat /\ Logged(n) \in Nat
        /\ Len(shipments) \in Nat /\ Len(checkpoints) \in Nat
        /\ DOMAIN checkpoints = 1 .. Len(checkpoints)
        /\ DOMAIN checkpoints' = 1 .. Len(checkpoints) + Logged(n)
        /\ \A i \in DOMAIN checkpoints : checkpoints'[i] = checkpoints[i]
        /\ Slots' = 1 .. Len(shipments) + Stored(n)
        /\ \A q \in 1 .. Len(shipments) : shipments'[q] = shipments[q]
    BY BookingFacts
  <1>2. DOMAIN checkpoints \subseteq DOMAIN checkpoints'
    BY <1>1
  <1>3. CASE r <= Len(shipments)
    <2>1. r \in Slots /\ shipments'[r] = shipments[r]
      BY <1>1, <1>3, Tables DEF TableTypes
    <2>2. HasProof(r)
      BY <2>1 DEF HasProof
    <2>3. ReportedDelivered(r)
      BY <1>1, <2>1, <2>2 DEF ProofImpliesDelivery, HasProof, ReportedDelivered
    <2> QED BY <1>1, <1>2, <2>3, DeliveryKept
  <1>4. CASE ~ (r <= Len(shipments))
    <2> DEFINE k == r - Len(shipments)
    <2>1. k \in 1 .. Stored(n) /\ r = Len(shipments) + k
      BY <1>1, <1>4
    <2> HIDE DEF k
    <2>2. shipments'[r].signature = None /\ shipments'[r].image = None
      BY <2>1, BookingEntry
    <2> QED BY <2>2 DEF HasProof
  <1> QED BY <1>3, <1>4

\* A shipment with proof-of-delivery data has been reported delivered, until
\* the checkpoint table is full.
THEOREM ProofsFollowDelivery == Spec => []ProofImpliesDelivery
  <1>1. Init => ProofImpliesDelivery
    <2> SUFFICES ASSUME Init, NEW s \in Slots PROVE ~ HasProof(s)
      BY DEF ProofImpliesDelivery, HasProof
    <2>1. s \in 1 .. 4
      BY SeedTypes DEF Init, Slots
    <2> QED BY <2>1, SeedFields DEF Init, HasProof
  <1>2. ASSUME TypeOK, ProofImpliesDelivery, [Next]_vars
        PROVE  ProofImpliesDelivery'
    <2>1. CASE Unchanged
      BY <1>2, <2>1 DEF Unchanged, ProofImpliesDelivery, HistoryFull, Slots
    <2>2. CASE Init'
      <3>1. Init' => ProofImpliesDelivery'
        BY <1>1, PTL
      <3> QED BY <2>2, <3>1
    <2> QED BY <1>2, <2>1, <2>2, StepCases, UpdateProofKept, BookingProofKept
        DEF StepCase
  <1> QED BY <1>1, <1>2, TypeCorrect, PTL DEF Spec

\* Entry i of the tracking history, if an update, was made by staff.
StaffEntry(i) ==
    checkpoints[i].note = "update" =>
        \E c \in Callers : c.id = checkpoints[i].by /\ c.role <= DELIVERY_AGENT

LEMMA StaffEntryKept ==
    ASSUME NEW i, StaffEntry(i), checkpoints'[i] = checkpoints[i]
    PROVE  StaffEntry(i)'
  BY DEF StaffEntry

LEMMA UpdateStaffKept ==
    ASSUME TypeOK, UpdatesAreByStaff,
           NEW table, NEW log, NEW s, NEW status, NEW by, NEW place,
           Update(table, log, s, status, by, place)
    PROVE  UpdatesAreByStaff'
  <1> SUFFICES ASSUME NEW i \in DOMAIN checkpoints'
               PROVE  StaffEntry(i)'
    BY DEF UpdatesAreByStaff, StaffEntry
  <1>1. /\ Len(checkpoints) \in Nat /\ DOMAIN checkpoints = 1 .. Len(checkpoints)
        /\ \A j \in DOMAIN checkpoints : checkpoints'[j] = checkpoints[j]
        /\ \/ UNCHANGED checkpoints
           \/ /\ DOMAIN checkpoints' = 1 .. Len(checkpoints) + 1
              /\ checkpoints'[Len(checkpoints) + 1].by = by
    BY UpdateFacts
  <1>2. CASE i \in DOMAIN checkpoints
    BY <1>1, <1>2, StaffEntryKept DEF UpdatesAreByStaff, StaffEntry
  <1>3. CASE i \notin DOMAIN checkpoints
    <2>1. i = Len(checkpoints) + 1 /\ checkpoints'[i].by = by
      BY <1>1, <1>3
    <2>2. \E c \in Callers : c.id = by /\ c.role <= DELIVERY_AGENT
      BY DEF Update, Staff
    <2> QED BY <2>1, <2>2 DEF StaffEntry
  <1> QED BY <1>2, <1>3

LEMMA BookingStaffKept ==
    ASSUME TypeOK, UpdatesAreByStaff,
           NEW n, NEW caller, NEW origin, NEW ids,
           Booking(n, caller, origin, ids)
    PROVE  UpdatesAreByStaff'
  <1> SUFFICES ASSUME NEW i \in DOMAIN checkpoints'
               PROVE  StaffEntry(i)'
    BY DEF UpdatesAreByStaff, StaffEntry
  <1>1. /\ Logged(n) \in Nat /\ Len(checkpoints) \in Nat
        /\ DOMAIN checkpoints = 1 .. Len(checkpoints)
        /\ DOMAIN checkpoints' = 1 .. Len(checkpoints) + Logged(n)
        /\ \A j \in DOMAIN checkpoints : checkpoints'[j] = checkpoints[j]
    BY BookingFacts
  <1>2. CASE i \in DOMAIN checkpoints
    BY <1>1, <1>2, StaffEntryKept DEF UpdatesAreByStaff, StaffEntry
  <1>3. CASE i \notin DOMAIN checkpoints
    <2> DEFINE k == i - Len(checkpoints)
    <2>1. k \in 1 .. Logged(n) /\ i = Len(checkpoints) + k
      BY <1>1, <1>3
    <2> HIDE DEF k
    <2>2. checkpoints'[i].note = "booking"
      BY <2>1, BookingEntry
    <2> QED BY <2>2 DEF StaffEntry
  <1> QED BY <1>2, <1>3

\* Every status change in the tracking history was made by a caller with at
\* least the role of a delivery agent.
THEOREM OnlyStaffUpdates == Spec => []UpdatesAreByStaff
  <1>1. Init => UpdatesAreByStaff
    BY SeedTypes, SeedFields DEF Init, UpdatesAreByStaff
  <1>2. ASSUME TypeOK, UpdatesAreByStaff, [Next]_vars
        PROVE  UpdatesAreByStaff'
    <2>1. CASE Unchanged
      BY <1>2, <2>1 DEF Unchanged, UpdatesAreByStaff
    <2>2. CASE Init'
      <3>1. Init' => UpdatesAreByStaff'
        BY <1>1, PTL
      <3> QED BY <2>2, <3>1
    <2> QED BY <1>2, <2>1, <2>2, StepCases, UpdateStaffKept, BookingStaffKept
        DEF StepCase
  <1> QED BY <1>1, <1>2, TypeCorrect, PTL DEF Spec

--------------------------------------------------------------------------------
(* What one request leaves in the tables, and in whose name.               *)

RequestEffect(c) ==
    /\ \A s \in Slots : /\ s \in DOMAIN shipments'
                         /\ shipments'[s].sender = shipments[s].sender
                         /\ shipments'[s].agent = shipments[s].agent
    /\ \A s \in DOMAIN shipments' \ Slots :
            shipments'[s].sender = c.id /\ shipments'[s].agent = None
    /\ \A i \in DOMAIN checkpoints :
            i \in DOMAIN checkpoints' /\ checkpoints'[i] = checkpoints[i]
    /\ \A i \in DOMAIN checkpoints' \ DOMAIN checkpoints :
            /\ checkpoints'[i].by = c.id
            /\ checkpoints'[i].note = "update" => c \in Staff
    /\ \A i \in DOMAIN audit' :
            \/ audit'[i].actor = c.id
            \/ i \in DOMAIN audit /\ audit'[i] = audit[i]

LEMMA UpdateLeaves ==
    ASSUME TypeOK, NEW c, StaffUpdate(c)
    PROVE  RequestEffect(c)
  <1>1. PICK table, s, status, place :
            /\ Update(table, audit, s, status, c.id, place)
            /\ table[s].sender = shipments[s].sender
            /\ table[s].agent = shipments[s].agent
    BY DEF StaffUpdate
  <1>2. c \in Staff
    BY DEF StaffUpdate
  <1>3. TableTypes
    BY Tables
  <1>4. /\ table \in Seq(ShipmentRecord) /\ Len(table) = Len(shipments)
        /\ s \in 1 .. Len(table) /\ s \in Slots
        /\ \A r \in Slots : r # s => table[r] = shipments[r]
    BY <1>1, <1>3 DEF Update, TableTypes
  <1>5. /\ DOMAIN shipments' = Slots
        /\ \A r \in Slots : /\ shipments'[r].sender = shipments[r].sender
                            /\ shipments'[r].agent = shipments[r].agent
    <2>1. table[s] \in ShipmentRecord
      BY <1>4, ElementOfSeq
    <2> DEFINE record == [table[s] EXCEPT !.status = status]
    <2>2. record.sender = table[s].sender /\ record.agent = table[s].agent
      BY <2>1 DEF ShipmentRecord
    <2>3. shipments' = [table EXCEPT ![s] = record]
      BY <1>1 DEF Update, UpdateStatus
    <2> HIDE DEF record
    <2>4. DOMAIN table = Slots
      BY <1>3, <1>4 DEF TableTypes
    <2>5. /\ DOMAIN shipments' = Slots
          /\ \A r \in Slots : shipments'[r] = IF r = s THEN record ELSE table[r]
      BY <2>3, <2>4
    <2> QED BY <1>1, <1>4, <2>2, <2>5
  <1>6. /\ \A i \in DOMAIN checkpoints :
              i \in DOMAIN checkpoints' /\ checkpoints'[i] = checkpoints[i]
        /\ \A i \in DOMAIN checkpoints' \ DOMAIN checkpoints : checkpoints'[i].by = c.id
    <2> DEFINE entry == UpdateEntry(table, s, status, c.id, place)
    <2>1. entry.by = c.id
      BY DEF UpdateEntry
    <2>2. \/ UNCHANGED checkpoints
          \/ /\ checkpoints' \in Seq(CheckpointRecord)
             /\ Len(checkpoints') = Len(checkpoints) + 1
             /\ \A i \in 1 .. Len(checkpoints) : checkpoints'[i] = checkpoints[i]
             /\ checkpoints'[Len(checkpoints) + 1] = entry
      BY <1>1, UpdateHistory
    <2> HIDE DEF entry
    <2> QED BY <1>3, <2>1, <2>2 DEF TableTypes
  <1>7. \A i \in DOMAIN audit' :
            \/ audit'[i].actor = c.id
            \/ i \in DOMAIN audit /\ audit'[i] = audit[i]
    <2> DEFINE entry == [actor |-> c.id, action |-> "STATUS_CHANGE",
                         shipment |-> s, detail |-> status]
    <2>1. entry.actor = c.id
      OBVIOUS
    <2>2. audit' = LogAudit(audit, entry)
      BY <1>1 DEF Update, UpdateStatus
    <2> HIDE DEF entry
    <2>3. audit' = audit \/ audit' = Append(audit, entry)
      BY <2>2 DEF LogAudit
    <2> QED BY <1>3, <2>1, <2>3 DEF TableTypes
  <1> QED BY <1>2, <1>5, <1>6, <1>7 DEF RequestEffect

LEMMA BookingLeaves ==
    ASSUME TypeOK, NEW n, NEW c, NEW origin, NEW ids, Booking(n, c, origin, ids)
    PROVE  RequestEffect(c)
  <1>1. TableTypes
    BY Tables
  <1>2. Stored(n) \in Nat /\ Logged(n) \in Nat
    BY BookingCounts DEF Booking
  <1>3. /\ DOMAIN shipments' = 1 .. Len(shipments) + Stored(n)
        /\ \A s \in 1 .. Len(shipments) : shipments'[s] = shipments[s]
        /\ \A i \in 1 .. Stored(n) :
              /\ shipments'[Len(shipments) + i].sender = c.id
              /\ shipments'[Len(shipments) + i].agent = None
    <2>1. /\ shipments' \in Seq(ShipmentRecord)
          /\ Len(shipments') = Len(shipments) + Stored(n)
          /\ \A s \in 1 .. Len(shipments) : shipments'[s] = shipments[s]
          /\ \A i \in 1 .. Stored(n) : shipments'[Len(shipments) + i] =
                    NewShipment(c, origin, ids[i])
      BY BookingShipments
    <2>2. \A i : /\ NewShipment(c, origin, ids[i]).sender = c.id
                /\ NewShipment(c, origin, ids[i]).agent = None
      BY DEF NewShipment
    <2>3. DOMAIN shipments' = 1 .. Len(shipments')
      BY <2>1
    <2> QED BY <2>1, <2>2, <2>3
  <1>4. \A s \in DOMAIN shipments' \ Slots :
            shipments'[s].sender = c.id /\ shipments'[s].agent = None
    <2> TAKE s \in DOMAIN shipments' \ Slots
    <2>1. s - Len(shipments) \in 1 .. Stored(n)
      BY <1>1, <1>2, <1>3 DEF TableTypes
    <2>2. s = Len(shipments) + (s - Len(shipments))
      BY <1>1, <1>2, <1>3 DEF TableTypes
    <2> QED BY <1>3, <2>1, <2>2
  <1>5. /\ DOMAIN checkpoints' = 1 .. Len(checkpoints) + Logged(n)
        /\ \A i \in 1 .. Len(checkpoints) : checkpoints'[i] = checkpoints[i]
        /\ \A i \in 1 .. Logged(n) :
              /\ checkpoints'[Len(checkpoints) + i].by = c.id
              /\ checkpoints'[Len(checkpoints) + i].note = "booking"
    <2>1. /\ checkpoints' \in Seq(CheckpointRecord)
          /\ Len(checkpoints') = Len(checkpoints) + Logged(n)
          /\ \A i \in 1 .. Len(checkpoints) : checkpoints'[i] = checkpoints[i]
          /\ \A i \in 1 .. Logged(n) : checkpoints'[Len(checkpoints) + i] =
                    BookingCheckpoint(Len(shipments) + i, c, origin)
      BY BookingHistory
    <2>2. \A i : /\ BookingCheckpoint(i, c, origin).by = c.id
                /\ BookingCheckpoint(i, c, origin).note = "booking"
      BY DEF BookingCheckpoint
    <2>3. DOMAIN checkpoints' = 1 .. Len(checkpoints')
      BY <2>1
    <2> QED BY <2>1, <2>2, <2>3
  <1>6. \A i \in DOMAIN checkpoints' \ DOMAIN checkpoints :
            checkpoints'[i].by = c.id /\ checkpoints'[i].note = "booking"
    <2> TAKE i \in DOMAIN checkpoints' \ DOMAIN checkpoints
    <2>1. i - Len(checkpoints) \in 1 .. Logged(n)
      BY <1>1, <1>2, <1>5 DEF TableTypes
    <2>2. i = Len(checkpoints) + (i - Len(checkpoints))
      BY <1>1, <1>2, <1>5 DEF TableTypes
    <2> QED BY <1>5, <2>1, <2>2
  <1>7. audit' = audit
    BY DEF Booking, StoreBookings
  <1> QED BY <1>1, <1>2, <1>3, <1>4, <1>5, <1>6, <1>7 DEF RequestEffect, TableTypes

LEMMA RequestLeaves ==
    ASSUME TypeOK, NEW c \in Anyone, RequestBy(c)
    PROVE  RequestEffect(c)
  <1>1. RequestCase(c)
    BY RequestCases
  <1>2. CASE Unchanged
    BY <1>2 DEF Unchanged, RequestEffect, Slots
  <1> QED BY <1>1, <1>2, UpdateLeaves, BookingLeaves DEF RequestCase

-------------------------------------------------------------------------------
(***************************************************************************)
(* The shipment store implements the bounded event ledger, for tables of   *)
(* any size: a refusal is a stuttering step, an update is one Record, the  *)
(* bookings of a request are one Book, a restart is a Reset.  With them,   *)
(* what the store answers, writes to the audit log and finds by tracking   *)
(* id: the theorems that need more than the types of the tables.           *)
(***************************************************************************)
EventRecord == [shipment : Nat, status : Statuses]

current == StatusesOf(shipments)
events  == EventsOf(checkpoints)

EventOf(c) == [shipment |-> c.shipment, status |-> c.status]

LEMMA EventsType ==
    ASSUME NEW table \in Seq(CheckpointRecord)
    PROVE  /\ EventsOf(table) \in Seq(EventRecord)
           /\ Len(EventsOf(table)) = Len(table)
           /\ \A i \in 1 .. Len(table) : EventsOf(table)[i] = EventOf(table[i])
  <1>1. Len(table) \in Nat /\ DOMAIN table = 1 .. Len(table)
    OBVIOUS
  <1>2. ASSUME NEW i \in 1 .. Len(table)
        PROVE  EventOf(table[i]) \in EventRecord
    <2>1. table[i] \in CheckpointRecord
      BY ElementOfSeq
    <2> QED BY <2>1 DEF CheckpointRecord, EventRecord, EventOf
  <1>3. EventsOf(table) = [i \in 1 .. Len(table) |-> EventOf(table[i])]
    BY <1>1 DEF EventsOf, EventOf
  <1> DEFINE es == [i \in 1 .. Len(table) |-> EventOf(table[i])]
  <1>4. es \in [1 .. Len(table) -> EventRecord]
    BY <1>2
  <1>5. es \in Seq(EventRecord)
    <2> HIDE DEF es
    <2> QED BY <1>1, <1>4, SeqDef
  <1>6. Len(es) = Len(table)
    <2>1. DOMAIN es = 1 .. Len(table)
      OBVIOUS
    <2> HIDE DEF es
    <2> QED BY <1>1, <1>5, <2>1
  <1>7. \A i \in 1 .. Len(table) : es[i] = EventOf(table[i])
    OBVIOUS
  <1> HIDE DEF es
  <1> QED BY <1>3, <1>5, <1>6, <1>7 DEF es

LEMMA InitRefines == Init => Ledger!LedgerInit
  BY DEF Init, Ledger!LedgerInit

LEMMA UpdateCurrent ==
    ASSUME TypeOK, NEW table, NEW log, NEW s, NEW status, NEW by, NEW place,
           Update(table, log, s, status, by, place)
    PROVE  current' = [current EXCEPT ![s] = status]
  <1>1. /\ shipments' \in Seq(ShipmentRecord)
        /\ Len(shipments') = Len(shipments)
        /\ s \in Slots
        /\ \A r \in Slots : r # s => shipments'[r] = shipments[r]
        /\ shipments'[s].status = status
    BY UpdateEffect
  <1>2. DOMAIN shipments' = Slots /\ DOMAIN shipments = Slots
    BY <1>1, Tables DEF TableTypes, Slots
  <1> DEFINE new == [r \in Slots |-> shipments'[r].status]
             old == [r \in Slots |-> shipments[r].status]
  <1>3. current' = new /\ current = old
    BY <1>2 DEF current, StatusesOf
  <1>4. new = [old EXCEPT ![s] = status]
    BY <1>1
  <1> QED BY <1>3, <1>4

\* The part of a sequence of events that the ledger keeps.
LEMMA KeptIs ==
    ASSUME NEW all \in Seq(EventRecord), NEW new \in Seq(EventRecord),
           Len(new) = Smaller(Len(all), MaxCheckpoints),
           \A i \in 1 .. Len(new) : new[i] = all[i]
    PROVE  new = Ledger!Kept(all)
  <1>1. Len(all) \in Nat /\ MaxCheckpoints \in Nat
    BY Capacity
  <1>2. CASE Len(all) <= MaxCheckpoints
    <2>1. Ledger!Kept(all) = all /\ Len(new) = Len(all)
      BY <1>2 DEF Ledger!Kept, Smaller
    <2>2. new = all
      BY <2>1, SeqEqual
    <2> QED BY <2>1, <2>2
  <1>3. CASE ~ (Len(all) <= MaxCheckpoints)
    <2> DEFINE cut == SubSeq(all, 1, MaxCheckpoints)
    <2>1. Ledger!Kept(all) = cut /\ Len(new) = MaxCheckpoints
      BY <1>3 DEF Ledger!Kept, Smaller
    <2>2. /\ cut \in Seq(EventRecord)
          /\ Len(cut) = MaxCheckpoints
          /\ \A i \in 1 .. MaxCheckpoints : cut[i] = all[i]
      BY <1>1, <1>3
    <2> HIDE DEF cut
    <2>3. cut = new
      BY <2>1, <2>2, SeqEqual
    <2> QED BY <2>1, <2>3
  <1> QED BY <1>2, <1>3

LEMMA UpdateEvents ==
    ASSUME TypeOK, TypeOK',
           NEW table, NEW log, NEW s, NEW status, NEW by, NEW place,
           Update(table, log, s, status, by, place)
    PROVE  events' = Ledger!Kept(Append(events, Ledger!Event(s, status)))
  <1> DEFINE n == Len(checkpoints)
             e == Ledger!Event(s, status)
             entry == UpdateEntry(table, s, status, by, place)
  <1>1. /\ events \in Seq(EventRecord) /\ Len(events) = n
        /\ \A i \in 1 .. n : events[i] = EventOf(checkpoints[i])
        /\ events' \in Seq(EventRecord) /\ Len(events') = Len(checkpoints')
        /\ \A i \in 1 .. Len(checkpoints') : events'[i] = EventOf(checkpoints'[i])
        /\ n \in Nat /\ MaxCheckpoints \in Nat
    BY EventsType, Tables, Capacity DEF TypeOK, events, TableTypes
  <1>2. e \in EventRecord /\ EventOf(entry) = e
    <2>1. s \in Nat /\ status \in Statuses
      BY UpdateEffect, SlotType
    <2> QED BY <2>1 DEF Ledger!Event, EventRecord, EventOf, UpdateEntry
  <1> HIDE DEF e, entry
  <1>3. /\ Append(events, e) \in Seq(EventRecord)
        /\ Len(Append(events, e)) = n + 1
        /\ \A i \in 1 .. n : Append(events, e)[i] = events[i]
        /\ Append(events, e)[n + 1] = e
    BY <1>1, <1>2, AppendProperties
  <1>4. CASE HistoryFull /\ UNCHANGED checkpoints
    <2>1. Len(events') = Smaller(n + 1, MaxCheckpoints)
      BY <1>1, <1>4 DEF HistoryFull, Smaller
    <2>2. \A i \in 1 .. Len(events') : events'[i] = Append(events, e)[i]
      BY <1>1, <1>3, <1>4
    <2> QED BY <1>1, <1>3, <2>1, <2>2, KeptIs DEF e
  <1>5. CASE ~ (HistoryFull /\ UNCHANGED checkpoints)
    <2>1. /\ n < MaxCheckpoints
          /\ Len(checkpoints') = n + 1
          /\ \A i \in 1 .. n : checkpoints'[i] = checkpoints[i]
          /\ checkpoints'[n + 1] = entry
      BY <1>5, UpdateHistory DEF entry
    <2>2. Len(events') = Smaller(n + 1, MaxCheckpoints)
      BY <1>1, <2>1 DEF Smaller
    <2>3. \A i \in 1 .. Len(events') : events'[i] = Append(events, e)[i]
      <3> SUFFICES ASSUME NEW i \in 1 .. n + 1
                   PROVE  events'[i] = Append(events, e)[i]
        BY <1>1, <2>1
      <3>1. CASE i = n + 1
        BY <1>1, <1>2, <1>3, <2>1, <3>1
      <3>2. CASE i # n + 1
        <4>1. i \in 1 .. n
          BY <1>1, <3>2
        <4> QED BY <1>1, <1>3, <2>1, <4>1
      <3> QED BY <3>1, <3>2
    <2> QED BY <1>1, <1>3, <2>2, <2>3, KeptIs DEF e
  <1> QED BY <1>4, <1>5

LEMMA BookingCurrent ==
    ASSUME TypeOK, NEW n, NEW caller, NEW origin, NEW ids,
           Booking(n, caller, origin, ids)
    PROVE  current' = current \o [i \in 1 .. Stored(n) |-> "ORDER_CREATED"]
  <1> DEFINE more == [i \in 1 .. Stored(n) |-> "ORDER_CREATED"]
             new == [r \in 1 .. Len(shipments') |-> shipments'[r].status]
             old == [r \in 1 .. Len(shipments) |-> shipments[r].status]
  <1>1. /\ Stored(n) \in Nat /\ Len(shipments) \in Nat
        /\ Len(shipments') = Len(shipments) + Stored(n)
        /\ \A r \in 1 .. Len(shipments) : shipments'[r] = shipments[r]
        /\ \A k \in 1 .. Stored(n) :
              shipments'[Len(shipments) + k].status = "ORDER_CREATED"
        /\ DOMAIN shipments = 1 .. Len(shipments)
    BY BookingFacts, BookingEntry, Tables DEF TableTypes, Slots
  <1>2. DOMAIN shipments' = 1 .. Len(shipments')
    BY BookingShipments
  <1>3. current' = new /\ current = old
    BY <1>1, <1>2 DEF current, StatusesOf
  <1>4. old \in Seq(Statuses) /\ Len(old) = Len(shipments)
    <2>1. old \in [1 .. Len(shipments) -> Statuses]
      <3>1. \A r \in 1 .. Len(shipments) : shipments[r].status \in Statuses
        BY <1>1, SlotType DEF Slots, ShipmentRecord
      <3> QED BY <3>1
    <2> HIDE DEF old
    <2>2. old \in Seq(Statuses)
      BY <1>1, <2>1, SeqDef
    <2> QED BY <1>1, <2>1, <2>2
  <1>5. more \in Seq(Statuses) /\ Len(more) = Stored(n)
    <2>1. more \in [1 .. Stored(n) -> Statuses]
      BY DEF Statuses
    <2> HIDE DEF more
    <2>2. more \in Seq(Statuses)
      BY <1>1, <2>1, SeqDef
    <2> QED BY <1>1, <2>1, <2>2
  <1>6. new \in Seq(Statuses) /\ Len(new) = Len(shipments')
    <2>1. shipments' \in Seq(ShipmentRecord) /\ Len(shipments') \in Nat
      BY <1>1, BookingShipments
    <2>2. new \in [1 .. Len(shipments') -> Statuses]
      <3>1. ASSUME NEW r \in 1 .. Len(shipments')
            PROVE  shipments'[r].status \in Statuses
        <4>1. shipments'[r] \in ShipmentRecord
          BY <2>1, ElementOfSeq
        <4> QED BY <4>1 DEF ShipmentRecord
      <3> QED BY <3>1
    <2> HIDE DEF new
    <2>3. new \in Seq(Statuses)
      BY <2>1, <2>2, SeqDef
    <2> QED BY <2>1, <2>2, <2>3
  <1>7. /\ \A r \in 1 .. Len(shipments) : old[r] = shipments[r].status
        /\ \A r \in 1 .. Len(shipments') : new[r] = shipments'[r].status
        /\ \A k \in 1 .. Stored(n) : more[k] = "ORDER_CREATED"
    OBVIOUS
  <1> HIDE DEF old, new, more
  <1>8. /\ old \o more \in Seq(Statuses)
        /\ Len(old \o more) = Len(old) + Len(more)
        /\ \A r \in 1 .. Len(old) : (old \o more)[r] = old[r]
        /\ \A k \in 1 .. Len(more) : (old \o more)[Len(old) + k] = more[k]
    <2>1. old \in Seq(Statuses) /\ more \in Seq(Statuses)
      BY <1>4, <1>5
    <2> QED BY <2>1, AppendAll
  <1>9. ASSUME NEW r \in 1 .. Len(new)
        PROVE  new[r] = (old \o more)[r]
    <2>1. CASE r <= Len(shipments)
      <3>1. r \in 1 .. Len(shipments)
        BY <1>1, <1>6, <2>1
      <3> QED BY <1>1, <1>4, <1>6, <1>7, <1>8, <3>1
    <2>2. CASE ~ (r <= Len(shipments))
      <3> DEFINE k == r - Len(shipments)
      <3>1. k \in 1 .. Stored(n) /\ r = Len(shipments) + k
        BY <1>1, <1>6, <2>2
      <3> HIDE DEF k
      <3>2. new[r] = "ORDER_CREATED"
        BY <1>1, <1>6, <1>7, <3>1
      <3>3. (old \o more)[r] = "ORDER_CREATED"
        BY <1>4, <1>5, <1>7, <1>8, <3>1
      <3> QED BY <3>2, <3>3
    <2> QED BY <2>1, <2>2
  <1>10. Len(new) = Len(old \o more)
    BY <1>1, <1>4, <1>5, <1>6, <1>8
  <1>11. new = old \o more
    BY <1>6, <1>8, <1>9, <1>10, SeqEqual
  <1> QED BY <1>3, <1>11 DEF more

LEMMA BookingEvents ==
    ASSUME TypeOK, TypeOK', NEW n, NEW caller, NEW origin, NEW ids,
           Booking(n, caller, origin, ids)
    PROVE  events' = Ledger!Kept(events \o
               [i \in 1 .. Stored(n) |->
                   Ledger!Event(Len(current) + i, "ORDER_CREATED")])
  <1> DEFINE m == Len(checkpoints)
             more == [i \in 1 .. Stored(n) |->
                         Ledger!Event(Len(current) + i, "ORDER_CREATED")]
  <1>1. /\ events \in Seq(EventRecord) /\ Len(events) = m
        /\ \A i \in 1 .. m : events[i] = EventOf(checkpoints[i])
        /\ events' \in Seq(EventRecord) /\ Len(events') = Len(checkpoints')
        /\ \A i \in 1 .. Len(checkpoints') : events'[i] = EventOf(checkpoints'[i])
        /\ m \in Nat /\ MaxCheckpoints \in Nat
    BY EventsType, Tables, Capacity DEF TypeOK, events, TableTypes
  <1>2. /\ Stored(n) \in Nat /\ Logged(n) \in Nat
        /\ Len(shipments) \in Nat
        /\ Len(checkpoints') = m + Logged(n)
        /\ \A i \in 1 .. m : checkpoints'[i] = checkpoints[i]
    BY BookingFacts
  <1>3. Len(current) = Len(shipments)
    <2> DEFINE old == [r \in 1 .. Len(shipments) |-> shipments[r].status]
    <2>1. current = old
      BY Tables DEF current, StatusesOf, TableTypes, Slots
    <2>2. old \in [1 .. Len(shipments) -> Statuses]
      <3>1. \A r \in 1 .. Len(shipments) : shipments[r].status \in Statuses
        BY SlotType DEF ShipmentRecord
      <3> QED BY <3>1
    <2> HIDE DEF old
    <2>3. old \in Seq(Statuses)
      BY <1>2, <2>2, SeqDef
    <2> QED BY <1>2, <2>1, <2>2, <2>3
  <1>4. more \in [1 .. Stored(n) -> EventRecord]
    <2> SUFFICES ASSUME NEW i \in 1 .. Stored(n)
                 PROVE  Ledger!Event(Len(current) + i, "ORDER_CREATED")
                            \in EventRecord
      OBVIOUS
    <2>1. Len(current) + i \in Nat /\ "ORDER_CREATED" \in Statuses
      BY <1>2, <1>3 DEF Statuses
    <2> QED BY <2>1 DEF Ledger!Event, EventRecord
  <1>5. \A i \in 1 .. Stored(n) :
            more[i] = Ledger!Event(Len(current) + i, "ORDER_CREATED")
    OBVIOUS
  <1> HIDE DEF more, m
  <1>6. more \in Seq(EventRecord) /\ Len(more) = Stored(n)
    <2>1. more \in Seq(EventRecord)
      BY <1>2, <1>4, SeqDef
    <2> QED BY <1>2, <1>4, <2>1
  <1>7. /\ events \o more \in Seq(EventRecord)
        /\ Len(events \o more) = Len(events) + Len(more)
        /\ \A i \in 1 .. Len(events) : (events \o more)[i] = events[i]
        /\ \A i \in 1 .. Len(more) :
              (events \o more)[Len(events) + i] = more[i]
    <2>1. events \in Seq(EventRecord) /\ more \in Seq(EventRecord)
      BY <1>1, <1>6
    <2> QED BY <2>1, AppendAll
  <1>8. Logged(n) = Smaller(Stored(n), MaxCheckpoints - m) /\ m <= MaxCheckpoints
    BY DEF Logged, TypeOK, m
  <1>9. Len(events') = Smaller(Len(events \o more), MaxCheckpoints)
    BY <1>1, <1>2, <1>6, <1>7, <1>8 DEF Smaller
  <1>10. ASSUME NEW i \in 1 .. Len(events')
         PROVE  events'[i] = (events \o more)[i]
    <2>1. CASE i <= m
      <3>1. i \in 1 .. m
        BY <1>1, <1>2, <2>1
      <3> QED BY <1>1, <1>2, <1>7, <3>1
    <2>2. CASE ~ (i <= m)
      <3> DEFINE k == i - m
      <3>1. k \in 1 .. Logged(n) /\ i = m + k
        BY <1>1, <1>2, <2>2
      <3> HIDE DEF k
      <3>2. k \in 1 .. Stored(n)
        BY <1>1, <1>2, <1>8, <3>1 DEF Smaller
      <3>3. /\ checkpoints'[i].shipment = Len(shipments) + k
            /\ checkpoints'[i].status = "ORDER_CREATED"
        BY <3>1, BookingEntry DEF m
      <3>4. events'[i] = Ledger!Event(Len(current) + k, "ORDER_CREATED")
        BY <1>1, <1>3, <3>3 DEF EventOf, Ledger!Event
      <3> QED BY <1>1, <1>5, <1>6, <1>7, <3>1, <3>2, <3>4
    <2> QED BY <2>1, <2>2
  <1> QED BY <1>1, <1>7, <1>9, <1>10, KeptIs DEF more

LEMMA UpdateRefines ==
    ASSUME TypeOK, TypeOK',
           NEW table, NEW log, NEW s, NEW status, NEW by, NEW place,
           Update(table, log, s, status, by, place)
    PROVE  Ledger!LedgerNext
  <1>1. s \in DOMAIN current /\ status \in Statuses
    BY UpdateEffect DEF current, StatusesOf, Slots
  <1>2. Ledger!Record(s, status)
    BY UpdateCurrent, UpdateEvents DEF Ledger!Record, current, events
  <1> QED BY <1>1, <1>2 DEF Ledger!LedgerNext, current

\* A batch of which nothing was stored is a stuttering step.
LEMMA BookingRefines ==
    ASSUME TypeOK, TypeOK', NEW n, NEW caller, NEW origin, NEW ids,
           Booking(n, caller, origin, ids)
    PROVE  [Ledger!LedgerNext]_(Ledger!ledger)
  <1>1. /\ Stored(n) \in Nat /\ Len(shipments) \in Nat
        /\ Len(shipments) + Stored(n) <= MaxShipments
        /\ MaxShipments \in Nat
    BY BookingCounts, Tables, Capacity DEF Booking, TableTypes
  <1>2. CASE Stored(n) = 0
    <2>1. shipments' = shipments
      <3>1. /\ shipments' \in Seq(ShipmentRecord)
            /\ Len(shipments') = Len(shipments) + Stored(n)
            /\ \A s \in 1 .. Len(shipments) : shipments'[s] = shipments[s]
        BY BookingShipments
      <3>2. shipments \in Seq(ShipmentRecord) /\ Len(shipments') = Len(shipments)
        BY <1>1, <1>2, <3>1 DEF TypeOK
      <3> QED BY <3>1, <3>2, SeqEqual
    <2>2. checkpoints' = checkpoints
      <3>1. /\ checkpoints' \in Seq(CheckpointRecord)
            /\ Len(checkpoints') = Len(checkpoints) + Logged(n)
            /\ \A s \in 1 .. Len(checkpoints) : checkpoints'[s] = checkpoints[s]
        BY BookingHistory
      <3>2. Logged(n) = 0
        BY <1>1, <1>2, BookingCounts DEF Booking
      <3>3. /\ checkpoints \in Seq(CheckpointRecord)
            /\ Len(checkpoints') = Len(checkpoints)
        BY <3>1, <3>2, Tables DEF TypeOK, TableTypes
      <3> QED BY <3>1, <3>3, SeqEqual
    <2> QED BY <2>1, <2>2 DEF Ledger!ledger
  <1>3. CASE Stored(n) # 0
    <2>1. Stored(n) \in 1 .. MaxShipments
      BY <1>1, <1>3
    <2>2. Ledger!Book(Stored(n))
      BY BookingCurrent, BookingEvents DEF Ledger!Book, current, events
    <2> QED BY <2>1, <2>2 DEF Ledger!LedgerNext
  <1> QED BY <1>2, <1>3

\* The store implements the ledger: statuses change only together with an
\* event, and events are only appended, in order, until the memory is full.
THEOREM StoreImplementsLedger == Spec => ImplementsLedger
  <1>1. ASSUME TypeOK, TypeOK', [Next]_vars
        PROVE  [Ledger!LedgerNext]_(Ledger!ledger)
    <2>1. CASE Unchanged
      BY <2>1 DEF Unchanged, Ledger!ledger
    <2>2. CASE Init'
      BY <2>2 DEF Init, Ledger!LedgerNext, Ledger!Reset
    <2> QED BY <1>1, <2>1, <2>2, StepCases, UpdateRefines, BookingRefines
        DEF StepCase
  <1> QED BY <1>1, InitRefines, TypeCorrect, PTL
      DEF Spec, ImplementsLedger, Ledger!LedgerSpec

\* The server without the back-office handlers is an instance of the store, so
\* every property proved of the store holds of the server.
THEOREM ServerImplementsStore == ServerSpec => Spec
  <1>1. [ServerNext]_vars => [Next]_vars
    BY DEF ServerNext, Next
  <1> QED BY <1>1, PTL DEF ServerSpec, Spec

--------------------------------------------------------------------------------
(* Replies tell what happened.                                              *)

TellsTruth ==
    /\ reply'.op = "bulk" => Len(shipments') = Len(shipments) + reply'.booked
    /\ ~ reply'.ok => UNCHANGED <<shipments, checkpoints, audit>>

LEMMA RefusalTells ==
    ASSUME NEW op \in {"book", "scan", "pod", "override", "dispatch"},
           Refuse(op)
    PROVE  TellsTruth
  BY DEF Refuse, BootReply, TellsTruth

LEMMA GarbledTells == ASSUME TypeOK, BookingGarbled PROVE TellsTruth
  <1>1. CASE Refuse("book")
    BY <1>1, RefusalTells
  <1>2. CASE Refuse("bulk")
    <2>1. Len(shipments) \in Nat
      BY DEF TypeOK
    <2>2. /\ reply'.booked = 0
          /\ UNCHANGED <<shipments, checkpoints, audit>>
      BY <1>2 DEF Refuse, BootReply
    <2> QED BY <2>1, <2>2 DEF TellsTruth
  <1> QED BY <1>1, <1>2 DEF BookingGarbled

LEMMA RequestTells ==
    ASSUME TypeOK, NEW c \in Anyone, RequestBy(c)
    PROVE  TellsTruth
  <1>1. ASSUME NEW o \in Origins, NEW id \in GeneratedIds, BookShipment(c, o, id)
        PROVE  TellsTruth
    BY <1>1, RefusalTells DEF BookShipment, TellsTruth
  <1>2. ASSUME NEW n \in 0 .. MaxBatch, NEW o \in Origins,
               NEW ids \in [1 .. Stored(n) -> GeneratedIds],
               BulkBooking(n, c, o, ids)
        PROVE  TellsTruth
    <2>1. /\ StoreBookings(n, c, o, ids)
          /\ reply' = [BootReply EXCEPT !.op = "bulk", !.booked = Stored(n)]
      BY <1>2 DEF BulkBooking
    <2>2. reply'.ok = TRUE /\ reply'.booked = Stored(n)
      BY <2>1 DEF BootReply
    <2>3. n \in Nat
      BY Capacity
    <2>4. reply' \in Reply
      BY <2>1, <2>3, BookingCounts DEF BootReply, Reply
    <2>5. Booking(n, c, o, ids)
      BY <2>1, <2>3, <2>4, AnyoneType DEF Booking
    <2>6. Len(shipments') = Len(shipments) + Stored(n)
      BY <2>5, BookingShipments
    <2> QED BY <2>2, <2>6 DEF TellsTruth
  <1>3. ASSUME NEW id, NEW h, NEW text, NEW tag, Scan(c, id, h, text, tag)
        PROVE  TellsTruth
    BY <1>3, RefusalTells DEF Scan, BootReply, TellsTruth
  <1>4. ASSUME NEW s, NEW sig, NEW img, ProofOfDelivery(c, s, sig, img)
        PROVE  TellsTruth
    BY <1>4, RefusalTells DEF ProofOfDelivery, BootReply, TellsTruth
  <1> QED BY <1>1, <1>2, <1>3, <1>4, GarbledTells DEF RequestBy

LEMMA BackOfficeTells == ASSUME BackOffice PROVE TellsTruth
  <1>1. ASSUME NEW c, NEW s, NEW text, NEW tag, StatusOverride(c, s, text, tag)
        PROVE  TellsTruth
    BY <1>1, RefusalTells DEF StatusOverride, BootReply, TellsTruth
  <1>2. ASSUME NEW c, NEW s, NEW agent, AgentDispatch(c, s, agent)
        PROVE  TellsTruth
    BY <1>2, RefusalTells DEF AgentDispatch, BootReply, TellsTruth
  <1> QED BY <1>1, <1>2 DEF BackOffice

\* A bulk booking answers with the number of shipments it stored, and a
\* refused request has changed no table.
THEOREM TruthfulReplies == Spec => RepliesAreTruthful
  <1>1. ASSUME TypeOK, Next PROVE TellsTruth
    <2>1. Restart => TellsTruth
      BY DEF Restart, BootReply, TellsTruth
    <2> QED BY <1>1, <2>1, RequestTells, BackOfficeTells DEF Next, Requests
  <1>2. TypeOK /\ [Next]_vars => [TellsTruth]_vars
    BY <1>1
  <1> QED BY <1>2, TypeCorrect, PTL DEF Spec, RepliesAreTruthful, TellsTruth

--------------------------------------------------------------------------------
(* The audit log: what one update appends to it.                            *)

ChangeEntry(by, s, status) ==
    [actor |-> by, action |-> "STATUS_CHANGE", shipment |-> s, detail |-> status]

\* The first n entries of the log stay, and there are k more.
GrowsBy(k) ==
    /\ Len(audit') = Len(audit) + k
    /\ DOMAIN audit' = 1 .. Len(audit) + k
    /\ \A j \in 1 .. Len(audit) : audit'[j] = audit[j]

FullLog     == Len(audit) = MaxAudits /\ UNCHANGED audit
PlainChange(by, s, status) ==
    GrowsBy(1) /\ audit'[Len(audit) + 1] = ChangeEntry(by, s, status)
LastAssignment(by, s, agent) ==
    /\ Len(audit) + 1 = MaxAudits
    /\ GrowsBy(1) /\ audit'[Len(audit) + 1] = Assignment(by, s, agent)
WholeDispatch(by, s, agent) ==
    /\ GrowsBy(2)
    /\ audit'[Len(audit) + 1] = Assignment(by, s, agent)
    /\ audit'[Len(audit) + 2] = ChangeEntry(by, s, "OUT_FOR_DELIVERY")

\* LogAudit appends or leaves a full log alone.
LEMMA LogAuditIs ==
    ASSUME NEW S, NEW log \in Seq(S), NEW entry \in S,
           Len(log) <= MaxAudits, MaxAudits \in Nat
    PROVE  /\ LogAudit(log, entry) \in Seq(S)
           /\ Len(log) \in Nat
           /\ \/ Len(log) = MaxAudits /\ LogAudit(log, entry) = log
              \/ /\ Len(log) < MaxAudits
                 /\ Len(LogAudit(log, entry)) = Len(log) + 1
                 /\ \A j \in 1 .. Len(log) : LogAudit(log, entry)[j] = log[j]
                 /\ LogAudit(log, entry)[Len(log) + 1] = entry
  <1>1. Len(log) \in Nat
    OBVIOUS
  <1>2. CASE Len(log) < MaxAudits
    <2>1. LogAudit(log, entry) = Append(log, entry)
      BY <1>2 DEF LogAudit
    <2> QED BY <1>1, <1>2, <2>1, AppendProperties
  <1>3. CASE ~ (Len(log) < MaxAudits)
    BY <1>1, <1>3 DEF LogAudit
  <1> QED BY <1>2, <1>3

LEMMA UpdateLogs ==
    ASSUME TypeOK, NEW table, NEW log, NEW s, NEW status, NEW by, NEW place,
           Update(table, log, s, status, by, place)
    PROVE  \/ FullLog
           \/ PlainChange(by, s, status)
           \/ \E agent : LastAssignment(by, s, agent)
           \/ /\ status = "OUT_FOR_DELIVERY"
              /\ \E agent : WholeDispatch(by, s, agent)
  <1> DEFINE entry == ChangeEntry(by, s, status)
  <1>1. /\ audit \in Seq(AuditRecord) /\ Len(audit) <= MaxAudits
        /\ log \in Seq(AuditRecord) /\ Len(log) <= MaxAudits
        /\ MaxAudits \in Nat /\ Len(audit) \in Nat
        /\ by \in UserIds /\ s \in Nat /\ status \in Statuses
    BY Capacity, Tables, StaffId DEF Update, TypeOK, TableTypes
  <1>2. entry \in AuditRecord
    BY <1>1 DEF ChangeEntry, AuditRecord
  <1>3. audit' = LogAudit(log, entry)
    BY DEF Update, UpdateStatus, ChangeEntry
  <1> HIDE DEF entry
  <1>4. /\ audit' \in Seq(AuditRecord)
        /\ \/ Len(log) = MaxAudits /\ audit' = log
           \/ /\ Len(log) < MaxAudits
              /\ Len(audit') = Len(log) + 1
              /\ \A j \in 1 .. Len(log) : audit'[j] = log[j]
              /\ audit'[Len(log) + 1] = entry
    BY SMTT(30), <1>1, <1>2, <1>3, LogAuditIs
  <1>5. DOMAIN audit' = 1 .. Len(audit')
    BY <1>4
  <1>6. CASE log = audit
    <2>1. CASE Len(log) = MaxAudits /\ audit' = log
      BY <1>6, <2>1 DEF FullLog
    <2>2. CASE ~ (Len(log) = MaxAudits /\ audit' = log)
      BY <1>4, <1>5, <1>6, <2>2 DEF PlainChange, GrowsBy, entry
    <2> QED BY <2>1, <2>2
  <1>7. ASSUME NEW agent \in Agents, status = "OUT_FOR_DELIVERY",
               log = LogAudit(audit, Assignment(by, s, agent))
        PROVE  \/ FullLog
               \/ LastAssignment(by, s, agent)
               \/ WholeDispatch(by, s, agent)
    <2>1. Assignment(by, s, agent) \in AuditRecord
      BY <1>1 DEF Assignment, AuditRecord
    <2>2. \/ Len(audit) = MaxAudits /\ log = audit
          \/ /\ Len(audit) < MaxAudits
             /\ Len(log) = Len(audit) + 1
             /\ \A j \in 1 .. Len(audit) : log[j] = audit[j]
             /\ log[Len(audit) + 1] = Assignment(by, s, agent)
      BY ZenonT(40), <1>1, <1>7, <2>1, LogAuditIs
    <2>3. CASE Len(audit) = MaxAudits /\ log = audit
      BY <1>1, <1>4, <2>3 DEF FullLog
    <2>4. CASE ~ (Len(audit) = MaxAudits /\ log = audit)
      <3>1. /\ Len(log) = Len(audit) + 1
            /\ \A j \in 1 .. Len(audit) : log[j] = audit[j]
            /\ log[Len(audit) + 1] = Assignment(by, s, agent)
        BY <2>2, <2>4
      <3>2. CASE Len(log) = MaxAudits /\ audit' = log
        BY <1>5, <3>1, <3>2 DEF LastAssignment, GrowsBy
      <3>3. CASE ~ (Len(log) = MaxAudits /\ audit' = log)
        <4>1. /\ Len(audit') = Len(audit) + 2
              /\ \A j \in 1 .. Len(audit) : audit'[j] = audit[j]
              /\ audit'[Len(audit) + 1] = Assignment(by, s, agent)
              /\ audit'[Len(audit) + 2] = entry
          BY <1>1, <1>4, <3>1, <3>3
        <4> QED BY <1>5, <1>7, <4>1 DEF WholeDispatch, GrowsBy, entry
      <3> QED BY <3>2, <3>3
    <2> QED BY <2>3, <2>4
  <1>8. \/ log = audit
        \/ /\ status = "OUT_FOR_DELIVERY"
           /\ \E agent \in Agents : log = LogAudit(audit, Assignment(by, s, agent))
    BY DEF Update
  <1> QED BY <1>6, <1>7, <1>8

\* What is written about entry i of the log.
Followed(i) ==
    audit[i].action = "AGENT_ASSIGNMENT" /\ i < MaxAudits =>
        /\ i + 1 \in DOMAIN audit
        /\ audit[i+1] = ChangeEntry(audit[i].actor, audit[i].shipment,
                                    "OUT_FOR_DELIVERY")

LEMMA DispatchIs == DispatchIsLoggedWhole <=> \A i \in DOMAIN audit : Followed(i)
  BY DEF DispatchIsLoggedWhole, Followed, ChangeEntry

LEMMA OldEntriesFollowed ==
    ASSUME TypeOK, DispatchIsLoggedWhole, NEW k \in {1, 2}, GrowsBy(k),
           NEW i \in 1 .. Len(audit)
    PROVE  Followed(i)'
  <1>1. DOMAIN audit = 1 .. Len(audit) /\ Len(audit) \in Nat
    BY Tables DEF TableTypes
  <1>2. Followed(i) /\ audit'[i] = audit[i]
    BY <1>1, DispatchIs DEF GrowsBy
  <1> SUFFICES ASSUME audit[i].action = "AGENT_ASSIGNMENT", i < MaxAudits
               PROVE  /\ i + 1 \in DOMAIN audit'
                      /\ audit'[i+1] = ChangeEntry(audit[i].actor,
                                          audit[i].shipment, "OUT_FOR_DELIVERY")
    BY <1>2 DEF Followed, ChangeEntry
  <1>3. /\ i + 1 \in 1 .. Len(audit)
        /\ audit[i+1] = ChangeEntry(audit[i].actor, audit[i].shipment,
                                    "OUT_FOR_DELIVERY")
    BY <1>1, <1>2 DEF Followed
  <1>4. audit'[i+1] = audit[i+1] /\ i + 1 \in DOMAIN audit'
    BY <1>1, <1>3 DEF GrowsBy
  <1> QED BY <1>3, <1>4

LEMMA UpdateDispatchKept ==
    ASSUME TypeOK, DispatchIsLoggedWhole,
           NEW table, NEW log, NEW s, NEW status, NEW by, NEW place,
           Update(table, log, s, status, by, place)
    PROVE  DispatchIsLoggedWhole'
  <1>1. DOMAIN audit = 1 .. Len(audit) /\ Len(audit) \in Nat /\ MaxAudits \in Nat
    BY Tables, Capacity DEF TableTypes
  <1>2. SUFFICES ASSUME NEW i \in DOMAIN audit' PROVE Followed(i)'
    BY DispatchIs DEF DispatchIsLoggedWhole, Followed, ChangeEntry
  <1>3. CASE FullLog
    BY <1>3, DispatchIs DEF FullLog, Followed, ChangeEntry
  <1>4. CASE PlainChange(by, s, status)
    <2>1. CASE i \in 1 .. Len(audit)
      BY <1>4, <2>1, OldEntriesFollowed DEF PlainChange
    <2>2. CASE i \notin 1 .. Len(audit)
      <3>1. i = Len(audit) + 1
        BY <1>1, <1>4, <2>2 DEF PlainChange, GrowsBy
      <3>2. audit'[i].action = "STATUS_CHANGE"
        BY <1>4, <3>1 DEF PlainChange, ChangeEntry
      <3> QED BY <3>2 DEF Followed
    <2> QED BY <2>1, <2>2
  <1>5. ASSUME NEW agent, LastAssignment(by, s, agent)
        PROVE  Followed(i)'
    <2>1. CASE i \in 1 .. Len(audit)
      BY <1>5, <2>1, OldEntriesFollowed DEF LastAssignment
    <2>2. CASE i \notin 1 .. Len(audit)
      <3>1. ~ (i < MaxAudits)
        BY <1>1, <1>5, <2>2 DEF LastAssignment, GrowsBy
      <3> QED BY <3>1 DEF Followed
    <2> QED BY <2>1, <2>2
  <1>6. ASSUME NEW agent, WholeDispatch(by, s, agent)
        PROVE  Followed(i)'
    <2>1. CASE i \in 1 .. Len(audit)
      BY <1>6, <2>1, OldEntriesFollowed DEF WholeDispatch
    <2>2. CASE i = Len(audit) + 1
      <3>1. /\ audit'[i].actor = by /\ audit'[i].shipment = s
            /\ audit'[i+1] = ChangeEntry(by, s, "OUT_FOR_DELIVERY")
        BY <1>1, <1>6, <2>2 DEF WholeDispatch, Assignment
      <3>2. i + 1 \in DOMAIN audit'
        BY <1>1, <1>6, <2>2 DEF WholeDispatch, GrowsBy
      <3> QED BY <3>1, <3>2 DEF Followed, ChangeEntry
    <2>3. CASE i \notin 1 .. Len(audit) /\ i # Len(audit) + 1
      <3>1. i = Len(audit) + 2
        BY <1>1, <1>6, <2>3 DEF WholeDispatch, GrowsBy
      <3>2. audit'[i].action = "STATUS_CHANGE"
        BY <1>6, <3>1 DEF WholeDispatch, ChangeEntry
      <3> QED BY <3>2 DEF Followed
    <2> QED BY <2>1, <2>2, <2>3
  <1> QED BY <1>3, <1>4, <1>5, <1>6, UpdateLogs

LEMMA BookingLeavesLog ==
    ASSUME NEW n, NEW caller, NEW origin, NEW ids,
           Booking(n, caller, origin, ids)
    PROVE  UNCHANGED audit
  BY DEF Booking, StoreBookings

LEMMA SeedLog ==
    /\ DOMAIN SeedAudit = {1}
    /\ SeedAudit[1].action = "SYSTEM_INIT"
  BY DEF SeedAudit

\* An assignment in the audit log is followed at once by its status change,
\* unless it took the last entry.
THEOREM DispatchesLoggedWhole == Spec => []DispatchIsLoggedWhole
  <1>1. Init => DispatchIsLoggedWhole
    BY SeedLog DEF Init, DispatchIsLoggedWhole
  <1>2. ASSUME TypeOK, DispatchIsLoggedWhole, [Next]_vars
        PROVE  DispatchIsLoggedWhole'
    <2>1. CASE UNCHANGED audit
      BY <1>2, <2>1 DEF DispatchIsLoggedWhole
    <2>2. CASE Init'
      <3>1. Init' => DispatchIsLoggedWhole'
        BY <1>1, PTL
      <3> QED BY <2>2, <3>1
    <2>3. Unchanged => UNCHANGED audit
      BY DEF Unchanged
    <2> QED BY <1>2, <2>1, <2>2, <2>3, StepCases, UpdateDispatchKept,
               BookingLeavesLog DEF StepCase
  <1> QED BY <1>1, <1>2, TypeCorrect, PTL DEF Spec

--------------------------------------------------------------------------------
(* The two trails.                                                          *)

\* Marks among 1 .. n are finitely many, and the rank of one is at most their
\* number.
LEMMA Ranks ==
    ASSUME NEW n \in Nat, NEW marks \in SUBSET (1 .. n)
    PROVE  /\ IsFiniteSet(marks) /\ Cardinality(marks) \in Nat
           /\ \A i \in 1 .. n : /\ Rank(i, marks) \in Nat
                                 /\ Rank(i, marks) <= Cardinality(marks)
  <1>1. IsFiniteSet(1 .. n)
    BY FS_Interval
  <1>2. IsFiniteSet(marks) /\ Cardinality(marks) \in Nat
    BY <1>1, FS_Subset, FS_CardinalityType
  <1>3. ASSUME NEW i \in 1 .. n
        PROVE  Rank(i, marks) \in Nat /\ Rank(i, marks) <= Cardinality(marks)
    <2> DEFINE upTo == marks \cap 1 .. i
    <2>1. upTo \in SUBSET marks
      OBVIOUS
    <2> HIDE DEF upTo
    <2>2. /\ IsFiniteSet(upTo)
          /\ Cardinality(upTo) <= Cardinality(marks)
      BY <1>2, <2>1, FS_Subset
    <2>3. Cardinality(upTo) \in Nat
      BY <2>2, FS_CardinalityType
    <2> QED BY <2>2, <2>3 DEF Rank, upTo
  <1> QED BY <1>2, <1>3

\* A mark behind all others ranks last and leaves their ranks alone.
LEMMA LastMark ==
    ASSUME NEW n \in Nat, NEW marks \in SUBSET (1 .. n), NEW x \in Nat, x > n
    PROVE  /\ Cardinality(marks \cup {x}) = Cardinality(marks) + 1
           /\ Rank(x, marks \cup {x}) = Cardinality(marks) + 1
  <1> DEFINE more == marks \cup {x}
  <1>1. Cardinality(more) = Cardinality(marks) + 1
    <2>1. IsFiniteSet(marks) /\ x \notin marks
      BY Ranks
    <2> QED BY <2>1, FS_AddElement
  <1>2. more \cap 1 .. x = more
    <2>1. \A m \in more : m \in 1 .. x
      OBVIOUS
    <2> QED BY <2>1
  <1> QED BY <1>1, <1>2 DEF Rank

LEMMA EarlierMark ==
    ASSUME NEW n \in Nat, NEW marks \in SUBSET (1 .. n), NEW x \in Nat, x > n,
           NEW i \in 1 .. n
    PROVE  Rank(i, marks \cup {x}) = Rank(i, marks)
  <1>1. (marks \cup {x}) \cap 1 .. i = marks \cap 1 .. i
    OBVIOUS
  <1> QED BY <1>1 DEF Rank

LEMMA TrailTypes ==
    ASSUME TypeOK
    PROVE  /\ Len(checkpoints) \in Nat /\ Updates \in SUBSET (1 .. Len(checkpoints))
           /\ Len(audit) \in Nat /\ Changes \in SUBSET (1 .. Len(audit))
           /\ MaxCheckpoints \in Nat /\ MaxAudits \in Nat
  BY Tables, Capacity DEF TableTypes, Updates, Changes

\* What a change of status does to a trail: add a mark at the end, or, when the
\* trail is full, leave the marks alone.
HistoryAdds(x, by, s, status) ==
    /\ ~ HistoryFull
    /\ x \in Nat /\ x > Len(checkpoints)
    /\ Updates' = Updates \cup {x}
    /\ \A i \in Updates : checkpoints'[i] = checkpoints[i]
    /\ checkpoints'[x].by = by
    /\ checkpoints'[x].shipment = s
    /\ checkpoints'[x].status = status

AuditKeeps ==
    /\ AuditFull'
    /\ UNCHANGED Changes
    /\ \A j \in Changes : audit'[j] = audit[j]

AuditAdds(y, by, s, status) ==
    /\ ~ AuditFull
    /\ y \in Nat /\ y > Len(audit)
    /\ Changes' = Changes \cup {y}
    /\ \A j \in Changes : audit'[j] = audit[j]
    /\ audit'[y] = ChangeEntry(by, s, status)

LEMMA UpdateTrail ==
    ASSUME TypeOK, NEW table, NEW log, NEW s, NEW status, NEW by, NEW place,
           Update(table, log, s, status, by, place)
    PROVE  \/ HistoryFull /\ UNCHANGED checkpoints
           \/ \E x : HistoryAdds(x, by, s, status)
  <1> DEFINE entry == UpdateEntry(table, s, status, by, place)
             x == Len(checkpoints) + 1
  <1>1. Len(checkpoints) \in Nat /\ DOMAIN checkpoints = 1 .. Len(checkpoints)
    BY Tables DEF TableTypes
  <1>2. /\ entry.by = by /\ entry.shipment = s /\ entry.status = status
        /\ entry.note = "update"
    BY DEF UpdateEntry
  <1>3. \/ HistoryFull /\ UNCHANGED checkpoints
        \/ /\ Len(checkpoints) < MaxCheckpoints
           /\ checkpoints' \in Seq(CheckpointRecord)
           /\ Len(checkpoints') = x
           /\ \A i \in 1 .. Len(checkpoints) : checkpoints'[i] = checkpoints[i]
           /\ checkpoints'[x] = entry
    BY UpdateHistory
  <1> HIDE DEF entry
  <1>4. CASE HistoryFull /\ UNCHANGED checkpoints
    BY <1>4
  <1>5. CASE ~ (HistoryFull /\ UNCHANGED checkpoints)
    <2>1. /\ DOMAIN checkpoints' = 1 .. x
          /\ \A i \in 1 .. Len(checkpoints) : checkpoints'[i] = checkpoints[i]
          /\ checkpoints'[x] = entry
          /\ ~ HistoryFull
      BY <1>1, <1>3, <1>5 DEF HistoryFull
    <2>2. Updates' = Updates \cup {x}
      BY <1>1, <1>2, <2>1 DEF Updates
    <2>3. \A i \in Updates : checkpoints'[i] = checkpoints[i]
      BY <1>1, <2>1 DEF Updates
    <2>4. HistoryAdds(x, by, s, status)
      BY <1>1, <1>2, <2>1, <2>2, <2>3 DEF HistoryAdds
    <2> QED BY <2>4
  <1> QED BY <1>4, <1>5

LEMMA Room ==
    ASSUME NEW a \in Nat, NEW b \in Nat, NEW new,
           new = a + 1 \/ new = a + 2, new <= b
    PROVE  a < b
  OBVIOUS

LEMMA UpdateAuditTrail ==
    ASSUME TypeOK, NEW table, NEW log, NEW s, NEW status, NEW by, NEW place,
           Update(table, log, s, status, by, place)
    PROVE  AuditKeeps \/ \E y : AuditAdds(y, by, s, status)
  <1>1. /\ Len(audit) \in Nat /\ DOMAIN audit = 1 .. Len(audit)
        /\ MaxAudits \in Nat /\ Len(audit') <= MaxAudits
    BY Tables, Capacity, UpdateType DEF TableTypes, TypeOK
  <1>2. CASE FullLog
    BY <1>2 DEF FullLog, AuditKeeps, AuditFull, Changes
  <1>3. CASE PlainChange(by, s, status)
    <2> DEFINE y == Len(audit) + 1
    <2>1. audit'[y].action = "STATUS_CHANGE" /\ audit'[y] = ChangeEntry(by, s, status)
      BY <1>3 DEF PlainChange, ChangeEntry
    <2>2. Changes' = Changes \cup {y}
      BY <1>1, <1>3, <2>1 DEF PlainChange, GrowsBy, Changes
    <2>3. /\ Len(audit') = Len(audit) + 1
          /\ \A j \in Changes : audit'[j] = audit[j]
      BY <1>1, <1>3 DEF PlainChange, GrowsBy, Changes
    <2>4. ~ AuditFull
      <3>1. Len(audit) \in Nat /\ MaxAudits \in Nat
        BY <1>1
      <3>2. Len(audit) < MaxAudits
        BY <1>1, <2>3
      <3> QED BY ONLY <3>1, <3>2 DEF AuditFull
    <2>5. AuditAdds(y, by, s, status)
      BY <1>1, <2>1, <2>2, <2>3, <2>4 DEF AuditAdds
    <2> QED BY <2>5
  <1>4. ASSUME NEW agent, LastAssignment(by, s, agent)
        PROVE  AuditKeeps
    <2> DEFINE y == Len(audit) + 1
    <2>1. audit'[y].action = "AGENT_ASSIGNMENT"
      BY <1>4 DEF LastAssignment, Assignment
    <2>2. Changes' = Changes
      BY <1>1, <1>4, <2>1 DEF LastAssignment, GrowsBy, Changes
    <2> QED BY <1>1, <1>4, <2>2 DEF LastAssignment, GrowsBy, AuditKeeps, AuditFull, Changes
  <1>5. ASSUME NEW agent, WholeDispatch(by, s, agent), status = "OUT_FOR_DELIVERY"
        PROVE  AuditAdds(Len(audit) + 2, by, s, status)
    <2> DEFINE y == Len(audit) + 2
    <2>1. /\ audit'[y - 1].action = "AGENT_ASSIGNMENT"
          /\ audit'[y].action = "STATUS_CHANGE"
          /\ audit'[y] = ChangeEntry(by, s, status)
      BY <1>1, <1>5 DEF WholeDispatch, Assignment, ChangeEntry
    <2>2. Changes' = Changes \cup {y}
      BY <1>1, <1>5, <2>1 DEF WholeDispatch, GrowsBy, Changes
    <2>3. /\ Len(audit') = Len(audit) + 2
          /\ \A j \in Changes : audit'[j] = audit[j]
      BY <1>1, <1>5 DEF WholeDispatch, GrowsBy, Changes
    <2>4. ~ AuditFull
      <3>1. Len(audit) \in Nat /\ MaxAudits \in Nat
        BY <1>1
      <3>2. Len(audit) < MaxAudits
        BY <1>1, <2>3
      <3> QED BY ONLY <3>1, <3>2 DEF AuditFull
    <2> QED BY <1>1, <2>1, <2>2, <2>3, <2>4 DEF AuditAdds
  <1> QED BY <1>2, <1>3, <1>4, <1>5, UpdateLogs

LEMMA UpdateTrailsKept ==
    ASSUME TypeOK, TrailsAgree,
           NEW table, NEW log, NEW s, NEW status, NEW by, NEW place,
           Update(table, log, s, status, by, place)
    PROVE  TrailsAgree'
  <1> DEFINE u == Cardinality(Updates)
             c == Cardinality(Changes)
  <1>1. /\ Len(checkpoints) \in Nat /\ Updates \in SUBSET (1 .. Len(checkpoints))
        /\ Len(audit) \in Nat /\ Changes \in SUBSET (1 .. Len(audit))
        /\ MaxCheckpoints \in Nat /\ MaxAudits \in Nat
    BY TrailTypes
  <1>2. /\ u \in Nat /\ c \in Nat
        /\ \A i \in Updates : Rank(i, Updates) \in Nat /\ Rank(i, Updates) <= u
        /\ \A j \in Changes : Rank(j, Changes) \in Nat /\ Rank(j, Changes) <= c
    BY <1>1, Ranks
  <1>3. /\ ~ HistoryFull => u >= c
        /\ ~ AuditFull   => c >= u
        /\ \A i \in Updates, j \in Changes :
              Rank(i, Updates) = Rank(j, Changes) => Tell(i, j)
    BY DEF TrailsAgree
  <1>4. CASE HistoryFull /\ UNCHANGED checkpoints
    <2>1. HistoryFull' /\ Updates' = Updates
      BY <1>4 DEF HistoryFull, Updates
    <2>2. CASE AuditKeeps
      <3>1. \A i \in Updates, j \in Changes : Tell(i, j) => Tell(i, j)'
        BY <1>4, <2>2 DEF AuditKeeps, Tell
      <3> QED BY <1>3, <2>1, <2>2, <3>1 DEF AuditKeeps, TrailsAgree, AuditFull
    <2>3. ASSUME NEW y, AuditAdds(y, by, s, status)
          PROVE  TrailsAgree'
      <3>1. /\ Cardinality(Changes') = c + 1
            /\ Rank(y, Changes') = c + 1
            /\ \A j \in Changes : Rank(j, Changes') = Rank(j, Changes)
        <4>1. y \in Nat /\ y > Len(audit) /\ Changes' = Changes \cup {y}
          BY <2>3 DEF AuditAdds
        <4>2. /\ Cardinality(Changes') = Cardinality(Changes) + 1
              /\ Rank(y, Changes') = Cardinality(Changes) + 1
              /\ \A j \in 1 .. Len(audit) : Rank(j, Changes') = Rank(j, Changes)
          BY ONLY <1>1, <4>1, LastMark, EarlierMark
        <4> QED BY <1>1, <4>1, <4>2
      <3>2. c >= u
        BY <1>3, <2>3 DEF AuditAdds
      <3>3. ASSUME NEW i \in Updates, NEW j \in Changes \cup {y},
                   Rank(i, Updates) = Rank(j, Changes')
            PROVE  Tell(i, j)'
        <4>1. j \in Changes
          BY <1>2, <3>1, <3>2, <3>3
        <4>2. Tell(i, j)
          BY <1>3, <3>1, <3>3, <4>1
        <4> QED BY <1>4, <2>3, <4>1, <4>2 DEF AuditAdds, Tell
      <3>4. Changes' = Changes \cup {y}
        BY <2>3 DEF AuditAdds
      <3> QED BY <1>2, <2>1, <3>1, <3>2, <3>3, <3>4 DEF TrailsAgree
    <2> QED BY <2>2, <2>3, UpdateAuditTrail
  <1>5. ASSUME NEW x, HistoryAdds(x, by, s, status)
        PROVE  TrailsAgree'
    <2>1. /\ Cardinality(Updates') = u + 1
          /\ Rank(x, Updates') = u + 1
          /\ \A i \in Updates : Rank(i, Updates') = Rank(i, Updates)
          /\ Updates' = Updates \cup {x}
      <3>1. x \in Nat /\ x > Len(checkpoints) /\ Updates' = Updates \cup {x}
        BY <1>5 DEF HistoryAdds
      <3>2. /\ Cardinality(Updates') = Cardinality(Updates) + 1
            /\ Rank(x, Updates') = Cardinality(Updates) + 1
            /\ \A i \in 1 .. Len(checkpoints) : Rank(i, Updates') = Rank(i, Updates)
        BY ONLY <1>1, <3>1, LastMark, EarlierMark
      <3> QED BY <1>1, <3>1, <3>2
    <2>2. u >= c
      BY <1>3, <1>5 DEF HistoryAdds
    <2>3. CASE AuditKeeps
      <3>1. ASSUME NEW i \in Updates \cup {x}, NEW j \in Changes,
                   Rank(i, Updates') = Rank(j, Changes)
            PROVE  Tell(i, j)'
        <4>1. i \in Updates
          BY <1>2, <2>1, <2>2, <3>1
        <4>2. Tell(i, j)
          BY <1>3, <2>1, <3>1, <4>1
        <4> QED BY <1>5, <2>3, <4>1, <4>2 DEF HistoryAdds, AuditKeeps, Tell
      <3>2. AuditFull' /\ Changes' = Changes
        BY <2>3 DEF AuditKeeps
      <3> QED BY <1>2, <2>1, <2>2, <3>1, <3>2 DEF TrailsAgree
    <2>4. ASSUME NEW y, AuditAdds(y, by, s, status)
          PROVE  TrailsAgree'
      <3>1. /\ Cardinality(Changes') = c + 1
            /\ Rank(y, Changes') = c + 1
            /\ \A j \in Changes : Rank(j, Changes') = Rank(j, Changes)
            /\ Changes' = Changes \cup {y}
        <4>1. y \in Nat /\ y > Len(audit) /\ Changes' = Changes \cup {y}
          BY <2>4 DEF AuditAdds
        <4>2. /\ Cardinality(Changes') = Cardinality(Changes) + 1
              /\ Rank(y, Changes') = Cardinality(Changes) + 1
              /\ \A j \in 1 .. Len(audit) : Rank(j, Changes') = Rank(j, Changes)
          BY ONLY <1>1, <4>1, LastMark, EarlierMark
        <4> QED BY <1>1, <4>1, <4>2
      <3>2. c = u
        BY <1>2, <1>3, <2>2, <2>4 DEF AuditAdds
      <3>3. ASSUME NEW i \in Updates \cup {x}, NEW j \in Changes \cup {y},
                   Rank(i, Updates') = Rank(j, Changes')
            PROVE  Tell(i, j)'
        <4>1. CASE i \in Updates /\ j \in Changes
          <5>1. Tell(i, j)
            BY <1>3, <2>1, <3>1, <3>3, <4>1
          <5> QED BY <1>5, <2>4, <4>1, <5>1 DEF HistoryAdds, AuditAdds, Tell
        <4>2. CASE i = x /\ j = y
          BY <1>5, <2>4, <4>2 DEF HistoryAdds, AuditAdds, Tell, ChangeEntry
        <4>3. CASE i \in Updates /\ j = y
          BY <1>2, <2>1, <3>1, <3>2, <3>3, <4>3
        <4>4. CASE i = x /\ j \in Changes
          BY <1>2, <2>1, <3>1, <3>2, <3>3, <4>4
        <4> QED BY <4>1, <4>2, <4>3, <4>4
      <3> QED BY <1>2, <2>1, <3>1, <3>2, <3>3 DEF TrailsAgree
    <2> QED BY <2>3, <2>4, UpdateAuditTrail
  <1> QED BY <1>4, <1>5, UpdateTrail

LEMMA BookingTrailsKept ==
    ASSUME TypeOK, TrailsAgree,
           NEW n, NEW caller, NEW origin, NEW ids,
           Booking(n, caller, origin, ids)
    PROVE  TrailsAgree'
  <1>1. /\ Logged(n) \in Nat /\ Len(checkpoints) \in Nat
        /\ DOMAIN checkpoints = 1 .. Len(checkpoints)
        /\ DOMAIN checkpoints' = 1 .. Len(checkpoints) + Logged(n)
        /\ \A i \in 1 .. Len(checkpoints) : checkpoints'[i] = checkpoints[i]
        /\ ~ HistoryFull' => ~ HistoryFull
    BY BookingFacts
  <1>2. ASSUME NEW i \in DOMAIN checkpoints' \ DOMAIN checkpoints
        PROVE  checkpoints'[i].note = "booking"
    <2>1. PICK k \in 1 .. Logged(n) : i = Len(checkpoints) + k
      <3>1. i - Len(checkpoints) \in 1 .. Logged(n)
        BY <1>1
      <3>2. i = Len(checkpoints) + (i - Len(checkpoints))
        BY <1>1
      <3> QED BY <3>1, <3>2
    <2> QED BY <2>1, BookingEntry
  <1>3. Updates' = Updates
    BY <1>1, <1>2 DEF Updates
  <1>4. UNCHANGED audit
    BY BookingLeavesLog
  <1>5. Changes' = Changes /\ AuditFull' = AuditFull
    BY <1>4 DEF Changes, AuditFull
  <1>6. \A i \in Updates, j \in Changes : Tell(i, j) => Tell(i, j)'
    BY <1>1, <1>4 DEF Updates, Tell
  <1> QED BY <1>1, <1>3, <1>5, <1>6 DEF TrailsAgree

LEMMA SeedTrails == Init => TrailsAgree
  <1> SUFFICES ASSUME Init PROVE TrailsAgree
    OBVIOUS
  <1>1. Updates = {}
    BY SeedTypes, SeedFields DEF Init, Updates
  <1>2. Changes = {}
    BY SeedLog DEF Init, Changes
  <1> QED BY <1>1, <1>2, FS_EmptySet DEF TrailsAgree

\* The audit log and the tracking history record the same status changes in the
\* same order, and equally many while both have room.
THEOREM TrailsTellTheSame == Spec => []TrailsAgree
  <1>1. ASSUME TypeOK, TrailsAgree, [Next]_vars
        PROVE  TrailsAgree'
    <2>1. CASE Unchanged
      BY <1>1, <2>1 DEF Unchanged, TrailsAgree, Updates, Changes, HistoryFull,
                        AuditFull, Tell
    <2>2. CASE Init'
      <3>1. Init' => TrailsAgree'
        BY SeedTrails, PTL
      <3> QED BY <2>2, <3>1
    <2> QED BY <1>1, <2>1, <2>2, StepCases, UpdateTrailsKept, BookingTrailsKept
        DEF StepCase
  <1> QED BY <1>1, SeedTrails, TypeCorrect, PTL DEF Spec

--------------------------------------------------------------------------------
(* Look-ups by tracking id.                                                 *)

\* A set of positions that is not empty has a first one: the parts of it up to
\* its elements are finite sets, and strict inclusion is well founded on them.
LEMMA FirstPosition ==
    ASSUME NEW n \in Nat, NEW marks \in SUBSET (1 .. n), marks # {}
    PROVE  \E i \in marks : \A j \in 1 .. i-1 : j \notin marks
  <1> DEFINE upTo == {marks \cap 1 .. i : i \in marks}
             subsets == FiniteSubsetsOf(1 .. n)
             R == StrictSubsetOrdering(1 .. n)
  <1>1. upTo \subseteq subsets /\ upTo # {}
    <2> SUFFICES ASSUME NEW i \in marks
                 PROVE  marks \cap 1 .. i \in subsets
      OBVIOUS
    <2>1. marks \cap 1 .. i \in SUBSET (1 .. n) /\ IsFiniteSet(1 .. n)
      BY FS_Interval
    <2> QED BY <2>1, FS_Subset DEF FiniteSubsetsOf
  <1>2. IsWellFoundedOn(R, subsets)
    BY FS_StrictSubsetOrderingWellFounded
  <1>3. PICK U \in upTo : \A V \in upTo : <<V, U>> \notin R
    <2> HIDE DEF upTo, subsets, R
    <2> QED BY <1>1, <1>2, WFMin
  <1>4. PICK i \in marks : U = marks \cap 1 .. i
    BY <1>3
  <1>5. ASSUME NEW j \in 1 .. i-1, j \in marks
        PROVE  FALSE
    <2> DEFINE V == marks \cap 1 .. j
    <2>1. V \in upTo
      BY <1>5
    <2>2. /\ V \subseteq U /\ i \in U /\ i \notin V
          /\ U \subseteq 1 .. n /\ V \subseteq 1 .. n
      BY <1>4, <1>5
    <2>3. <<V, U>> \in R
      BY <2>2 DEF StrictSubsetOrdering
    <2> QED BY <1>3, <2>1, <2>3
  <1> QED BY <1>5

\* FindByTracking in any table.
IsFirst(table, id, s) ==
    /\ table[s].tracking = id
    /\ \A r \in 1 .. s-1 : table[r].tracking # id

FindIn(table, id) ==
    IF \E s \in 1 .. Len(table) : table[s].tracking = id
    THEN CHOOSE s \in 1 .. Len(table) : IsFirst(table, id, s)
    ELSE 0

LEMMA FirstFound ==
    ASSUME NEW table \in Seq(ShipmentRecord), NEW id
    PROVE  \/ /\ FindIn(table, id) = 0
              /\ \A s \in 1 .. Len(table) : table[s].tracking # id
           \/ /\ FindIn(table, id) \in 1 .. Len(table)
              /\ IsFirst(table, id, FindIn(table, id))
  <1> DEFINE marks == {s \in 1 .. Len(table) : table[s].tracking = id}
  <1>1. CASE marks = {}
    BY <1>1 DEF FindIn
  <1>2. CASE marks # {}
    <2>1. Len(table) \in Nat /\ marks \in SUBSET (1 .. Len(table))
      OBVIOUS
    <2>2. PICK i \in marks : \A j \in 1 .. i-1 : j \notin marks
      <3> HIDE DEF marks
      <3> QED BY <1>2, <2>1, FirstPosition
    <2>3. i \in 1 .. Len(table) /\ IsFirst(table, id, i)
      BY <2>1, <2>2 DEF IsFirst
    <2> QED BY <1>2, <2>3 DEF FindIn
  <1> QED BY <1>1, <1>2

LEMMA FirstStays ==
    ASSUME NEW table \in Seq(ShipmentRecord), NEW longer \in Seq(ShipmentRecord),
           Len(table) <= Len(longer),
           \A r \in 1 .. Len(table) : longer[r].tracking = table[r].tracking,
           NEW id
    PROVE  FindIn(table, id) \in {0, FindIn(longer, id)}
  <1> DEFINE old == FindIn(table, id)
             new == FindIn(longer, id)
  <1>1. SUFFICES ASSUME old # 0 PROVE old = new
    OBVIOUS
  <1>2. old \in 1 .. Len(table) /\ IsFirst(table, id, old)
    BY <1>1, FirstFound
  <1>3. old \in 1 .. Len(longer) /\ longer[old].tracking = id
    BY <1>2 DEF IsFirst
  <1>4. new \in 1 .. Len(longer) /\ IsFirst(longer, id, new)
    BY <1>3, FirstFound
  <1> HIDE DEF old, new
  <1>5. ~ (old < new)
    BY <1>3, <1>4 DEF IsFirst
  <1>6. ~ (new < old)
    <2> SUFFICES ASSUME new < old PROVE FALSE
      OBVIOUS
    <2>1. new \in 1 .. old-1 /\ new \in 1 .. Len(table)
      BY <1>2, <1>4
    <2>2. table[new].tracking # id
      BY <1>2, <2>1 DEF IsFirst
    <2>3. longer[new].tracking = id
      BY <1>4 DEF IsFirst
    <2> QED BY <2>1, <2>2, <2>3
  <1> QED BY <1>2, <1>4, <1>5, <1>6

IdsStay ==
    reply'.op # "boot" =>
        \A id \in Tracking : FindByTracking(id) \in {0, FindByTracking(id)'}

LEMMA LookupKept ==
    ASSUME TypeOK, TypeOK', Len(shipments) <= Len(shipments'),
           \A r \in 1 .. Len(shipments) :
                shipments'[r].tracking = shipments[r].tracking
    PROVE  IdsStay
  <1>1. shipments \in Seq(ShipmentRecord) /\ shipments' \in Seq(ShipmentRecord)
    BY DEF TypeOK
  <1>2. Slots = 1 .. Len(shipments) /\ Slots' = 1 .. Len(shipments')
    BY <1>1 DEF Slots
  <1>3. ASSUME NEW id
        PROVE  /\ FindByTracking(id) = FindIn(shipments, id)
               /\ FindByTracking(id)' = FindIn(shipments', id)
    BY <1>2 DEF FindByTracking, FindIn, IsFirst
  <1>4. \A id : FindIn(shipments, id) \in {0, FindIn(shipments', id)}
    BY <1>1, FirstStays
  <1> QED BY <1>3, <1>4 DEF IdsStay

(***************************************************************************)
(* A tracking id goes on naming the shipment it named, until a restart:    *)
(* look-ups return the first match, no update changes an id, and bookings  *)
(* go to the end of the table.                                             *)
(***************************************************************************)
THEOREM TrackingIdsKeepShipments == Spec => TrackingIdKeepsItsShipment
  <1>1. ASSUME TypeOK, TypeOK', [Next]_vars
        PROVE  IdsStay
    <2>1. CASE Unchanged
      <3>1. shipments' = shipments
        BY <2>1 DEF Unchanged
      <3> QED BY <1>1, <3>1, LookupKept, Tables DEF TableTypes
    <2>2. ASSUME NEW table, NEW log, NEW s, NEW status, NEW by, NEW place,
                 Update(table, log, s, status, by, place)
          PROVE  IdsStay
      <3>1. /\ Len(shipments') = Len(shipments)
            /\ \A r \in Slots : shipments'[r].tracking = shipments[r].tracking
        BY <1>1, <2>2, UpdateEffect
      <3> QED BY <1>1, <3>1, LookupKept, Tables DEF TableTypes
    <2>3. ASSUME NEW n, NEW caller, NEW origin, NEW ids,
                 Booking(n, caller, origin, ids)
          PROVE  IdsStay
      <3>1. /\ Len(shipments') = Len(shipments) + Stored(n) /\ Stored(n) \in Nat
            /\ \A r \in 1 .. Len(shipments) : shipments'[r] = shipments[r]
        BY <1>1, <2>3, BookingFacts
      <3> QED BY <1>1, <3>1, LookupKept, Tables DEF TableTypes
    <2>4. CASE Init'
      <3>1. reply'.op = "boot"
        BY <2>4 DEF Init, BootReply
      <3> QED BY <3>1 DEF IdsStay
    <2> QED BY <1>1, <2>1, <2>2, <2>3, <2>4, StepCases DEF StepCase
  <1>2. TypeOK /\ TypeOK' /\ [Next]_vars => [IdsStay]_TrackingIds
    BY <1>1
  <1>3. Spec => [][IdsStay]_TrackingIds
    BY <1>2, TypeCorrect, PTL DEF Spec
  <1> QED BY <1>3 DEF IdsStay, TrackingIdKeepsItsShipment
================================================================================
