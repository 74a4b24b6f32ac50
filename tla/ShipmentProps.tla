----------------------------- MODULE ShipmentProps -----------------------------
(***************************************************************************)
(* What the shipment store promises.                                       *)
(***************************************************************************)
EXTENDS ShipmentStore, FiniteSets

HistoryFull == Len(checkpoints) = MaxCheckpoints
AuditFull   == Len(audit) = MaxAudits

\* Checkpoint i is the most recent one of its shipment.
IsLastEvent(i) ==
    \A j \in i+1 .. Len(checkpoints) :
        checkpoints[j].shipment # checkpoints[i].shipment

(***************************************************************************)
(* Until the checkpoint table is full, the status stored in a shipment is  *)
(* the status of its most recent checkpoint: the two places where          *)
(* db_update_shipment_status writes a status never drift apart, whichever  *)
(* handlers ran and in whatever order.                                     *)
(***************************************************************************)
StatusIsLastEvent ==
    ~ HistoryFull =>
        \A i \in DOMAIN checkpoints :
            IsLastEvent(i) =>
                shipments[checkpoints[i].shipment].status = checkpoints[i].status

(***************************************************************************)
(* Until the checkpoint table is full, the history of every shipment       *)
(* booked since boot opens with the checkpoint of its booking, even when   *)
(* bookings, bulk bookings and scans of other shipments interleave.        *)
(***************************************************************************)
HistoryOpensWithBooking ==
    ~ HistoryFull =>
        \A s \in Len(SeedShipments) + 1 .. Len(shipments) :
            \E i \in DOMAIN checkpoints :
                /\ checkpoints[i].shipment = s
                /\ checkpoints[i].note = "booking"
                /\ \A j \in 1 .. i-1 : checkpoints[j].shipment # s

(***************************************************************************)
(* A shipment that carries proof-of-delivery data was reported delivered   *)
(* at some moment of its history, or the history had no room left.         *)
(***************************************************************************)
ProofImpliesDelivery ==
    ~ HistoryFull =>
        \A s \in Slots :
            shipments[s].signature # None \/ shipments[s].image # None =>
                \E i \in DOMAIN checkpoints :
                    /\ checkpoints[i].shipment = s
                    /\ checkpoints[i].status = "DELIVERED"

(***************************************************************************)
(* Every status change in the tracking history was made by a caller who    *)
(* held at least the role of a delivery agent.                             *)
(***************************************************************************)
UpdatesAreByStaff ==
    \A i \in DOMAIN checkpoints :
        checkpoints[i].note = "update" =>
            \E c \in Callers :
                c.id = checkpoints[i].by /\ c.role <= DELIVERY_AGENT

(***************************************************************************)
(* The audit log and the tracking history record the same status changes   *)
(* in the same order: one of the two trails is always a prefix of the      *)
(* other, and they are equal while both tables have room.                  *)
(***************************************************************************)
Updates == {i \in DOMAIN checkpoints : checkpoints[i].note = "update"}
Changes == {j \in DOMAIN audit : audit[j].action = "STATUS_CHANGE"}

\* The place of i among the marked entries, from 1.
Rank(i, marks) == Cardinality(marks \cap 1 .. i)

\* Checkpoint i and audit entry j tell of the same change.
Tell(i, j) ==
    /\ checkpoints[i].by = audit[j].actor
    /\ checkpoints[i].shipment = audit[j].shipment
    /\ checkpoints[i].status = audit[j].detail

TrailsAgree ==
    /\ \A i \in Updates, j \in Changes :
            Rank(i, Updates) = Rank(j, Changes) => Tell(i, j)
    /\ ~ HistoryFull => Cardinality(Updates) >= Cardinality(Changes)
    /\ ~ AuditFull   => Cardinality(Changes) >= Cardinality(Updates)

(***************************************************************************)
(* An agent assignment in the audit log is followed at once by the change  *)
(* to OUT_FOR_DELIVERY of the same shipment by the same actor, unless the  *)
(* assignment took the last entry of the log.                              *)
(***************************************************************************)
DispatchIsLoggedWhole ==
    \A i \in DOMAIN audit :
        audit[i].action = "AGENT_ASSIGNMENT" /\ i < MaxAudits =>
            /\ i + 1 \in DOMAIN audit
            /\ audit[i+1] = [actor |-> audit[i].actor,
                             shipment |-> audit[i].shipment,
                             action |-> "STATUS_CHANGE",
                             detail |-> "OUT_FOR_DELIVERY"]

(***************************************************************************)
(* A bulk booking answers with the number of shipments it really stored,   *)
(* each of them under a slot of its own, also when the table fills up in   *)
(* the middle of the batch; and a refused request of any kind has changed  *)
(* no table.                                                               *)
(***************************************************************************)
RepliesAreTruthful ==
    [][ /\ reply'.op = "bulk" =>
              Len(shipments') = Len(shipments) + reply'.booked
        /\ ~ reply'.ok => UNCHANGED <<shipments, checkpoints, audit>>
      ]_vars

TrackingIds == [s \in Slots |-> shipments[s].tracking]

(***************************************************************************)
(* A tracking id goes on naming the shipment it named, until a restart:    *)
(* ids are drawn from the clock and 16 random bits and compared with       *)
(* nothing, so two shipments may share one, but the newer one never takes  *)
(* scans and look-ups away from the older one.                             *)
(***************************************************************************)
TrackingIdKeepsItsShipment ==
    [][ reply'.op # "boot" =>
            \A id \in Tracking : FindByTracking(id) \in {0, FindByTracking(id)'}
      ]_TrackingIds

(***************************************************************************)
(* The store implements the bounded event ledger: forget callers, hubs,    *)
(* tracking ids, proofs and the audit log, keep statuses and the order of  *)
(* events.  A bulk booking is one step of the ledger.                      *)
(***************************************************************************)
StatusesOf(table) == [s \in DOMAIN table |-> table[s].status]

EventsOf(table) ==
    [i \in DOMAIN table |-> [shipment |-> table[i].shipment,
                             status |-> table[i].status]]

Ledger == INSTANCE ShipmentLedger WITH
    Status <- Statuses, NewStatus <- "ORDER_CREATED",
    Capacity <- MaxCheckpoints, LargestBatch <- MaxShipments,
    FirstStatuses <- StatusesOf(SeedShipments),
    FirstEvents <- EventsOf(SeedCheckpoints),
    current <- StatusesOf(shipments),
    events <- EventsOf(checkpoints)

ImplementsLedger == Ledger!LedgerSpec
================================================================================
