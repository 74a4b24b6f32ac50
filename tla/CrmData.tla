------------------------------- MODULE CrmData -------------------------------
(***************************************************************************)
(* The vocabulary shared by the modules of the courier system: roles and   *)
(* their order, shipment statuses and the conversion from client text, and *)
(* the records that seed_default_memory_db puts in the tables.             *)
(*                                                                         *)
(* Identifiers are abstract.  A shipment is named by the slot it occupies  *)
(* (its 128-bit random id is taken to be unique), hubs and users by short  *)
(* strings, and Null stands for a C null pointer or a missing JSON member. *)
(***************************************************************************)
EXTENDS Integers, Sequences

Null == "NULL"      \* absent argument
None == ""          \* empty string stored in a record

(***************************************************************************)
(* Roles, in the order of the enumeration: a smaller number means more     *)
(* authority.                                                              *)
(***************************************************************************)
SUPER_ADMIN         == 0
HUB_MANAGER         == 1
DELIVERY_AGENT      == 2
ENTERPRISE_CUSTOMER == 3
STANDARD_CUSTOMER   == 4

Roles == SUPER_ADMIN .. STANDARD_CUSTOMER

Statuses == {"ORDER_CREATED", "PICKED_UP", "IN_TRANSIT", "OUT_FOR_DELIVERY",
             "DELIVERED", "FAILED_ATTEMPT", "RETURNED", "EXCEPTION"}

\* A text that names no status is silently read as the first one.
StatusOfText(text) == IF text \in Statuses THEN text ELSE "ORDER_CREATED"

\* The caller of a request: the user its token resolved to, or NoCaller.
NoCaller == [id |-> None, role |-> STANDARD_CUSTOMER, known |-> FALSE]

HasPermission(caller, minimum) ==
    caller.known /\ (caller.role = SUPER_ADMIN \/ caller.role <= minimum)

(***************************************************************************)
(* Seed data.                                                              *)
(***************************************************************************)
SeedHubs == {"H1", "H2", "H3", "H4", "H5", "H6"}

SeedShipment(tracking, status, origin, agent) ==
    [tracking |-> tracking, sender |-> None, origin |-> origin,
     agent |-> agent, status |-> status,
     signature |-> None, image |-> None]

SeedShipments ==
    << SeedShipment("T1", "OUT_FOR_DELIVERY", "H1", "u3"),
       SeedShipment("T2", "IN_TRANSIT",       "H1", None),
       SeedShipment("T3", "PICKED_UP",        "H1", None),
       SeedShipment("T4", "DELIVERED",        "H3", "u3") >>

SeedCheckpoint(shipment, status) ==
    [shipment |-> shipment, status |-> status, hub |-> None, by |-> None,
     place |-> "free text", note |-> "seed"]

SeedCheckpoints ==
    << SeedCheckpoint(1, "ORDER_CREATED"),
       SeedCheckpoint(1, "PICKED_UP"),
       SeedCheckpoint(1, "OUT_FOR_DELIVERY"),
       SeedCheckpoint(2, "ORDER_CREATED"),
       SeedCheckpoint(2, "IN_TRANSIT") >>

SeedAudit ==
    << [actor |-> "u1", action |-> "SYSTEM_INIT", shipment |-> 0,
        detail |-> None] >>
===============================================================================
