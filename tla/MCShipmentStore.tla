---------------------------- MODULE MCShipmentStore ----------------------------
(***************************************************************************)
(* A small instance of the shipment store: the real seed, room for two     *)
(* more shipments, three more checkpoints and three more audit entries, so *)
(* that every table fills, in every order, the audit log also in the       *)
(* middle of a dispatch.                                                   *)
(***************************************************************************)
EXTENDS ShipmentProps

User(id, role) == [id |-> id, role |-> role, known |-> TRUE]

MCManagers == {User("u2", HUB_MANAGER), User("u5", STANDARD_CUSTOMER)}
===============================================================================
