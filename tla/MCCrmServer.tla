------------------------------ MODULE MCCrmServer ------------------------------
(***************************************************************************)
(* A small instance of the server: the hub manager's address and one new   *)
(* address, two roles to be given, room for one more account, and a store  *)
(* with room for one booking, two checkpoints and one audit entry.         *)
(***************************************************************************)
EXTENDS CrmServer

MCEmails == {[addr |-> "u2", form |-> "lower"], [addr |-> "e8", form |-> "lower"]}
===============================================================================
