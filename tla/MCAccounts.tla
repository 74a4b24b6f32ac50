------------------------------ MODULE MCAccounts ------------------------------
(***************************************************************************)
(* A small instance of the accounts: the real seed and room for one more   *)
(* account under two ids, so that an account can be lost in a restart and  *)
(* its place taken by another.  One new address, a seed address in another *)
(* spelling, and an address that does not fit.                             *)
(***************************************************************************)
EXTENDS Accounts

MCEmails == {[addr |-> "u1", form |-> "mixed"], [addr |-> "e8", form |-> "lower"],
             [addr |-> "e9", form |-> "long"]}
===============================================================================
