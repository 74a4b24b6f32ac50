------------------------------- MODULE CrmServer -------------------------------
(***************************************************************************)
(* The running server: the accounts and the shipment store of one process, *)
(* put together by server_dispatch_api.                                    *)
(*                                                                         *)
(* A request carries a token or none.  Before anything else the dispatcher *)
(* looks the token's account up in the user table as it is at that moment; *)
(* the store's handlers see only the result, the caller.  So who may scan, *)
(* and whose shipments a listing shows, depends on edits, registrations    *)
(* and restarts that happened since the token was issued.  The two         *)
(* components have tables of their own and start over together.            *)
(*                                                                         *)
(* Each step of this module is a step of one component while the other     *)
(* rests, or a restart of both.  The components come as instances of the   *)
(* modules that prove their theorems, so that CrmProofs can cite them.     *)
(***************************************************************************)
EXTENDS CrmData

CONSTANTS
    MaxUsers, MaxTokens, NewIds, Emails, Secrets, Names, RoleTexts, Pictures,
    Targets, ServerSecret,
    MaxShipments, MaxCheckpoints, MaxAudits, MaxBatch, GeneratedIds, ScanIds,
    ScanHubs, LocationTags, StatusTexts, Origins, Agents, TargetSlots,
    Signatures, Images

VARIABLES
    users, tokens, answer,                  \* the accounts
    shipments, checkpoints, audit, reply    \* the store

accountVars == <<users, tokens, answer>>
storeVars   == <<shipments, checkpoints, audit, reply>>
vars        == <<accountVars, storeVars>>

A == INSTANCE AccountProofs WITH reply <- answer

\* Any account, in any role, may turn up as the caller of a request.
PossibleCallers == [id : A!Ids, role : Roles, known : {TRUE}]

S == INSTANCE ShipmentProofs WITH Callers <- PossibleCallers

ASSUME ServerAssumption ==
    A!AccountAssumption /\ S!CapacityAssumption /\ S!InputAssumption

TypeOK == A!TypeOK /\ S!TypeOK

(***************************************************************************)
(* The caller of a request: the account its token stands for now.          *)
(***************************************************************************)
\* A seed account keeps the role it was seeded with.
FaultyCallerOf(token) ==
    LET i == A!Resolve(token)
    IN  IF i = 0 THEN NoCaller
        ELSE [id |-> users[i].id, known |-> TRUE,
              role |-> IF i <= Len(A!SeedUsers) THEN A!SeedUsers[i].role
                                                ELSE users[i].role]

CallerOf(token) ==
    LET i == A!Resolve(token)
    IN  IF i = 0 THEN NoCaller
        ELSE [id |-> users[i].id, role |-> users[i].role, known |-> TRUE]

(***************************************************************************)
(* handle_shipment_list: customers are shown what they sent, agents what   *)
(* they carry, everyone else, a caller without account included, all of    *)
(* it.                                                                     *)
(***************************************************************************)
Listed(caller) ==
    {s \in S!Slots :
        caller.known =>
            CASE caller.role \in {STANDARD_CUSTOMER, ENTERPRISE_CUSTOMER} ->
                    shipments[s].sender = caller.id
              [] caller.role = DELIVERY_AGENT -> shipments[s].agent = caller.id
              [] OTHER -> TRUE}

(***************************************************************************)
(* Steps.                                                                  *)
(***************************************************************************)
Init == A!Init /\ S!Init

AccountStep == A!Running /\ UNCHANGED storeVars

ShipmentStep ==
    /\ \E t \in tokens \cup {A!NoToken} : S!RequestBy(CallerOf(t))
    /\ UNCHANGED accountVars

\* The user table is seeded again and the shipments stay.
FaultyRestart == A!Restart /\ UNCHANGED storeVars

\* db_init seeds all tables; tokens are with the clients and stay.
Restart == A!Restart /\ S!Restart

Next == AccountStep \/ ShipmentStep \/ Restart
Spec == Init /\ [][Next]_vars

JustBooted == answer.op = "boot" /\ reply.op = "boot"

(***************************************************************************)
(* Properties.                                                             *)
(***************************************************************************)
(***************************************************************************)
(* Whoever changes a status holds the role of staff at that moment: an     *)
(* account that was demoted through the update endpoint loses the right at *)
(* once, also with the token issued before, and one that was promoted      *)
(* gains it.                                                               *)
(***************************************************************************)
UpdatesByCurrentStaff ==
    [][ \A i \in DOMAIN checkpoints' \ DOMAIN checkpoints :
            checkpoints'[i].note = "update" =>
                \E u \in DOMAIN users :
                    /\ users[u].id = checkpoints'[i].by
                    /\ users[u].role <= DELIVERY_AGENT ]_vars

(***************************************************************************)
(* Every sender, agent, scanner and actor the store names is an account    *)
(* that exists, as the foreign keys of schema.sql ask: also after a        *)
(* restart, which forgets accounts whose tokens are still in use.          *)
(***************************************************************************)
Accountable == {None} \cup {users[u].id : u \in DOMAIN users}

ReferencesAreStored ==
    /\ \A s \in S!Slots : {shipments[s].sender, shipments[s].agent}
                                \subseteq Accountable
    /\ \A i \in DOMAIN checkpoints : checkpoints[i].by \in Accountable
    /\ \A i \in DOMAIN audit : audit[i].actor \in Accountable

(***************************************************************************)
(* What the listing shows to the holder of a token does not shrink while   *)
(* the process runs and the role of the account stays: no registration,    *)
(* edit or booking by anyone makes a shipment of theirs disappear.         *)
(***************************************************************************)
ListingsOnlyGrow ==
    [][ ~ JustBooted' =>
          \A t \in tokens \cap tokens' :
              A!AccountOf(t) = t.sub =>
                  \A before \in {CallerOf(t)}, after \in {CallerOf(t)'} :
                      before.role = after.role =>
                          Listed(before) \subseteq Listed(after)' ]_vars

(***************************************************************************)
(* Seen alone, each half behaves as its own module says: whatever callers  *)
(* the accounts produce are callers the store is specified for, so all     *)
(* that is shown of the two modules holds of the server.                   *)
(***************************************************************************)
ImplementsStore    == S!ServerSpec
ImplementsAccounts == A!Spec
===============================================================================
