------------------------------- MODULE CrmProofs -------------------------------
(***************************************************************************)
(* Proofs about the server as a whole, for any capacities and any inputs.  *)
(*                                                                         *)
(* The caller of a request is a caller the store is specified for          *)
(* (KnownCaller), so a step of the server is a step of each component or   *)
(* leaves it alone: the theorems of both components hold of the server,    *)
(* and what a request leaves in the tables (RequestLeaves, IdsStay) can be *)
(* put together with what the user table says of its caller.               *)
(***************************************************************************)
EXTENDS CrmServer, SequenceTheorems, TLAPS

LEMMA Assumptions == A!AccountAssumption /\ S!CapacityAssumption /\ S!InputAssumption
  BY ServerAssumption DEF ServerAssumption

LEMMA KnownCaller ==
    ASSUME A!TypeOK, NEW t
    PROVE  /\ CallerOf(t) \in S!Anyone
           /\ CallerOf(t) # NoCaller =>
                /\ A!Resolve(t) \in DOMAIN users
                /\ CallerOf(t) = [id |-> users[A!Resolve(t)].id, known |-> TRUE,
                                  role |-> users[A!Resolve(t)].role]
  <1>1. CASE A!Resolve(t) = 0
    BY <1>1 DEF CallerOf, S!Anyone, NoCaller, S!NoCaller, None, S!None,
       STANDARD_CUSTOMER, S!STANDARD_CUSTOMER
  <1>2. CASE A!Resolve(t) # 0
    <2>1. A!Resolve(t) \in DOMAIN users
      BY <1>2, A!TableDomain, A!Resolved, Assumptions
    <2>2. users[A!Resolve(t)] \in A!UserRecord
      BY <2>1, A!TableDomain, Assumptions
    <2>3. users[A!Resolve(t)].id \in A!Ids /\ users[A!Resolve(t)].role \in A!Roles
      BY <2>2 DEF A!UserRecord
    <2>4. CallerOf(t) = [id |-> users[A!Resolve(t)].id, known |-> TRUE,
                         role |-> users[A!Resolve(t)].role]
      BY <1>2 DEF CallerOf
    <2>5. A!Roles = Roles
      BY DEF A!Roles, Roles, A!SUPER_ADMIN, A!STANDARD_CUSTOMER, SUPER_ADMIN,
         STANDARD_CUSTOMER
    <2>6. CallerOf(t) \in PossibleCallers
      BY <2>3, <2>4, <2>5 DEF PossibleCallers
    <2> QED BY <2>1, <2>4, <2>6 DEF S!Anyone
  <1> QED BY <1>1, <1>2

\* A step of the server is a step of both components, or of one while the
\* other rests.
LEMMA StepOfBoth ==
    ASSUME TypeOK, [Next]_vars
    PROVE  /\ [A!Next]_(A!vars)
           /\ [S!ServerNext]_(S!vars)
  <1>1. CASE AccountStep
    BY <1>1 DEF AccountStep, A!Next, storeVars, S!vars
  <1>2. CASE ShipmentStep
    <2>1. PICK t \in tokens \cup {A!NoToken} : S!RequestBy(CallerOf(t))
      BY <1>2 DEF ShipmentStep
    <2>2. CallerOf(t) \in S!Anyone
      BY KnownCaller DEF TypeOK
    <2> QED BY <1>2, <2>1, <2>2
         DEF ShipmentStep, S!Requests, S!ServerNext, accountVars, A!vars
  <1>3. CASE Restart
    BY <1>3 DEF Restart, A!Next, S!ServerNext
  <1>4. CASE UNCHANGED vars
    BY <1>4 DEF vars, accountVars, storeVars, A!vars, S!vars
  <1> QED BY <1>1, <1>2, <1>3, <1>4 DEF Next

--------------------------------------------------------------------------------
(* Types and refinement.                                                   *)

\* Every reachable state of the server has the types of both components.
THEOREM ServerTypes == Spec => []TypeOK
  <1>1. Init => TypeOK
    BY A!SeedType, A!BootType, S!InitType, Assumptions DEF Init, TypeOK, A!Init, A!TypeOK
  <1>2. TypeOK /\ [Next]_vars => TypeOK'
    <2> SUFFICES ASSUME TypeOK, [Next]_vars PROVE TypeOK'
      OBVIOUS
    <2>1. A!TypeOK /\ [A!Next]_(A!vars)
      BY StepOfBoth DEF TypeOK
    <2>2. A!TypeOK'
      BY <2>1, A!StepEffect, A!EffectType, Assumptions
    <2>3. S!TypeOK /\ [S!Next]_(S!vars)
      BY StepOfBoth DEF TypeOK, S!ServerNext, S!Next
    <2>4. S!TypeOK'
      BY <2>3, S!StepType, Assumptions
    <2> QED BY <2>2, <2>4 DEF TypeOK
  <1> QED BY <1>1, <1>2, PTL DEF Spec

\* Seen from its own variables, the server's store behaves as the module of
\* the store says: theorems about the store hold of the server.
THEOREM ServerRunsStore == Spec => ImplementsStore
  <1>1. Init => S!Init
    BY DEF Init
  <1>2. TypeOK /\ [Next]_vars => [S!ServerNext]_(S!vars)
    BY StepOfBoth
  <1> QED BY <1>1, <1>2, ServerTypes, PTL DEF Spec, ImplementsStore, S!ServerSpec

\* The same for the accounts.
THEOREM ServerRunsAccounts == Spec => ImplementsAccounts
  <1>1. Init => A!Init
    BY DEF Init
  <1>2. TypeOK /\ [Next]_vars => [A!Next]_(A!vars)
    BY StepOfBoth
  <1> QED BY <1>1, <1>2, ServerTypes, PTL DEF Spec, ImplementsAccounts, A!Spec

--------------------------------------------------------------------------------
(* Who changes a status.                                                   *)

LEMMA SeedDomains ==
    /\ DOMAIN S!SeedShipments = 1 .. 4 /\ DOMAIN S!SeedCheckpoints = 1 .. 5
    /\ DOMAIN S!SeedAudit = 1 .. 1
  <1>1. ASSUME NEW Record, NEW table \in Seq(Record)
        PROVE  DOMAIN table = 1 .. Len(table)
    OBVIOUS
  <1>2. /\ S!SeedShipments \in Seq(S!ShipmentRecord) /\ Len(S!SeedShipments) = 4
        /\ S!SeedCheckpoints \in Seq(S!CheckpointRecord)
        /\ Len(S!SeedCheckpoints) = 5
        /\ S!SeedAudit \in Seq(S!AuditRecord) /\ Len(S!SeedAudit) = 1
    BY S!SeedTypes, Assumptions
  <1> QED BY <1>1, <1>2

\* The caller of a request of staff is an account with a role of staff.
LEMMA StaffCaller ==
    ASSUME A!TypeOK, NEW t, CallerOf(t) \in S!Staff
    PROVE  \E u \in DOMAIN users : /\ users[u].id = CallerOf(t).id
                                   /\ users[u].role <= DELIVERY_AGENT
  <1>1. CallerOf(t).known = TRUE /\ CallerOf(t).role <= DELIVERY_AGENT
    BY DEF S!Staff, PossibleCallers, S!DELIVERY_AGENT, DELIVERY_AGENT
  <1>2. CallerOf(t) # NoCaller
    BY <1>1 DEF NoCaller
  <1> QED BY <1>1, <1>2, KnownCaller

\* Whoever changes a status holds a role of staff at that moment.
THEOREM CurrentStaffUpdates == Spec => UpdatesByCurrentStaff
  <1> DEFINE ByStaff ==
        \A i \in DOMAIN checkpoints' \ DOMAIN checkpoints :
            checkpoints'[i].note = "update" =>
                \E u \in DOMAIN users : /\ users[u].id = checkpoints'[i].by
                                        /\ users[u].role <= DELIVERY_AGENT
  <1>1. ASSUME TypeOK, Next PROVE ByStaff
    <2>1. CASE AccountStep
      BY <2>1 DEF AccountStep, storeVars
    <2>2. CASE ShipmentStep
      <3>1. PICK t \in tokens \cup {A!NoToken} : S!RequestBy(CallerOf(t))
        BY <2>2 DEF ShipmentStep
      <3>2. S!RequestEffect(CallerOf(t))
        BY <1>1, <3>1, KnownCaller, S!RequestLeaves, Assumptions DEF TypeOK
      <3>3. \A i \in DOMAIN checkpoints' \ DOMAIN checkpoints :
                /\ checkpoints'[i].by = CallerOf(t).id
                /\ checkpoints'[i].note = "update" => CallerOf(t) \in S!Staff
        BY <3>2 DEF S!RequestEffect
      <3> QED BY <1>1, <3>3, StaffCaller DEF TypeOK
    <2>3. CASE Restart
      <3>1. checkpoints' = S!SeedCheckpoints
        BY <2>3 DEF Restart, S!Restart
      <3>2. DOMAIN S!SeedCheckpoints = 1 .. 5
        BY SeedDomains
      <3>3. \A i \in 1 .. 5 : S!SeedCheckpoints[i].note = "seed"
        BY S!SeedFields, Assumptions
      <3> QED BY <3>1, <3>2, <3>3
    <2> QED BY <1>1, <2>1, <2>2, <2>3 DEF Next
  <1> QED BY <1>1, ServerTypes, PTL DEF Spec, UpdatesByCurrentStaff

--------------------------------------------------------------------------------
(* References to accounts.                                                 *)

SeedAccountable == {None} \cup {A!SeedUsers[u].id : u \in DOMAIN A!SeedUsers}

LEMMA SeedReferences ==
    /\ \A s \in 1 .. 4 : {S!SeedShipments[s].sender, S!SeedShipments[s].agent}
                                \subseteq SeedAccountable
    /\ \A i \in 1 .. 5 : S!SeedCheckpoints[i].by \in SeedAccountable
    /\ S!SeedAudit[1].actor \in SeedAccountable
  <1>1. "u1" \in SeedAccountable /\ "u3" \in SeedAccountable
    BY DEF SeedAccountable, A!SeedUsers, A!SeedUser
  <1>2. None \in SeedAccountable /\ S!None = None
    BY DEF SeedAccountable, None, S!None
  <1>3. /\ S!SeedShipments[1].sender = None /\ S!SeedShipments[1].agent = "u3"
        /\ S!SeedShipments[2].sender = None /\ S!SeedShipments[2].agent = None
        /\ S!SeedShipments[3].sender = None /\ S!SeedShipments[3].agent = None
        /\ S!SeedShipments[4].sender = None /\ S!SeedShipments[4].agent = "u3"
    BY <1>2 DEF S!SeedShipments, S!SeedShipment
  <1>4. /\ S!SeedCheckpoints[1].by = None /\ S!SeedCheckpoints[2].by = None
        /\ S!SeedCheckpoints[3].by = None /\ S!SeedCheckpoints[4].by = None
        /\ S!SeedCheckpoints[5].by = None
    BY <1>2 DEF S!SeedCheckpoints, S!SeedCheckpoint
  <1>5. S!SeedAudit[1].actor = "u1"
    BY DEF S!SeedAudit
  <1> QED BY <1>1, <1>2, <1>3, <1>4, <1>5

LEMMA SeedsAreStored ==
    ASSUME users = A!SeedUsers, shipments = S!SeedShipments,
           checkpoints = S!SeedCheckpoints, audit = S!SeedAudit
    PROVE  ReferencesAreStored
  <1>1. /\ DOMAIN S!SeedShipments = 1 .. 4 /\ DOMAIN S!SeedCheckpoints = 1 .. 5
        /\ DOMAIN S!SeedAudit = 1 .. 1
    BY SeedDomains
  <1> QED BY <1>1, SeedReferences
       DEF ReferencesAreStored, Accountable, SeedAccountable, S!Slots

\* Until a restart nobody is removed from the table.
LEMMA AccountableGrows ==
    ASSUME A!TypeOK, [A!Next]_(A!vars), answer'.op # "boot"
    PROVE  Accountable \subseteq Accountable'
  <1>1. A!TableStep
    BY A!StepEffect, Assumptions DEF A!Effect
  <1>2. \A u \in DOMAIN users : u \in DOMAIN users' /\ users'[u].id = users[u].id
    BY <1>1, A!IdsStay, Assumptions
  <1> QED BY <1>2 DEF Accountable

\* Every sender, agent, scanner and actor the store names is in the user
\* table, also after a restart.
THEOREM ReferencesStored == Spec => []ReferencesAreStored
  <1>1. Init => ReferencesAreStored
    BY SeedsAreStored DEF Init, A!Init, S!Init
  <1>2. ASSUME TypeOK, ReferencesAreStored, [Next]_vars PROVE ReferencesAreStored'
    <2>1. CASE AccountStep
      <3>1. answer'.op # "boot"
        BY <2>1, A!RunningReplies, Assumptions DEF AccountStep
      <3>2. Accountable \subseteq Accountable'
        BY <1>2, <3>1, StepOfBoth, AccountableGrows DEF TypeOK
      <3> QED BY <1>2, <2>1, <3>2 DEF AccountStep, storeVars, ReferencesAreStored, S!Slots
    <2>2. CASE ShipmentStep
      <3>1. PICK t \in tokens \cup {A!NoToken} : S!RequestBy(CallerOf(t))
        BY <2>2 DEF ShipmentStep
      <3>2. S!RequestEffect(CallerOf(t))
        BY <1>2, <3>1, KnownCaller, S!RequestLeaves, Assumptions DEF TypeOK
      <3>3. CallerOf(t).id \in Accountable /\ None \in Accountable
        BY <1>2, KnownCaller DEF TypeOK, Accountable, NoCaller
      <3>4. Accountable' = Accountable
        BY <2>2 DEF ShipmentStep, accountVars, Accountable
      <3>5. \A s \in DOMAIN shipments' :
                {shipments'[s].sender, shipments'[s].agent} \subseteq Accountable
        <4> SUFFICES ASSUME NEW s \in DOMAIN shipments'
                     PROVE  /\ shipments'[s].sender \in Accountable
                            /\ shipments'[s].agent \in Accountable
          OBVIOUS
        <4>1. CASE s \in S!Slots
          <5>1. /\ shipments'[s].sender = shipments[s].sender
                /\ shipments'[s].agent = shipments[s].agent
            BY <3>2, <4>1 DEF S!RequestEffect
          <5>2. /\ shipments[s].sender \in Accountable
                /\ shipments[s].agent \in Accountable
            BY <1>2, <4>1 DEF ReferencesAreStored
          <5> QED BY <5>1, <5>2
        <4>2. CASE s \notin S!Slots
          <5>1. shipments'[s].sender = CallerOf(t).id /\ shipments'[s].agent = S!None
            BY <3>2, <4>2 DEF S!RequestEffect
          <5> QED BY <3>3, <5>1 DEF None, S!None
        <4> QED BY <4>1, <4>2
      <3>6. \A i \in DOMAIN checkpoints' : checkpoints'[i].by \in Accountable
        BY <1>2, <3>2, <3>3 DEF S!RequestEffect, ReferencesAreStored
      <3>7. \A i \in DOMAIN audit' : audit'[i].actor \in Accountable
        BY <1>2, <3>2, <3>3 DEF S!RequestEffect, ReferencesAreStored
      <3> QED BY <3>4, <3>5, <3>6, <3>7 DEF ReferencesAreStored, S!Slots
    <2>3. CASE Restart
      <3>1. /\ users' = A!SeedUsers /\ shipments' = S!SeedShipments
            /\ checkpoints' = S!SeedCheckpoints /\ audit' = S!SeedAudit
        BY <2>3 DEF Restart, A!Restart, S!Restart
      <3>2. /\ DOMAIN S!SeedShipments = 1 .. 4 /\ DOMAIN S!SeedCheckpoints = 1 .. 5
            /\ DOMAIN S!SeedAudit = 1 .. 1
        BY SeedDomains
      <3> QED BY <3>1, <3>2, SeedReferences
           DEF ReferencesAreStored, Accountable, SeedAccountable, S!Slots
    <2>4. CASE UNCHANGED vars
      BY <1>2, <2>4 DEF vars, accountVars, storeVars, ReferencesAreStored, Accountable, S!Slots
    <2> QED BY <1>2, <2>1, <2>2, <2>3, <2>4 DEF Next
  <1>3. TypeOK /\ ReferencesAreStored /\ [Next]_vars => ReferencesAreStored'
    BY <1>2
  <1> QED BY <1>1, <1>3, ServerTypes, PTL DEF Spec

--------------------------------------------------------------------------------
(* Listings.                                                               *)

\* What a listing shows does not shrink while the process runs.
THEOREM ListingsGrow == Spec => ListingsOnlyGrow
  <1> DEFINE Keeps(t) ==
        \A before \in {CallerOf(t)}, after \in {CallerOf(t)'} :
            before.role = after.role => Listed(before) \subseteq Listed(after)'
  <1>1. ASSUME TypeOK, Next, ~ JustBooted', NEW t \in tokens \cap tokens',
               A!AccountOf(t) = t.sub
        PROVE  Keeps(t)
    <2>1. CASE AccountStep
      <3>1. answer'.op # "boot"
        BY <2>1, A!RunningReplies, Assumptions DEF AccountStep
      <3>2. /\ A!AccountOf(t)' = t.sub
            /\ A!Resolve(t) # 0 /\ A!Resolve(t)' # 0
        BY <1>1, <3>1, StepOfBoth, A!TokenKept, Assumptions DEF TypeOK
      <3>3. CallerOf(t).id = t.sub /\ CallerOf(t).known = TRUE
        BY <1>1, <3>2 DEF CallerOf, A!AccountOf
      <3>4. CallerOf(t)'.id = t.sub /\ CallerOf(t)'.known = TRUE
        BY <3>2 DEF CallerOf, A!AccountOf
      <3>5. shipments' = shipments
        BY <2>1 DEF AccountStep, storeVars
      <3>6. ASSUME NEW before, NEW after, before.id = after.id,
                   before.known = after.known, before.role = after.role
            PROVE  Listed(before) \subseteq Listed(after)'
        BY <3>5, <3>6 DEF Listed, S!Slots
      <3> QED BY <3>3, <3>4, <3>6
    <2>2. CASE ShipmentStep
      <3>1. PICK u \in tokens \cup {A!NoToken} : S!RequestBy(CallerOf(u))
        BY <2>2 DEF ShipmentStep
      <3>2. S!RequestEffect(CallerOf(u))
        BY <1>1, <3>1, KnownCaller, S!RequestLeaves, Assumptions DEF TypeOK
      <3>3. CallerOf(t)' = CallerOf(t)
        <4>1. users' = users
          BY <2>2 DEF ShipmentStep, accountVars
        <4>2. \A id : A!FindById(id)' = A!FindById(id)
          BY <4>1 DEF A!FindById
        <4>3. \A email : A!FindByEmail(email)' = A!FindByEmail(email)
          BY <4>1 DEF A!FindByEmail
        <4>4. A!Resolve(t)' = A!Resolve(t)
          BY <4>2, <4>3 DEF A!Resolve
        <4> QED BY <4>1, <4>4 DEF CallerOf
      <3>4. \A s \in S!Slots : /\ s \in S!Slots'
                               /\ shipments'[s].sender = shipments[s].sender
                               /\ shipments'[s].agent = shipments[s].agent
        BY <3>2 DEF S!RequestEffect, S!Slots
      <3>5. ASSUME NEW c PROVE Listed(c) \subseteq Listed(c)'
        BY <3>4 DEF Listed
      <3> QED BY <3>3, <3>5
    <2>3. CASE Restart
      BY <1>1, <2>3 DEF Restart, A!Restart, S!Restart, A!BootReply, S!BootReply, JustBooted
    <2> HIDE DEF Keeps
    <2> QED BY <1>1, <2>1, <2>2, <2>3 DEF Next
  <1>2. TypeOK /\ Next => (~ JustBooted' =>
            \A t \in tokens \cap tokens' : A!AccountOf(t) = t.sub => Keeps(t))
    <2> HIDE DEF Keeps
    <2> QED BY <1>1
  <1> QED BY <1>2, ServerTypes, PTL DEF Spec, ListingsOnlyGrow
================================================================================
