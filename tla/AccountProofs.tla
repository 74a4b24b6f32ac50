----------------------------- MODULE AccountProofs -----------------------------
(***************************************************************************)
(* Proofs about the accounts, for tables of any size and any inputs.       *)
(*                                                                         *)
(* A step leaves the user table alone, appends one account whose address   *)
(* is new, replaces one account by another version with the same id, or    *)
(* seeds the table again (TableStep).  Ids therefore stay where they are   *)
(* until a restart, and a token, which is looked up by id first, keeps its *)
(* account.                                                                *)
(***************************************************************************)
EXTENDS Accounts, SequenceTheorems, WellFoundedInduction, TLAPS

Added(user) ==
    /\ user \in UserRecord
    /\ Len(users) < MaxUsers
    /\ FindByEmail(user.email) = 0
    /\ users' = Append(users, user)

Edited(i, user) ==
    /\ i \in DOMAIN users
    /\ user \in UserRecord
    /\ user.id = users[i].id
    /\ users' = [users EXCEPT ![i] = user]

TableStep ==
    \/ users' = users
    \/ \E user : Added(user)
    \/ \E i, user : Edited(i, user)
    \/ users' = SeedUsers /\ reply'.op = "boot"

Effect == TableStep /\ tokens' \subseteq Token /\ reply' \in Reply

--------------------------------------------------------------------------------
(* Lookups.                                                                *)

LEMMA SmallerIsBefore ==
    \A x, y \in Nat : y < x => <<y, x>> \in OpToRel(<, Nat)
  BY Zenon DEF OpToRel

\* A set of natural numbers that is not empty has a least element.
LEMMA LeastElement ==
    ASSUME NEW S, S \subseteq Nat, S # {}
    PROVE  \E i \in S : \A j \in S : i <= j
  <1> DEFINE R == OpToRel(<, Nat)
  <1>1. \A x, y \in Nat : y < x => <<y, x>> \in R
    BY SmallerIsBefore
  <1>2. IsWellFoundedOn(R, Nat)
    BY Zenon, NatLessThanWellFounded
  <1> HIDE DEF R
  <1>3. PICK i \in S : \A j \in S : ~ (<<j, i>> \in R)
    BY <1>2, WFMin
  <1>4. \A j \in S : ~ (j < i)
    BY <1>1, <1>3
  <1>5. ASSUME NEW j \in S PROVE i <= j
    <2>1. ~ (j < i)
      BY <1>4
    <2>2. i \in Nat /\ j \in Nat
      BY <1>3
    <2> QED BY <2>1, <2>2
  <1> QED BY <1>5

\* First returns an element of the set, and 0 only for the empty set.
LEMMA FirstFound ==
    ASSUME NEW S, S \subseteq Nat \ {0}
    PROVE  /\ S # {} => First(S) \in S
           /\ First(S) = 0 <=> S = {}
  <1>1. CASE S = {}
    BY <1>1 DEF First
  <1>2. CASE S # {}
    <2>1. \E i \in S : \A j \in S : i <= j
      BY <1>2, LeastElement
    <2>2. First(S) \in S
      BY <1>2, <2>1 DEF First
    <2> QED BY <1>2, <2>2
  <1> QED BY <1>1, <1>2

LEMMA TableDomain ==
    ASSUME TypeOK
    PROVE  /\ Len(users) \in Nat
           /\ DOMAIN users = 1 .. Len(users)
           /\ DOMAIN users \subseteq Nat \ {0}
           /\ \A i \in DOMAIN users : users[i] \in UserRecord
  <1>1. users \in Seq(UserRecord)
    BY DEF TypeOK
  <1>2. DOMAIN users = 1 .. Len(users) /\ Len(users) \in Nat
    BY <1>1
  <1> QED BY <1>1, <1>2, ElementOfSeq

LEMMA FoundById ==
    ASSUME DOMAIN users \subseteq Nat \ {0}, NEW id
    PROVE  /\ FindById(id) # 0 => /\ FindById(id) \in DOMAIN users
                                  /\ users[FindById(id)].id = id
           /\ FindById(id) # 0 <=> \E i \in DOMAIN users : users[i].id = id
  <1> DEFINE S == {i \in DOMAIN users : users[i].id = id}
  <1>1. S \subseteq Nat \ {0}
    OBVIOUS
  <1>2. FindById(id) = First(S)
    BY DEF FindById
  <1>3. /\ S # {} => First(S) \in S
        /\ First(S) = 0 <=> S = {}
    BY <1>1, FirstFound
  <1> QED BY <1>2, <1>3

LEMMA FoundByEmail ==
    ASSUME DOMAIN users \subseteq Nat \ {0}, NEW email
    PROVE  /\ FindByEmail(email) # 0 => FindByEmail(email) \in DOMAIN users
           /\ FindByEmail(email) = 0 =>
                  \A i \in DOMAIN users : ~ SameEmail(users[i].email, email)
  <1> DEFINE S == {i \in DOMAIN users : SameEmail(users[i].email, email)}
  <1>1. S \subseteq Nat \ {0}
    OBVIOUS
  <1>2. FindByEmail(email) = First(S)
    BY DEF FindByEmail
  <1>3. /\ S # {} => First(S) \in S
        /\ First(S) = 0 <=> S = {}
    BY <1>1, FirstFound
  <1> QED BY <1>2, <1>3

LEMMA FoundByKey ==
    ASSUME DOMAIN users \subseteq Nat \ {0}, NEW key
    PROVE  FindByKey(key) # 0 => FindByKey(key) \in DOMAIN users
  <1> DEFINE S == {i \in DOMAIN users : key # None /\ users[i].key = key}
  <1>1. S \subseteq Nat \ {0}
    OBVIOUS
  <1>2. FindByKey(key) = First(S)
    BY DEF FindByKey
  <1>3. /\ S # {} => First(S) \in S
        /\ First(S) = 0 <=> S = {}
    BY <1>1, FirstFound
  <1> QED BY <1>2, <1>3

LEMMA Resolved ==
    ASSUME DOMAIN users \subseteq Nat \ {0}, NEW token
    PROVE  Resolve(token) # 0 => Resolve(token) \in DOMAIN users
  BY FoundById, FoundByEmail DEF Resolve

--------------------------------------------------------------------------------
(* The values requests carry, and the records made of them.                *)

LEMMA EmailType ==
    \A e \in Emails : e \in Email /\ StoredEmail(e) \in Email
  <1> SUFFICES ASSUME NEW e \in Emails
               PROVE  e \in Email /\ StoredEmail(e) \in Email
    OBVIOUS
  <1>1. /\ e = [addr |-> e.addr, form |-> e.form] /\ e.form \in EmailForms
        /\ e.addr \in Addresses
    BY AccountAssumption DEF Addresses
  <1>2. e \in Email
    BY <1>1 DEF Email
  <1>3. "cut" \in EmailForms
    BY DEF EmailForms
  <1> QED BY <1>2, <1>3 DEF StoredEmail, Email

LEMMA RoleType == \A text : RoleOfText(text) \in Roles
  BY DEF RoleOfText, Roles, SUPER_ADMIN, HUB_MANAGER, DELIVERY_AGENT,
         ENTERPRISE_CUSTOMER, STANDARD_CUSTOMER

LEMMA TokenType ==
    ASSUME NEW user \in UserRecord
    PROVE  TokenFor(user) \in Token /\ TokenFor(user).sub = user.id
  BY DEF TokenFor, Token, UserRecord

LEMMA SeedType ==
    /\ SeedUsers \in Seq(UserRecord)
    /\ Len(SeedUsers) = 7 /\ Len(SeedUsers) <= MaxUsers
  <1>1. \A id \in SeedIds, role \in Roles, key \in SeedKeys :
            SeedUser(id, role, key) \in UserRecord
    BY DEF SeedUser, UserRecord, Ids, Email, Addresses, EmailForms
  <1>2. /\ SUPER_ADMIN \in Roles /\ HUB_MANAGER \in Roles
        /\ DELIVERY_AGENT \in Roles /\ ENTERPRISE_CUSTOMER \in Roles
        /\ STANDARD_CUSTOMER \in Roles
    BY DEF Roles, SUPER_ADMIN, HUB_MANAGER, DELIVERY_AGENT,
           ENTERPRISE_CUSTOMER, STANDARD_CUSTOMER
  <1>3. /\ SeedUser("u1", SUPER_ADMIN, "k1") \in UserRecord
        /\ SeedUser("u2", HUB_MANAGER, "k2") \in UserRecord
        /\ SeedUser("u3", DELIVERY_AGENT, "k3") \in UserRecord
        /\ SeedUser("u4", ENTERPRISE_CUSTOMER, "k4") \in UserRecord
        /\ SeedUser("u5", STANDARD_CUSTOMER, None) \in UserRecord
        /\ SeedUser("u6", ENTERPRISE_CUSTOMER, "k6") \in UserRecord
        /\ SeedUser("u7", STANDARD_CUSTOMER, None) \in UserRecord
    BY <1>1, <1>2 DEF SeedIds, SeedKeys
  <1>4. SeedUsers \in Seq(UserRecord) /\ Len(SeedUsers) = 7
    BY <1>3 DEF SeedUsers
  <1> QED BY <1>4, AccountAssumption

LEMMA BootType == BootReply \in Reply
  BY DEF BootReply, Reply

--------------------------------------------------------------------------------
(* What each action does to the table.                                     *)

ReplyCodes == {200, 400, 401, 404, 409}
Ops == {"boot", "none", "login", "register", "create", "update", "picture"}

LEMMA RefuseEffect ==
    ASSUME TypeOK, NEW op \in Ops, NEW code \in ReplyCodes, Refuse(op, code)
    PROVE  Effect
  <1>1. reply' \in Reply
    BY DEF Refuse, Answer, Reply, Ops, ReplyCodes
  <1> QED BY <1>1 DEF Refuse, Effect, TableStep, TypeOK

LEMMA LoginUserFound ==
    ASSUME TypeOK, NEW email, NEW secret, LoginUser(email, secret) # 0
    PROVE  LoginUser(email, secret) \in DOMAIN users
  BY TableDomain, FoundByEmail, FoundByKey DEF LoginUser

LEMMA LoginEffect ==
    ASSUME TypeOK, NEW email, NEW secret, Login(email, secret)
    PROVE  Effect
  <1>1. CASE email = NoEmail \/ secret = Null
    <2>1. Refuse("login", 400)
      BY <1>1 DEF Login
    <2> QED BY <2>1, RefuseEffect DEF Ops, ReplyCodes
  <1>2. CASE ~ (email = NoEmail \/ secret = Null) /\ LoginUser(email, secret) = 0
    BY <1>2, RefuseEffect DEF Login, Ops, ReplyCodes
  <1>3. CASE ~ (email = NoEmail \/ secret = Null) /\ LoginUser(email, secret) # 0
    <2> DEFINE user == users[LoginUser(email, secret)]
    <2>1. user \in UserRecord
      BY <1>3, LoginUserFound, TableDomain
    <2>2. /\ tokens' = tokens \cup {TokenFor(user)} /\ users' = users
          /\ Answer("login", TRUE, 200, user.id)
      BY <1>3 DEF Login
    <2> HIDE DEF user
    <2>3. TokenFor(user) \in Token
      BY <2>1, TokenType
    <2>4. user.id \in Ids
      BY <2>1 DEF UserRecord
    <2>5. reply' \in Reply
      BY <2>2, <2>4 DEF Answer, Reply
    <2> QED BY <2>2, <2>3, <2>5 DEF Effect, TableStep, TypeOK
  <1> QED BY <1>1, <1>2, <1>3

LEMMA NewUserType ==
    ASSUME NEW id \in NewIds, NEW email \in Emails,
           NEW secret \in Secrets \cup {"Admin@123"},
           NEW name \in Maybe(Names), NEW text,
           NEW picture \in Maybe(Pictures)
    PROVE  /\ NewUser(id, email, secret, name, text, picture) \in UserRecord
           /\ NewUser(id, email, secret, name, text, picture).id = id
           /\ NewUser(id, email, secret, name, text, picture).email =
                  StoredEmail(email)
  <1> DEFINE user == NewUser(id, email, secret, name, text, picture)
  <1>1. StoredEmail(email) \in Email
    BY EmailType
  <1>2. RoleOfText(text) \in Roles
    BY RoleType
  <1>3. (IF name = Null THEN "plain" ELSE name) \in {"plain", "long", "quoted"}
    BY AccountAssumption DEF Maybe
  <1>4. (IF picture = Null THEN "stock" ELSE StoredPicture(picture))
            \in Pictures \cup {"stock", "cut"}
    BY DEF Maybe, StoredPicture
  <1>5. id \in Ids
    BY DEF Ids
  <1> QED BY <1>1, <1>2, <1>3, <1>4, <1>5 DEF NewUser, UserRecord

LEMMA RegisterEffect ==
    ASSUME TypeOK, NEW email \in Emails \cup {NoEmail},
           NEW secret \in Maybe(Secrets), NEW name \in Maybe(Names), NEW text,
           NEW picture \in Maybe(Pictures), NEW id \in NewIds,
           Register(email, secret, name, text, picture, id)
    PROVE  Effect
  <1> DEFINE absent == email = NoEmail \/ secret = Null
  <1>1. CASE absent
    <2>1. Refuse("register", 400)
      BY <1>1 DEF Register
    <2> QED BY <2>1, RefuseEffect DEF Ops, ReplyCodes
  <1>2. CASE ~ absent /\ FindByEmail(email) # 0
    BY <1>2, RefuseEffect DEF Register, Ops, ReplyCodes
  <1>3. CASE ~ absent /\ FindByEmail(email) = 0 /\ ~ CanStore(email)
    BY <1>3, RefuseEffect DEF Register, Ops, ReplyCodes
  <1>4. CASE ~ absent /\ FindByEmail(email) = 0 /\ CanStore(email)
    <2> DEFINE user == NewUser(id, email, secret, name, text, picture)
    <2>1. email \in Emails /\ secret \in Secrets
      BY <1>4 DEF Maybe
    <2>2. user \in UserRecord /\ user.id = id /\ user.email = StoredEmail(email)
      BY <2>1, NewUserType
    <2>3. /\ users' = Append(users, user)
          /\ \/ tokens' = tokens /\ Answer("register", FALSE, 400, None)
             \/ /\ tokens' = tokens \cup {TokenFor(user)}
                /\ Answer("register", TRUE, 200, id)
      BY <1>4 DEF Register
    <2> HIDE DEF user
    <2>4. Added(user)
      BY <1>4, <2>2, <2>3 DEF Added, CanStore
    <2>5. TokenFor(user) \in Token
      BY <2>2, TokenType
    <2>6. reply' \in Reply
      <3>1. \/ Answer("register", FALSE, 400, None)
            \/ Answer("register", TRUE, 200, id)
        BY <2>3
      <3>2. id \in Ids
        BY DEF Ids
      <3>3. CASE Answer("register", FALSE, 400, None)
        BY <3>3 DEF Answer, Reply
      <3>4. CASE Answer("register", TRUE, 200, id)
        BY <3>2, <3>4 DEF Answer, Reply
      <3> QED BY <3>1, <3>3, <3>4
    <2> QED BY <2>3, <2>4, <2>5, <2>6 DEF Effect, TableStep, TypeOK
  <1> QED BY <1>1, <1>2, <1>3, <1>4

LEMMA CreateEffect ==
    ASSUME TypeOK, NEW email \in Emails \cup {NoEmail},
           NEW secret \in Maybe(Secrets), NEW name \in Maybe(Names), NEW text,
           NEW picture \in Maybe(Pictures), NEW id \in NewIds,
           CreateUser(email, secret, name, text, picture, id)
    PROVE  Effect
  <1> DEFINE absent == email = NoEmail \/ name = Null \/ ~ CanStore(email)
  <1>1. CASE absent
    <2>1. Refuse("create", 200)
      BY <1>1 DEF CreateUser
    <2> QED BY <2>1, RefuseEffect DEF Ops, ReplyCodes
  <1>2. CASE ~ absent
    <2> DEFINE password == IF secret = Null THEN "Admin@123" ELSE secret
               user == NewUser(id, email, password, name, text, picture)
    <2>1. email \in Emails /\ password \in Secrets \cup {"Admin@123"}
      BY <1>2 DEF Maybe
    <2>2. /\ users' = Append(users, user) /\ tokens' = tokens
          /\ Answer("create", TRUE, 200, None)
      BY <1>2 DEF CreateUser
    <2> HIDE DEF password
    <2>3. user \in UserRecord /\ user.id = id /\ user.email = StoredEmail(email)
      BY <2>1, NewUserType
    <2> HIDE DEF user
    <2>4. Added(user)
      BY <1>2, <2>2, <2>3 DEF Added, CanStore
    <2>5. reply' \in Reply
      BY <2>2 DEF Answer, Reply
    <2> QED BY <2>2, <2>4, <2>5 DEF Effect, TableStep, TypeOK
  <1> QED BY <1>1, <1>2

LEMMA UpdateEffect ==
    ASSUME TypeOK, NEW uid, NEW email \in Emails \cup {NoEmail},
           NEW name \in Maybe(Names), NEW text, NEW picture \in Maybe(Pictures),
           UpdateUser(uid, email, name, text, picture)
    PROVE  Effect
  <1>1. CASE uid = Null
    BY <1>1, RefuseEffect DEF UpdateUser, Ops, ReplyCodes
  <1>2. CASE uid # Null /\ FindById(uid) = 0
    BY <1>2, RefuseEffect DEF UpdateUser, Ops, ReplyCodes
  <1>3. CASE uid # Null /\ FindById(uid) # 0
    <2> DEFINE i == FindById(uid)
               old == users[i]
               user == Edit(old, email, name, text, picture)
    <2>1. i \in DOMAIN users /\ old \in UserRecord
      BY <1>3, TableDomain, FoundById
    <2>2. /\ users' = [users EXCEPT ![i] = user] /\ tokens' = tokens
          /\ Answer("update", TRUE, 200, None)
      BY <1>3 DEF UpdateUser
    <2> HIDE DEF i, old
    <2>3. Given(name, old.name) \in {"plain", "long", "quoted"}
      BY <2>1, AccountAssumption DEF Given, Maybe, UserRecord
    <2>4. (IF email = NoEmail THEN old.email ELSE StoredEmail(email)) \in Email
      BY <2>1, EmailType DEF UserRecord
    <2>5. (IF text = Null THEN old.role ELSE RoleOfText(text)) \in Roles
      BY <2>1, RoleType DEF UserRecord
    <2>6. Given(StoredPicture(picture), old.picture) \in Pictures \cup {"stock", "cut"}
      BY <2>1 DEF Given, StoredPicture, Maybe, UserRecord
    <2>7. user \in UserRecord /\ user.id = old.id
      BY ZenonT(40), <2>1, <2>3, <2>4, <2>5, <2>6 DEF Edit, UserRecord
    <2> HIDE DEF user
    <2>8. Edited(i, user)
      BY <2>1, <2>2, <2>7 DEF Edited, old
    <2>9. reply' \in Reply
      BY <2>2 DEF Answer, Reply
    <2> QED BY <2>2, <2>8, <2>9 DEF Effect, TableStep, TypeOK
  <1> QED BY <1>1, <1>2, <1>3

LEMMA PictureEffect ==
    ASSUME TypeOK, NEW token, NEW uid, NEW picture \in Maybe(Pictures),
           UpdatePicture(token, uid, picture)
    PROVE  Effect
  <1> DEFINE i == IF uid # Null THEN FindById(uid) ELSE Resolve(token)
             absent == picture = Null \/ (uid = Null /\ i = 0)
  <1>1. CASE absent
    <2>1. Refuse("picture", 400)
      BY <1>1 DEF UpdatePicture
    <2> QED BY <2>1, RefuseEffect DEF Ops, ReplyCodes
  <1>2. CASE ~ absent /\ i = 0
    <2>1. Refuse("picture", 404)
      BY <1>2 DEF UpdatePicture
    <2> QED BY <2>1, RefuseEffect DEF Ops, ReplyCodes
  <1>3. CASE ~ absent /\ i # 0
    <2>1. /\ users' = [users EXCEPT ![i].picture = StoredPicture(picture)]
          /\ tokens' = tokens
          /\ Answer("picture", TRUE, 200, users[i].id)
      BY <1>3 DEF UpdatePicture
    <2>2. i \in DOMAIN users /\ users[i] \in UserRecord
      BY <1>3, TableDomain, FoundById, Resolved
    <2>3. StoredPicture(picture) \in Pictures \cup {"cut"}
      BY <1>3 DEF StoredPicture, Maybe
    <2> HIDE DEF i
    <2> DEFINE user == [users[i] EXCEPT !.picture = StoredPicture(picture)]
    <2>4. users' = [users EXCEPT ![i] = user]
      BY <2>1
    <2>5. user \in UserRecord /\ user.id = users[i].id
      BY <2>2, <2>3 DEF UserRecord
    <2> HIDE DEF user
    <2>6. Edited(i, user)
      BY <2>2, <2>4, <2>5 DEF Edited
    <2>7. users[i].id \in Ids
      BY <2>2 DEF UserRecord
    <2>8. reply' \in Reply
      BY <2>1, <2>7 DEF Answer, Reply
    <2> QED BY <2>1, <2>6, <2>8 DEF Effect, TableStep, TypeOK
  <1> QED BY <1>1, <1>2, <1>3

\* Every step has one of the effects TableStep lists.
LEMMA StepEffect ==
    ASSUME TypeOK, [Next]_vars
    PROVE  Effect
  <1>1. CASE UNCHANGED vars
    BY <1>1 DEF vars, Effect, TableStep, TypeOK
  <1>2. ASSUME NEW e \in Emails \cup {NoEmail}, NEW s \in Maybe(Secrets), Login(e, s)
        PROVE  Effect
    BY <1>2, LoginEffect
  <1>3. ASSUME NEW e \in Emails \cup {NoEmail}, NEW s \in Maybe(Secrets),
               NEW n \in Maybe(Names), NEW r \in Maybe(RoleTexts),
               NEW p \in Maybe(Pictures), NEW id \in NewIds,
               Register(e, s, n, r, p, id) \/ CreateUser(e, s, n, r, p, id)
        PROVE  Effect
    BY <1>3, RegisterEffect, CreateEffect
  <1>4. ASSUME NEW uid \in Maybe(Targets), NEW e \in Emails \cup {NoEmail},
               NEW n \in Maybe(Names), NEW r \in Maybe(RoleTexts),
               NEW p \in Maybe(Pictures), UpdateUser(uid, e, n, r, p)
        PROVE  Effect
    BY <1>4, UpdateEffect
  <1>5. CASE UpdateGarbled
    BY <1>5, RefuseEffect DEF UpdateGarbled, Ops, ReplyCodes
  <1>6. ASSUME NEW t \in tokens \cup {NoToken}, NEW uid \in Maybe(Targets),
               NEW p \in Maybe(Pictures), UpdatePicture(t, uid, p)
        PROVE  Effect
    BY <1>6, PictureEffect
  <1>7. ASSUME NEW t \in tokens, Expire(t)
        PROVE  Effect
    <2>1. reply' \in Reply
      BY ZenonT(40), <1>7 DEF Expire, BootReply, Reply
    <2> QED BY <1>7, <2>1 DEF Expire, Effect, TableStep, TypeOK
  <1>8. CASE Restart
    BY <1>8, BootType DEF Restart, BootReply, Effect, TableStep, TypeOK
  <1> QED BY <1>1, <1>2, <1>3, <1>4, <1>5, <1>6, <1>7, <1>8 DEF Next, Running

--------------------------------------------------------------------------------
(* Types.                                                                  *)

LEMMA EffectType ==
    ASSUME TypeOK, Effect
    PROVE  TypeOK'
  <1>1. users \in Seq(UserRecord) /\ Len(users) \in Nat /\ Len(users) <= MaxUsers
    BY TableDomain DEF TypeOK
  <1>2. tokens' \subseteq Token /\ reply' \in Reply
    BY DEF Effect
  <1>3. CASE users' = users
    BY <1>1, <1>2, <1>3 DEF TypeOK
  <1>4. ASSUME NEW user, Added(user) PROVE TypeOK'
    <2>1. users' \in Seq(UserRecord) /\ Len(users') = Len(users) + 1
      BY <1>1, <1>4 DEF Added
    <2>2. Len(users') <= MaxUsers
      BY <1>1, <1>4, <2>1, AccountAssumption DEF Added
    <2> QED BY <1>2, <2>1, <2>2 DEF TypeOK
  <1>5. ASSUME NEW i, NEW user, Edited(i, user) PROVE TypeOK'
    <2>1. users' \in Seq(UserRecord) /\ Len(users') = Len(users)
      BY <1>1, <1>5 DEF Edited
    <2> QED BY <1>1, <1>2, <2>1 DEF TypeOK
  <1>6. CASE users' = SeedUsers
    BY <1>2, <1>6, SeedType DEF TypeOK
  <1> QED BY <1>3, <1>4, <1>5, <1>6 DEF Effect, TableStep

\* The user table never outgrows its array and every record in it, every
\* token and every reply is of its type.
THEOREM AccountTypes == Spec => []TypeOK
  <1>1. Init => TypeOK
    BY SeedType, BootType DEF Init, TypeOK
  <1>2. TypeOK /\ [Next]_vars => TypeOK'
    BY StepEffect, EffectType
  <1> QED BY <1>1, <1>2, PTL DEF Spec

--------------------------------------------------------------------------------
(* Addresses of new accounts.                                              *)

\* Seeding the table again never adds an account.
NeverShorterThanSeed == Len(users) >= Len(SeedUsers)

LEMMA TableLength == Spec => []NeverShorterThanSeed
  <1>1. Init => NeverShorterThanSeed
    <2>1. Len(SeedUsers) >= Len(SeedUsers)
      BY SeedType
    <2> QED BY <2>1 DEF Init, NeverShorterThanSeed
  <1>2. ASSUME TypeOK, NeverShorterThanSeed, [Next]_vars
        PROVE  NeverShorterThanSeed'
    <2>1. users \in Seq(UserRecord) /\ Len(users) \in Nat /\ Len(users) >= 7
      BY <1>2, TableDomain, SeedType DEF TypeOK, NeverShorterThanSeed
    <2>2. TableStep
      BY <1>2, StepEffect DEF Effect
    <2>3. Len(users') >= 7
      <3>1. ASSUME NEW user, Added(user) PROVE Len(users') >= 7
        BY <2>1, <3>1 DEF Added
      <3>2. ASSUME NEW i, NEW user, Edited(i, user) PROVE Len(users') >= 7
        BY <2>1, <3>2 DEF Edited
      <3>3. CASE users' = users
        BY <2>1, <3>3
      <3>4. CASE users' = SeedUsers
        BY <3>4, SeedType
      <3> QED BY <2>2, <3>1, <3>2, <3>3, <3>4 DEF TableStep
    <2> QED BY <2>3, SeedType DEF NeverShorterThanSeed
  <1> QED BY <1>1, <1>2, AccountTypes, PTL DEF Spec

\* Neither registration nor administration adds an account under an address
\* that is taken, whatever edits came before and however long it is.
THEOREM NewAddresses == Spec => NewAddressIsNew
  <1>1. ASSUME TypeOK, NeverShorterThanSeed, [Next]_vars,
               Len(users') > Len(users), NEW i \in DOMAIN users
        PROVE  ~ SameEmail(users[i].email, users'[Len(users')].email)
    <2>1. users \in Seq(UserRecord) /\ Len(users) \in Nat /\ Len(users) >= 7
      BY <1>1, TableDomain, SeedType DEF TypeOK, NeverShorterThanSeed
    <2>2. TableStep
      BY <1>1, StepEffect DEF Effect
    <2>3. ~ \E j, user : Edited(j, user)
      BY <1>1, <2>1 DEF Edited
    <2>4. PICK user : Added(user)
      BY <1>1, <2>1, <2>2, <2>3, SeedType DEF TableStep
    <2>5. users'[Len(users')] = user
      BY <2>1, <2>4 DEF Added
    <2> QED BY <1>1, <2>4, <2>5, TableDomain, FoundByEmail DEF Added
  <1>2. TypeOK /\ NeverShorterThanSeed /\ [Next]_vars =>
          (Len(users') > Len(users) =>
             \A i \in DOMAIN users :
                 ~ SameEmail(users[i].email, users'[Len(users')].email))
    BY <1>1
  <1> QED BY <1>2, AccountTypes, TableLength, PTL DEF Spec, NewAddressIsNew

--------------------------------------------------------------------------------
(* Tokens.                                                                 *)

\* FoundById for the table after a step.
LEMMA FoundByIdNext ==
    ASSUME DOMAIN users' \subseteq Nat \ {0}, NEW id
    PROVE  (\E i \in DOMAIN users' : users'[i].id = id) =>
               /\ FindById(id)' # 0
               /\ users'[FindById(id)'].id = id
  <1> DEFINE S == {i \in DOMAIN users' : users'[i].id = id}
  <1>1. S \subseteq Nat \ {0}
    OBVIOUS
  <1>2. FindById(id)' = First(S)
    BY DEF FindById
  <1>3. /\ S # {} => First(S) \in S
        /\ First(S) = 0 <=> S = {}
    BY <1>1, FirstFound
  <1> QED BY <1>2, <1>3

\* A readable token signed with the server's secret whose id is in the table
\* after a step stands for the account of that id.
LEMMA ResolvedNext ==
    ASSUME TypeOK', NEW token, token.readable, token.signed = ServerSecret,
           NEW i \in DOMAIN users', users'[i].id = token.sub
    PROVE  Resolve(token)' # 0 /\ users'[Resolve(token)'].id = token.sub
  <1>1. users' \in Seq(UserRecord)
    BY DEF TypeOK
  <1>2. DOMAIN users' \subseteq Nat \ {0}
    BY <1>1
  <1>3. FindById(token.sub)' # 0 /\ users'[FindById(token.sub)'].id = token.sub
    BY <1>2, FoundByIdNext
  <1> QED BY <1>3 DEF Resolve

\* Until a restart an account stays where it is and keeps its id.
LEMMA IdsStay ==
    ASSUME TypeOK, TableStep, reply'.op # "boot", NEW i \in DOMAIN users
    PROVE  i \in DOMAIN users' /\ users'[i].id = users[i].id
  <1>1. users \in Seq(UserRecord) /\ Len(users) \in Nat /\ DOMAIN users = 1 .. Len(users)
    BY TableDomain DEF TypeOK
  <1>2. ASSUME NEW user, Added(user)
        PROVE  i \in DOMAIN users' /\ users'[i].id = users[i].id
    BY <1>1, <1>2 DEF Added
  <1>3. ASSUME NEW j, NEW user, Edited(j, user)
        PROVE  i \in DOMAIN users' /\ users'[i].id = users[i].id
    BY <1>1, <1>3 DEF Edited
  <1> QED BY <1>2, <1>3 DEF TableStep

LEMMA TokenKept ==
    ASSUME TypeOK, [Next]_vars, reply'.op # "boot",
           NEW t \in tokens \cap tokens', AccountOf(t) = t.sub
    PROVE  AccountOf(t)' = t.sub /\ Resolve(t) # 0 /\ Resolve(t)' # 0
  <1>1. Effect
    BY StepEffect
  <1>2. TypeOK'
    BY <1>1, EffectType
  <1>3. t.sub \in Ids
    BY DEF TypeOK, Token
  <1>4. None \notin Ids
    BY AccountAssumption DEF Ids, SeedIds, None
  <1>5. Resolve(t) # 0 /\ users[Resolve(t)].id = t.sub
    BY <1>3, <1>4 DEF AccountOf
  <1>6. Resolve(t) \in DOMAIN users
    BY <1>5, TableDomain, Resolved
  <1>7. t.readable /\ t.signed = ServerSecret
    BY <1>5 DEF Resolve
  <1>8. Resolve(t) \in DOMAIN users' /\ users'[Resolve(t)].id = t.sub
    BY <1>1, <1>5, <1>6, IdsStay DEF Effect
  <1>9. Resolve(t)' # 0 /\ users'[Resolve(t)'].id = t.sub
    BY <1>2, <1>7, <1>8, ResolvedNext
  <1> QED BY <1>5, <1>9 DEF AccountOf

\* Only a restart answers "boot".
LEMMA RunningReplies ==
    ASSUME Running
    PROVE  reply'.op # "boot"
  <1>1. ASSUME NEW e, NEW s, NEW n, NEW r, NEW p, NEW id,
               \/ Login(e, s) \/ Register(e, s, n, r, p, id)
               \/ CreateUser(e, s, n, r, p, id) \/ UpdateUser(id, e, n, r, p)
               \/ UpdateGarbled \/ UpdatePicture(e, id, p) \/ Expire(e)
        PROVE  reply'.op # "boot"
    BY <1>1 DEF Login, Register, CreateUser, UpdateUser, UpdateGarbled,
                UpdatePicture, Expire, Refuse, Answer, BootReply
  <1> QED BY <1>1 DEF Running

\* While the process runs, a token goes on standing for the account it was
\* issued to, whatever is registered, created or edited.
THEOREM TokensKeepAccounts == Spec => TokenKeepsItsAccount
  <1>1. ASSUME TypeOK, [Next]_vars, reply'.op # "boot",
               NEW t \in tokens \cap tokens', AccountOf(t) = t.sub
        PROVE  AccountOf(t)' = t.sub
    BY <1>1, TokenKept
  <1>2. TypeOK /\ [Next]_vars =>
          (reply'.op # "boot" =>
             \A t \in tokens \cap tokens' :
                 AccountOf(t) = t.sub => AccountOf(t)' = t.sub)
    BY <1>1
  <1> QED BY <1>2, AccountTypes, PTL DEF Spec, TokenKeepsItsAccount

\* The token of an account that is in the table after a step stands for it.
LEMMA IssuedTokenWorks ==
    ASSUME TypeOK', ServerSecret = "default", NEW user,
           NEW i \in DOMAIN users', users'[i].id = user.id,
           TokenFor(user) \in tokens', reply'.user = user.id
    PROVE  \E t \in tokens' :
              /\ t.sub = reply'.user
              /\ t.readable => AccountOf(t)' = reply'.user
  <1> DEFINE t == TokenFor(user)
  <1>1. t.sub = user.id /\ t.signed = ServerSecret
    BY DEF TokenFor
  <1> HIDE DEF t
  <1>2. ASSUME t.readable PROVE AccountOf(t)' = user.id
    <2>1. Resolve(t)' # 0 /\ users'[Resolve(t)'].id = user.id
      BY <1>1, <1>2, ResolvedNext
    <2> QED BY <2>1 DEF AccountOf
  <1> QED BY <1>1, <1>2 DEF t

\* On a server that was given the built-in secret, a successful sign-in or
\* registration hands out a token of the account it answers for, and the
\* token works unless it does not fit the server's buffers.
THEOREM SignIns ==
    ASSUME ServerSecret = "default"
    PROVE  Spec => SignInMatchesToken
  <1> DEFINE Works == \E t \in tokens' :
                        /\ t.sub = reply'.user
                        /\ t.readable => AccountOf(t)' = reply'.user
  <1>1. ASSUME TypeOK, TypeOK', reply'.ok, NEW e, NEW s, Login(e, s)
        PROVE  Works
    <2> DEFINE i == LoginUser(e, s)
    <2>1. /\ i # 0 /\ tokens' = tokens \cup {TokenFor(users[i])}
          /\ users' = users /\ reply'.user = users[i].id
      BY <1>1 DEF Login, Refuse, Answer
    <2>2. i \in DOMAIN users'
      BY <1>1, <2>1, LoginUserFound
    <2> HIDE DEF i
    <2> QED BY <1>1, <2>1, <2>2, IssuedTokenWorks
  <1>2. ASSUME TypeOK, TypeOK', reply'.ok, NEW e, NEW s, NEW n, NEW r, NEW p,
               NEW id \in NewIds, Register(e, s, n, r, p, id)
        PROVE  Works
    <2> DEFINE user == NewUser(id, e, s, n, r, p)
    <2>1. /\ users' = Append(users, user) /\ tokens' = tokens \cup {TokenFor(user)}
          /\ reply'.user = id
      BY <1>2 DEF Register, Refuse, Answer
    <2>2. user.id = id
      BY DEF NewUser
    <2> HIDE DEF user
    <2>3. users \in Seq(UserRecord) /\ Len(users) \in Nat
      BY <1>2, TableDomain DEF TypeOK
    <2>4. Len(users) + 1 \in DOMAIN users' /\ users'[Len(users) + 1] = user
      BY <2>1, <2>3
    <2> QED BY <1>2, <2>1, <2>2, <2>4, IssuedTokenWorks
  <1>3. ASSUME TypeOK, Next, reply'.op \in {"login", "register"}, reply'.ok
        PROVE  Works
    <2>1. TypeOK'
      BY <1>3, StepEffect, EffectType
    <2>2. ~ UpdateGarbled /\ ~ Restart
      BY <1>3 DEF UpdateGarbled, Restart, Refuse, Answer, BootReply
    <2>3. ~ \E t \in tokens : Expire(t)
      BY <1>3 DEF Expire, BootReply
    <2>4. ASSUME NEW e, NEW s, NEW n, NEW r, NEW p, NEW id
          PROVE  ~ CreateUser(e, s, n, r, p, id) /\ ~ UpdateUser(id, e, n, r, p)
      BY <1>3 DEF CreateUser, UpdateUser, Refuse, Answer
    <2>5. ASSUME NEW t, NEW uid, NEW p
          PROVE  ~ UpdatePicture(t, uid, p)
      BY <1>3 DEF UpdatePicture, Refuse, Answer
    <2> HIDE DEF Works
    <2> QED BY <1>1, <1>2, <1>3, <2>1, <2>2, <2>3, <2>4, <2>5 DEF Next, Running
  <1> QED BY <1>3, AccountTypes, PTL DEF Spec, SignInMatchesToken

--------------------------------------------------------------------------------
(* Refusals.                                                               *)

\* A request that is refused has changed nothing, except the registration of
\* an address too long for its field, which stores the account.
THEOREM Refusals == Spec => RefusalChangesNothing
  <1> DEFINE Harmless ==
        \/ UNCHANGED <<users, tokens>>
        \/ /\ reply'.op = "register" /\ Len(users') = Len(users) + 1
           /\ users'[Len(users')].email.form = "cut"
  <1>1. ASSUME TypeOK, ~ reply'.ok, NEW e \in Emails \cup {NoEmail}, NEW s,
               NEW n, NEW r, NEW p, NEW id, Register(e, s, n, r, p, id)
        PROVE  Harmless
    <2> DEFINE user == NewUser(id, e, s, n, r, p)
    <2>1. CASE UNCHANGED <<users, tokens>>
      BY <2>1
    <2>2. CASE /\ users' = Append(users, user) /\ e.form = "long" /\ e # NoEmail
               /\ Answer("register", FALSE, 400, None)
      <3>1. user.email.form = "cut"
        <4>1. e = [addr |-> e.addr, form |-> e.form]
          BY <2>2, AccountAssumption
        <4>2. StoredEmail(e).form = "cut"
          BY <2>2, <4>1 DEF StoredEmail
        <4> QED BY <4>2 DEF NewUser
      <3> HIDE DEF user
      <3>2. users \in Seq(UserRecord) /\ Len(users) \in Nat
        BY <1>1, TableDomain DEF TypeOK
      <3>3. Len(users') = Len(users) + 1 /\ users'[Len(users')] = user
        BY <2>2, <3>2
      <3> QED BY <2>2, <3>1, <3>3 DEF Answer
    <2> QED BY <1>1, <2>1, <2>2 DEF Register, Refuse, Answer
  <1>2. ASSUME ~ reply'.ok, NEW e, NEW s, NEW n, NEW r, NEW p, NEW id,
               \/ Login(e, s) \/ CreateUser(e, s, n, r, p, id)
               \/ UpdateUser(id, e, n, r, p) \/ UpdateGarbled
               \/ UpdatePicture(e, id, p) \/ Expire(e) \/ Restart
        PROVE  Harmless
    BY <1>2 DEF Login, CreateUser, UpdateUser, UpdateGarbled, UpdatePicture,
                Expire, Restart, Refuse, Answer, BootReply
  <1>3. ASSUME TypeOK, Next, ~ reply'.ok PROVE Harmless
    <2> HIDE DEF Harmless
    <2> QED BY <1>1, <1>2, <1>3 DEF Next, Running
  <1> QED BY <1>3, AccountTypes, PTL DEF Spec, RefusalChangesNothing
================================================================================
