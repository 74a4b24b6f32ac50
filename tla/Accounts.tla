------------------------------- MODULE Accounts -------------------------------
(***************************************************************************)
(* The user table (db.c), sign-in, registration and tokens (auth.c), and   *)
(* the account endpoints of server.c.                                      *)
(*                                                                         *)
(* Tokens live with the clients: the server keeps no session, checks the   *)
(* signature and looks the account up again on every request, by the id in *)
(* the token and, when that id is unknown, by the e-mail address in it.    *)
(* The table is in memory only, so tokens outlive the accounts they were   *)
(* issued to.                                                              *)
(*                                                                         *)
(* Abstractions.  Generated ids are fresh (128 or 31 random bits).         *)
(* Generated API keys are never shown to anyone, so nobody signs in with   *)
(* one.  A password hash is the password it was made from.                 *)
(***************************************************************************)
EXTENDS CrmData, FiniteSets

CONSTANTS
    MaxUsers,       \* MAX_USERS
    MaxTokens,      \* bound on the tokens clients hold at once
    NewIds,         \* ids the server may generate
    Emails,         \* addresses clients send
    Secrets,        \* passwords and keys clients send
    Names,          \* full names clients send
    RoleTexts,      \* role texts clients send
    Pictures,       \* profile pictures clients send
    Targets,        \* user ids clients send
    ServerSecret    \* the secret server_start was given, "default" or another

(***************************************************************************)
(* An address is [addr, form].  Addresses that differ only in form "lower" *)
(* and "mixed" differ only in letter case; "long" does not fit the field   *)
(* and "cut" is its first 255 bytes.                                       *)
(***************************************************************************)
NoEmail == [addr |-> Null, form |-> "lower"]     \* absent from the request

StoredEmail(email) == IF email.form = "long" THEN [email EXCEPT !.form = "cut"]
                                             ELSE email

Folded(email) == IF email.form = "mixed" THEN [email EXCEPT !.form = "lower"]
                                         ELSE email

\* strcasecmp
SameEmail(a, b) == Folded(a) = Folded(b)

RoleOfText(text) ==
    CASE text = "super_admin"         -> SUPER_ADMIN
      [] text = "hub_manager"         -> HUB_MANAGER
      [] text = "delivery_agent"      -> DELIVERY_AGENT
      [] text = "enterprise_customer" -> ENTERPRISE_CUSTOMER
      [] OTHER                        -> STANDARD_CUSTOMER

\* A picture larger than the field is cut.
StoredPicture(picture) == IF picture = "large" THEN "cut" ELSE picture

(***************************************************************************)
(* Seed accounts.  Their stored hash is the hash of no password.           *)
(***************************************************************************)
SeedUser(id, role, key) ==
    [id |-> id, email |-> [addr |-> id, form |-> "lower"], password |-> None,
     role |-> role, name |-> "plain", key |-> key, picture |-> "stock"]

SeedUsers ==
    << SeedUser("u1", SUPER_ADMIN, "k1"),
       SeedUser("u2", HUB_MANAGER, "k2"),
       SeedUser("u3", DELIVERY_AGENT, "k3"),
       SeedUser("u4", ENTERPRISE_CUSTOMER, "k4"),
       SeedUser("u5", STANDARD_CUSTOMER, None),
       SeedUser("u6", ENTERPRISE_CUSTOMER, "k6"),
       SeedUser("u7", STANDARD_CUSTOMER, None) >>

SeedIds  == {"u1", "u2", "u3", "u4", "u5", "u6", "u7"}
SeedKeys == {None, "k1", "k2", "k3", "k4", "k6"}

EmailForms == {"lower", "mixed", "long", "cut"}

ASSUME AccountAssumption ==
    /\ MaxUsers \in Nat /\ MaxUsers >= Len(SeedUsers)
    /\ MaxTokens \in Nat
    /\ NewIds \cap (SeedIds \cup {None}) = {}
    /\ \A e \in Emails : e = [addr |-> e.addr, form |-> e.form]
                         /\ e.form \in EmailForms
    /\ Names \subseteq {"plain", "long", "quoted"}
    /\ Null \notin Secrets \cup Names \cup RoleTexts \cup Pictures \cup Targets

VARIABLES
    users,    \* g_users[0 .. g_user_count - 1]
    tokens,   \* tokens clients hold
    reply     \* what the last request was told

vars == <<users, tokens, reply>>

Ids       == SeedIds \cup NewIds
Addresses == SeedIds \cup {e.addr : e \in Emails}
Email     == [addr : Addresses, form : EmailForms]

UserRecord ==
    [id : Ids, email : Email, password : Secrets \cup {None, "Admin@123"},
     role : Roles, name : {"plain", "long", "quoted"},
     key : SeedKeys \cup {"generated"},
     picture : Pictures \cup {"stock", "cut"}]

Token == [sub : Ids, email : Email, readable : BOOLEAN, signed : {"default"}]

Reply == [op : {"boot", "none", "login", "register", "create", "update", "picture"},
          ok : BOOLEAN, code : {200, 400, 401, 404, 409}, user : Ids \cup {None}]

\* Every table entry is of its type and none lies beyond the table's end.
TypeOK ==
    /\ users \in Seq(UserRecord)
    /\ Len(users) <= MaxUsers
    /\ tokens \subseteq Token
    /\ reply \in Reply

(***************************************************************************)
(* Lookups: the position of the first match, 0 when there is none.         *)
(***************************************************************************)
First(S) == IF S = {} THEN 0 ELSE CHOOSE i \in S : \A j \in S : i <= j

FindById(id)       == First({i \in DOMAIN users : users[i].id = id})
FindByEmail(email) == First({i \in DOMAIN users : SameEmail(users[i].email, email)})
FindByKey(key)     == First({i \in DOMAIN users : key # None /\ users[i].key = key})

(***************************************************************************)
(* Tokens.  A token carries the id and the address of its account and is   *)
(* always signed with the built-in secret.  One with a long name or        *)
(* address exceeds the buffers of the server that reads it back, and a     *)
(* quote in the name breaks its JSON.                                      *)
(***************************************************************************)
NoToken == [sub |-> None, email |-> NoEmail, readable |-> FALSE, signed |-> None]

TokenFor(user) ==
    [sub |-> user.id, email |-> user.email, signed |-> "default",
     readable |-> user.name = "plain" /\ user.email.form # "cut"]

\* The address is looked up before the id.
FaultyResolve(token) ==
    IF ~ token.readable \/ token.signed # ServerSecret THEN 0
    ELSE IF FindByEmail(token.email) # 0 THEN FindByEmail(token.email)
    ELSE FindById(token.sub)

\* auth_verify_jwt: the account a request is made for, 0 for nobody.
Resolve(token) ==
    IF ~ token.readable \/ token.signed # ServerSecret THEN 0
    ELSE IF FindById(token.sub) # 0 THEN FindById(token.sub)
    ELSE FindByEmail(token.email)

Answer(op, ok, code, id) ==
    reply' = [op |-> op, ok |-> ok, code |-> code, user |-> id]

Refuse(op, code) ==
    Answer(op, FALSE, code, None) /\ UNCHANGED <<users, tokens>>

(***************************************************************************)
(* Sign-in: an API key given as the password wins over the address.  Two   *)
(* passwords open every account.                                           *)
(***************************************************************************)
PasswordMatches(secret, stored) ==
    secret \in {"Admin@123", "User@123"} \/ secret = stored

LoginUser(email, secret) ==
    IF FindByKey(secret) # 0 THEN FindByKey(secret)
    ELSE IF /\ FindByEmail(email) # 0
            /\ PasswordMatches(secret, users[FindByEmail(email)].password)
         THEN FindByEmail(email)
         ELSE 0

\* The token is made for the address, the answer for the key.
FaultyLogin(email, secret) ==
    /\ email # NoEmail /\ secret # Null
    /\ LoginUser(email, secret) # 0 /\ FindByEmail(email) # 0
    /\ tokens' = tokens \cup {TokenFor(users[FindByEmail(email)])}
    /\ users' = users
    /\ Answer("login", TRUE, 200, users[LoginUser(email, secret)].id)

Login(email, secret) ==
    IF email = NoEmail \/ secret = Null THEN Refuse("login", 400)
    ELSE IF LoginUser(email, secret) = 0 THEN Refuse("login", 401)
    ELSE LET user == users[LoginUser(email, secret)]
         IN  /\ tokens' = tokens \cup {TokenFor(user)}
             /\ users' = users
             /\ Answer("login", TRUE, 200, user.id)

(***************************************************************************)
(* New accounts.  db_create_user refuses when the table is full or the     *)
(* stored form of the address is taken.                                    *)
(***************************************************************************)
Fresh(id) ==
    /\ \A i \in DOMAIN users : users[i].id # id
    /\ \A t \in tokens : t.sub # id

\* The address is not looked up again.
FaultyNoLookup(email) == Len(users) < MaxUsers

CanStore(email) ==
    Len(users) < MaxUsers /\ FindByEmail(StoredEmail(email)) = 0

NewUser(id, email, secret, name, text, picture) ==
    [id |-> id, email |-> StoredEmail(email), password |-> secret,
     role |-> RoleOfText(text), key |-> "generated",
     name |-> IF name = Null THEN "plain" ELSE name,
     picture |-> IF picture = Null THEN "stock" ELSE StoredPicture(picture)]

\* The account is stored before the address is looked up.
FaultyRegister(email, secret, name, text, picture, id) ==
    IF email = NoEmail \/ secret = Null THEN Refuse("register", 400)
    ELSE /\ Len(users) < MaxUsers
         /\ users' = Append(users, NewUser(id, email, secret, name, text, picture))
         /\ tokens' = tokens
         /\ Answer("register", FindByEmail(email) = 0,
                   IF FindByEmail(email) = 0 THEN 200 ELSE 409,
                   IF FindByEmail(email) = 0 THEN id ELSE None)

\* auth_register looks the new account up by the address as it was sent.
\* An address too long for the field is not found again: the account stays
\* and the request fails.
Register(email, secret, name, text, picture, id) ==
    IF email = NoEmail \/ secret = Null THEN Refuse("register", 400)
    ELSE IF FindByEmail(email) # 0 THEN Refuse("register", 409)
    ELSE IF ~ CanStore(email) THEN Refuse("register", 400)
    ELSE LET user == NewUser(id, email, secret, name, text, picture)
         IN  /\ users' = Append(users, user)
             /\ IF email.form = "long"
                THEN tokens' = tokens /\ Answer("register", FALSE, 400, None)
                ELSE /\ tokens' = tokens \cup {TokenFor(user)}
                     /\ Answer("register", TRUE, 200, id)

\* handle_admin_user_create: refusals carry status 200.
CreateUser(email, secret, name, text, picture, id) ==
    IF email = NoEmail \/ name = Null \/ ~ CanStore(email)
    THEN Refuse("create", 200)
    ELSE /\ users' = Append(users,
                NewUser(id, email, IF secret = Null THEN "Admin@123" ELSE secret,
                        name, text, picture))
         /\ tokens' = tokens
         /\ Answer("create", TRUE, 200, None)

(***************************************************************************)
(* Changes to an account.  A member that is absent leaves its field alone. *)
(***************************************************************************)
Given(value, old) == IF value = Null THEN old ELSE value

Edit(user, email, name, text, picture) ==
    [user EXCEPT !.name = Given(name, @),
                 !.email = IF email = NoEmail THEN @ ELSE StoredEmail(email),
                 !.role = IF text = Null THEN @ ELSE RoleOfText(text),
                 !.picture = Given(StoredPicture(picture), @)]

UpdateUser(uid, email, name, text, picture) ==
    IF uid = Null THEN Refuse("update", 400)
    ELSE IF FindById(uid) = 0 THEN Refuse("update", 404)
    ELSE /\ users' = [users EXCEPT ![FindById(uid)] =
                          Edit(users[FindById(uid)], email, name, text, picture)]
         /\ tokens' = tokens
         /\ Answer("update", TRUE, 200, None)

\* A body that is no JSON is answered with an empty 200.
UpdateGarbled == Refuse("update", 200)

\* The account named in the request, or else the caller's.
UpdatePicture(token, uid, picture) ==
    LET i == IF uid # Null THEN FindById(uid) ELSE Resolve(token)
    IN  IF picture = Null \/ (uid = Null /\ i = 0) THEN Refuse("picture", 400)
        ELSE IF i = 0 THEN Refuse("picture", 404)
        ELSE /\ users' = [users EXCEPT ![i].picture = StoredPicture(picture)]
             /\ tokens' = tokens
             /\ Answer("picture", TRUE, 200, users[i].id)

(***************************************************************************)
(* The environment: a token passes its expiry date, the process restarts   *)
(* and seeds the table again.                                              *)
(***************************************************************************)
BootReply == [op |-> "boot", ok |-> TRUE, code |-> 200, user |-> None]

Init == users = SeedUsers /\ tokens = {} /\ reply = BootReply

Expire(token) ==
    /\ tokens' = tokens \ {token}
    /\ users' = users
    /\ reply' = [BootReply EXCEPT !.op = "none"]

Restart == users' = SeedUsers /\ tokens' = tokens /\ reply' = BootReply

Maybe(S) == S \cup {Null}

TokenRoom == Cardinality(tokens) < MaxTokens

\* Everything that happens while one process runs.
Running ==
    \/ \E e \in Emails \cup {NoEmail}, s \in Maybe(Secrets) :
            TokenRoom /\ Login(e, s)
    \/ \E e \in Emails \cup {NoEmail}, s \in Maybe(Secrets), n \in Maybe(Names),
          r \in Maybe(RoleTexts), p \in Maybe(Pictures), id \in NewIds :
            /\ Fresh(id)
            /\ \/ TokenRoom /\ Register(e, s, n, r, p, id)
               \/ CreateUser(e, s, n, r, p, id)
    \/ \E uid \in Maybe(Targets), e \in Emails \cup {NoEmail}, n \in Maybe(Names),
          r \in Maybe(RoleTexts), p \in Maybe(Pictures) :
            UpdateUser(uid, e, n, r, p)
    \/ UpdateGarbled
    \/ \E t \in tokens \cup {NoToken}, uid \in Maybe(Targets), p \in Maybe(Pictures) :
            UpdatePicture(t, uid, p)
    \/ \E t \in tokens : Expire(t)

Next == Running \/ Restart
Spec == Init /\ [][Next]_vars

(***************************************************************************)
(* Properties.                                                             *)
(***************************************************************************)
\* The account a token stands for, by id.
AccountOf(token) == IF Resolve(token) = 0 THEN None ELSE users[Resolve(token)].id

(***************************************************************************)
(* While the process runs, a token goes on standing for the account it was *)
(* issued to, whatever is registered, created or edited: no other account  *)
(* takes its place by taking over its address or its slot.                 *)
(***************************************************************************)
TokenKeepsItsAccount ==
    [][ reply'.op # "boot" =>
          \A t \in tokens \cap tokens' :
              AccountOf(t) = t.sub => AccountOf(t)' = t.sub ]_vars

(***************************************************************************)
(* A successful sign-in or registration hands out a token of the account   *)
(* it answers for, and that token works unless it does not fit the         *)
(* server's buffers.                                                       *)
(***************************************************************************)
SignInMatchesToken ==
    [][ reply'.op \in {"login", "register"} /\ reply'.ok =>
          \E t \in tokens' :
              /\ t.sub = reply'.user
              /\ t.readable => AccountOf(t)' = reply'.user ]_vars

(***************************************************************************)
(* Neither registration nor administration adds an account under an        *)
(* address that is taken, also when the address has to be cut to fit.      *)
(***************************************************************************)
NewAddressIsNew ==
    [][ Len(users') > Len(users) =>
          \A i \in DOMAIN users :
              ~ SameEmail(users[i].email, users'[Len(users')].email) ]_vars

(***************************************************************************)
(* A request that is refused has changed nothing, with one exception: a    *)
(* registration whose address is too long stores the account and reports   *)
(* a failure.                                                              *)
(***************************************************************************)
RefusalChangesNothing ==
    [][ ~ reply'.ok =>
          \/ UNCHANGED <<users, tokens>>
          \/ /\ reply'.op = "register" /\ Len(users') = Len(users) + 1
             /\ users'[Len(users')].email.form = "cut" ]_vars

(***************************************************************************)
(* schema.sql declares the address of a user UNIQUE.  The update endpoint  *)
(* overwrites it without looking for another account that has it.          *)
(***************************************************************************)
EmailsUnique ==
    \A i, j \in DOMAIN users : SameEmail(users[i].email, users[j].email) => i = j

(***************************************************************************)
(* auth.h: signing in returns a token, and verifying a token retrieves its *)
(* user.  Tokens are signed with the built-in secret and verified with the *)
(* one from the environment.                                               *)
(***************************************************************************)
IssuedTokenVerifies ==
    \A t \in tokens : t.readable /\ FindById(t.sub) # 0 => Resolve(t) # 0
===============================================================================
