------------------------------- MODULE WebSession -------------------------------
(***************************************************************************)
(* The session of the web client: a token and a user record, which every   *)
(* tab keeps in memory (CRMGMT.state) and all tabs share in localStorage.  *)
(* login.js, operations.js and app.js write both places; nothing listens   *)
(* to the storage events of other tabs.                                    *)
(*                                                                         *)
(* The tabs run side by side and localStorage has no lock: a handler is    *)
(* cut in two where it awaits the server, and again between two calls of   *)
(* localStorage.  Between two such calls (busy) a tab runs nothing else.   *)
(*                                                                         *)
(* What the server answers is left open; a lost call is answered by        *)
(* mockApiFallback, which reports success without a token for everything   *)
(* but a sign-in.                                                          *)
(*                                                                         *)
(* A token is named by the account it stands for.  Of a user record the id *)
(* and the address are kept, which the code compares.  The storage is      *)
(* taken to have room for what is written, and no tab dies between two     *)
(* calls.                                                                  *)
(***************************************************************************)
EXTENDS Naturals, FiniteSets

CONSTANTS
    Tabs,
    Accounts,      \* ids of accounts
    Emails,        \* e-mail addresses
    MockAccount,   \* the id in the mock answer to a sign-in
    Nothing,       \* no token, no user
    Garbled,       \* the text "undefined", which localStorage makes of undefined
    Mock,          \* the token in that answer
    MaxCalls       \* bound on the calls under way

ASSUME SessionAssumption ==
    /\ MockAccount \in Accounts
    /\ Nothing \notin Accounts /\ Garbled \notin Accounts /\ Mock \notin Accounts
    /\ Garbled # Nothing /\ Mock # Nothing /\ Mock # Garbled
    /\ MaxCalls \in Nat

VARIABLES
    stored,      \* crmgmt_token and crmgmt_user in localStorage
    session,     \* CRMGMT.state.token and .currentUser of every tab
    busy,        \* what a tab does between two calls of localStorage
    awaited,     \* calls sent, with what the form held
    loggedOut,   \* somebody has logged out and nobody signed in since
    loaded       \* the tabs whose page began to load meanwhile

sessionVars == <<stored, session, busy, awaited, loggedOut, loaded>>

User(a, address) == [id |-> a, email |-> address]
NoUser      == User(Nothing, Nothing)
GarbledUser == User(Garbled, Garbled)
Pair(t, u)  == [token |-> t, user |-> u]
NoSession   == Pair(Nothing, NoUser)

UserRecords == [id : Accounts, email : Emails]
Tokens      == Accounts \cup {Nothing, Garbled, Mock}
Kinds       == {"login", "register", "impersonate", "save"}

\* A sign-in that has stored its token and not yet its user, a page that has
\* read the token and not yet the user, one about to clear the storage.
NotBusy        == [doing |-> "nothing", token |-> Nothing, user |-> NoUser]
Storing(u)     == [doing |-> "storing", token |-> Nothing, user |-> u]
Loading(token) == [doing |-> "loading", token |-> token, user |-> NoUser]
Clearing       == [doing |-> "clearing", token |-> Nothing, user |-> NoUser]

\* A call, with what the form held when it was sent.
SessionCall == [tab : Tabs, kind : Kinds, id : Accounts, email : Emails]

SessionTypeOK ==
    /\ stored \in [token : Tokens, user : UserRecords \cup {NoUser, GarbledUser}]
    /\ session \in [Tabs -> [token : Tokens, user : UserRecords \cup {NoUser}]]
    /\ busy \in [Tabs -> {NotBusy, Clearing} \cup {Loading(k) : k \in Tokens}
                         \cup {Storing(u) : u \in UserRecords \cup {GarbledUser}}]
    /\ awaited \subseteq SessionCall
    /\ loggedOut \in BOOLEAN
    /\ loaded \subseteq Tabs

SessionInit ==
    /\ stored = NoSession
    /\ session = [t \in Tabs |-> NoSession]
    /\ busy = [t \in Tabs |-> NotBusy]
    /\ awaited = {}
    /\ loggedOut = FALSE /\ loaded = {}

(***************************************************************************)
(* Loading a page: init in app.js.  The public page does not look for a    *)
(* session; any other reads the token, then the user.  A record that does  *)
(* not parse empties the storage, after the token was taken over.          *)
(***************************************************************************)
Load(t) ==
    /\ busy[t] = NotBusy
    /\ session' = [session EXCEPT ![t] = NoSession]
    /\ awaited' = {c \in awaited : c.tab # t}
    /\ loaded' = IF loggedOut THEN loaded \cup {t} ELSE loaded
    /\ UNCHANGED <<stored, loggedOut>>

LoadPublic(t) == Load(t) /\ UNCHANGED busy

ReadToken(t) ==
    /\ Load(t)
    /\ busy' = [busy EXCEPT ![t] = Loading(stored.token)]

\* The second call, and what follows from both.
Restore(t, token) ==
    \/ /\ token = Nothing \/ stored.user = NoUser
       /\ busy' = [busy EXCEPT ![t] = NotBusy]
       /\ UNCHANGED session
    \/ /\ token # Nothing /\ stored.user = GarbledUser
       /\ session' = [session EXCEPT ![t] = Pair(token, NoUser)]
       /\ busy' = [busy EXCEPT ![t] = Clearing]
    \/ /\ token # Nothing /\ stored.user \in UserRecords
       /\ session' = [session EXCEPT ![t] = Pair(token, stored.user)]
       /\ busy' = [busy EXCEPT ![t] = NotBusy]

ReadUser(t) ==
    /\ busy[t].doing = "loading"
    /\ Restore(t, busy[t].token)
    /\ UNCHANGED <<stored, awaited, loggedOut, loaded>>

Clear(t) ==
    /\ busy[t] = Clearing
    /\ stored' = NoSession
    /\ busy' = [busy EXCEPT ![t] = NotBusy]
    /\ UNCHANGED <<session, awaited, loggedOut, loaded>>

(***************************************************************************)
(* Sending.  The buttons of the two forms are disabled while their call is *)
(* under way.                                                              *)
(***************************************************************************)
Submit(c) ==
    /\ busy[c.tab] = NotBusy
    /\ Cardinality(awaited \cup {c}) <= MaxCalls
    /\ c.kind \in {"login", "register"} =>
           \A d \in awaited : d.tab # c.tab \/ d.kind # c.kind
    /\ awaited' = awaited \cup {c}
    /\ UNCHANGED <<stored, session, busy, loggedOut, loaded>>

(***************************************************************************)
(* The rest of a handler.                                                  *)
(***************************************************************************)
Done(c) ==
    /\ busy[c.tab] = NotBusy
    /\ c \in awaited /\ awaited' = awaited \ {c}

Refused(c) ==
    /\ Done(c)
    /\ UNCHANGED <<stored, session, busy, loggedOut, loaded>>

\* A page that has a user keeps its record.
FaultyTakeOver(t, memory, storage) ==
    /\ session' = [session EXCEPT
           ![t] = Pair(memory.token, IF @.user = NoUser THEN memory.user ELSE @.user)]
    /\ stored' = [stored EXCEPT !.token = storage.token]
    /\ busy' = [busy EXCEPT ![t] = Storing(storage.user)]

\* Both handlers of login.js and impersonateUser: token and user to memory,
\* then the token to the storage.
TakeOver(t, memory, storage) ==
    /\ session' = [session EXCEPT ![t] = memory]
    /\ stored' = [stored EXCEPT !.token = storage.token]
    /\ busy' = [busy EXCEPT ![t] = Storing(storage.user)]

\* Then the user.
StoreUser(t) ==
    /\ busy[t].doing = "storing"
    /\ stored' = [stored EXCEPT !.user = busy[t].user]
    /\ busy' = [busy EXCEPT ![t] = NotBusy]
    /\ UNCHANGED <<session, awaited, loggedOut, loaded>>

SignsIn == loggedOut' = FALSE /\ loaded' = {}

\* The server has no route for impersonateUser and refuses it.
SignedIn(c, u) ==
    /\ Done(c) /\ c.kind \in {"login", "register"}
    /\ TakeOver(c.tab, Pair(u.id, u), Pair(u.id, u))
    /\ SignsIn

MockSignIn(c) ==
    /\ Done(c) /\ c.kind = "login"
    /\ LET mock == Pair(Mock, User(MockAccount, c.email))
       IN  TakeOver(c.tab, mock, mock)
    /\ SignsIn

\* Success without token and user: undefined in memory, its text in the
\* storage, where setItem takes anything for a text.  Nobody has signed in.
MockSuccess(c) ==
    /\ Done(c) /\ c.kind \in {"register", "impersonate"}
    /\ TakeOver(c.tab, NoSession, Pair(Garbled, GarbledUser))
    /\ UNCHANGED <<loggedOut, loaded>>

\* The record is written together with the token of the page.
FaultyRemember(t, u) ==
    /\ session' = [session EXCEPT ![t].user = u]
    /\ stored' = Pair(session[t].token, u)

\* currentUser of a page has changed: localStorage.setItem('crmgmt_user', ...).
Remember(t, u) ==
    /\ session' = [session EXCEPT ![t].user = u]
    /\ stored' = [stored EXCEPT !.user = u]

\* saveUserProfile after success, which the mock reports too: the record of
\* the page follows when the saved account has its id or its address.
IsOwn(c, u) == u # NoUser /\ (u.id = c.id \/ u.email = c.email)

ProfileSaved(c) ==
    /\ Done(c) /\ c.kind = "save"
    /\ LET u == session[c.tab].user
       IN  IF IsOwn(c, u) THEN Remember(c.tab, User(u.id, c.email))
                          ELSE UNCHANGED <<stored, session>>
    /\ UNCHANGED <<busy, loggedOut, loaded>>

\* setPfp for the own account; the call it makes is not waited for.
SetPicture(t) ==
    /\ busy[t] = NotBusy
    /\ session[t].user # NoUser
    /\ Remember(t, session[t].user)
    /\ UNCHANGED <<busy, awaited, loggedOut, loaded>>

\* Only the user record is removed.
FaultyLogOut(t) ==
    /\ busy[t] = NotBusy
    /\ stored' = [stored EXCEPT !.user = NoUser]
    /\ loggedOut' = TRUE /\ loaded' = {}
    /\ UNCHANGED <<session, busy, awaited>>

\* The link "Log Out": localStorage.clear(), and nothing else.
LogOut(t) ==
    /\ busy[t] = NotBusy
    /\ stored' = NoSession
    /\ loggedOut' = TRUE /\ loaded' = {}
    /\ UNCHANGED <<session, busy, awaited>>

SessionNext ==
    \/ \E t \in Tabs : LoadPublic(t) \/ ReadToken(t)
    \/ \E t \in Tabs : ReadUser(t) \/ Clear(t)
    \/ \E c \in SessionCall : Submit(c)
    \/ \E c \in awaited : Refused(c)
    \/ \E c \in awaited, u \in UserRecords : SignedIn(c, u)
    \/ \E c \in awaited : MockSignIn(c)
    \/ \E c \in awaited : MockSuccess(c)
    \/ \E t \in Tabs : StoreUser(t)
    \/ \E c \in awaited : ProfileSaved(c)
    \/ \E t \in Tabs : SetPicture(t)
    \/ \E t \in Tabs : LogOut(t)

SessionSpec == SessionInit /\ [][SessionNext]_sessionVars

(***************************************************************************)
(* Properties.                                                             *)
(***************************************************************************)
\* The account a token belongs to, as far as the page can say.
Holder(token) == IF token = Mock THEN MockAccount ELSE token

Whole(s) == s.user.id = Holder(s.token)

(***************************************************************************)
(* After a log-out no page that is loaded finds a token that stands for    *)
(* anybody, until somebody signs in: not even when another tab, still      *)
(* open, saves a profile or a picture and so writes its user back to the   *)
(* storage, or a registration is lost and leaves its text there.           *)
(***************************************************************************)
LogOutEndsSession ==
    loggedOut =>
        /\ stored.token \in {Nothing, Garbled}
        /\ \A t \in loaded : session[t] = NoSession \/ session[t].token = Garbled

(***************************************************************************)
(* A page whose token and user belong together keeps it that way whatever  *)
(* is answered, in any order, and whatever other tabs do.  Only a load can *)
(* mix two accounts: when the token was replaced between its two reads, or *)
(* the session was torn in the storage or holds no user that parses.       *)
(***************************************************************************)
PagesStayWhole ==
    [][ \A t \in Tabs :
            Whole(session[t]) /\ ~ Whole(session'[t]) =>
                /\ busy[t].doing = "loading" /\ session'[t].token = busy[t].token
                /\ \/ stored.token # busy[t].token
                   \/ ~ Whole(stored) \/ stored.user = GarbledUser ]_sessionVars

\* Token and user in the storage belong together, or will when any of the
\* tabs that are storing a session has written its half.
StoresUser(t) == busy[t].doing = "storing"

Settled ==
    IF \E t \in Tabs : StoresUser(t)
    THEN \A t \in Tabs : StoresUser(t) => Whole([stored EXCEPT !.user = busy[t].user])
    ELSE Whole(stored)

\* A tab writes its user back that is signed in as somebody else than the
\* stored token says.
WrittenBack ==
    \E t \in Tabs : /\ session[t].user # NoUser
                    /\ session[t].user.id # Holder(stored.token)
                    /\ stored'.user.id = session[t].user.id

\* The token is replaced or removed while some tab has stored its own and not
\* yet the user to it.
Overtaken ==
    \E t \in Tabs : /\ StoresUser(t) /\ busy'[t] = busy[t]
                    /\ stored'.token # stored.token

(***************************************************************************)
(* The stored session is torn in these two ways only, and in no third.     *)
(***************************************************************************)
TornOnlyByOthers ==
    [][ Settled /\ ~ Settled' => WrittenBack \/ Overtaken ]_sessionVars
================================================================================
