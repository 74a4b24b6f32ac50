# CRMGMT in TLA+

CRMGMT v0.1 is a courier management system: one C program that is both the HTTP
server and the database, and a single-page web client. This directory holds
TLA+ models of the server and of the state the web client keeps, TLC configurations
that check them on small instances, and proofs, checked by TLAPS, that hold for
tables, buffers and inputs of any size.

Paths below are relative to the repository (`src/db.c`, `web/js/app.js`, ...);
`PROJECT.json` names the same files with the prefix `src/` (`src/src/db.c`).

| Module | What it is |
| --- | --- |
| `CrmData` | roles, statuses, permission check, seed records |
| `ShipmentStore` | shipments, checkpoints and audit log, and every handler that changes them |
| `ShipmentLedger` | abstract: a bounded ledger of status events |
| `ShipmentProps` | what the store promises; the refinement mapping to the ledger |
| `ShipmentProofs` | proofs about the store |
| `Accounts` | users, sign-in, registration, profile edits, tokens, restart |
| `AccountProofs` | proofs about the accounts |
| `CrmServer` | accounts and store composed: one process, callers looked up in the user table |
| `CrmProofs` | proofs about the composition |
| `HttpServer` | the accept loop, the connection handler, clients, the shutdown signal |
| `RequestQueue` | abstract: a queue of requests that can be closed |
| `HttpProofs` | proofs about the HTTP server |
| `JsonHeap` | the links between items of `cJSON.c`, and what deletion reaches |
| `JsonParser` | the parser of `cJSON.c` and the heap blocks it owns |
| `ParserProofs` | proofs about the parser's heap, what it takes and the tree it builds |
| `JsonAnswer` | how an answer is built, printed, sent and freed |
| `AnswerProofs` | proofs about the print buffer, what is freed and what is said |
| `HashStream` | the streaming of the SHA-256 engine of `crypto_utils.c` |
| `Base64Url` | both base64 encoders and the decoder |
| `CryptoUtils` | the two of them, as callers use them |
| `CryptoProofs` | proofs about both |
| `TrackingPage` | one page of the web client: navigation, tracking, proof of delivery |
| `WebSession` | token and user in several tabs and in `localStorage` |
| `ClientProofs` | proofs about the page and the session |
| `MC*.tla`, `MC*.cfg` | instances for TLC |

Definitions whose name starts with `Faulty` are not part of a model. Each is the
definition that follows it with a plausible bug; it is put in place of that
definition to confirm that a property notices (the `mutants` in `PROJECT.json`).

## 1. The system

### Components, state, operations

**Shipment store** (`src/db.c`, `src/handlers/*.c`, `src/tracking_engine.c`). Three
fixed-size arrays with counters: shipments (1024), checkpoints (4096, the tracking
history) and audit entries (1024). Nothing is written to disk: `db_init` seeds the
arrays at every start. Operations: book (`handle_shipment_create`), bulk booking
(`handle_bulk_booking`), scan (`handle_checkpoint_scan`), proof of delivery
(`handle_proof_of_delivery`), and two that are compiled in but not routed: status
override and agent dispatch (`admin_ops.c`). All status changes go through
`db_update_shipment_status`, which writes three tables and checks none of the
appends.
*Correct when* the status in the record, the tracking history and the audit log
tell the same story; no table outgrows its array; every booking opens a history;
a proof of delivery comes with a delivery; changes are made by staff.

**Accounts** (`src/auth.c`, `src/db.c`, `src/server.c`). The user table (256), also in
memory. Operations: sign-in (password or API key), registration, creation by an
administrator, profile update, picture update. Sessions exist only as signed tokens
held by clients; each request's token is verified and its account looked up again, by
id and then by address.
*Correct when* a token keeps standing for the account it was issued to; the token
and the answer of a sign-in are about the same account; a new account does not
take over an address; a refusal changes nothing.

**HTTP server** (`src/server.c`, `src/main.c`). One thread: check a flag, accept, read
one request into a buffer that may grow, dispatch, answer, close. State: the flag,
the buffer and its counters, the backlog kept by the system.
*Correct when* no read leaves the buffer; a request is answered whole; nobody is
passed over; the process ends after the signal.

**JSON library** (`src/utils/cJSON.c`, a reduced rewrite kept in the repository). A
recursive-descent parser that allocates an item per value and a string per key or
text, `cJSON_Delete`, functions that build answers, a printer with a growing buffer.
*Correct when* exactly the well-formed texts are taken, the tree says what the text
said, each block is freed once, also when parsing fails half-way; and an answer says
what the handler put in, without leaving the print buffer, whatever cannot be
allocated.

**Hashes and base64** (`src/utils/crypto_utils.c`). Tokens and password hashes rest on
a SHA-256 engine that takes a message in pieces (compiled when the build has no
OpenSSL: `WITH_OPENSSL=0`, or the target `debug`), and on two encoders and a decoder
with output buffers of fixed size. *Correct when* exactly the padded message is
compressed, decoding gives back what was encoded, and no buffer is overrun.

**Rates and analytics** (`customer_ops.c`, `db.c`): functions without lasting state.

**Web client** (`web/js`). Asynchronous handlers that share a few globals: the signed-in
user, the current page, `currentShipment` (written by two lookups, read by the
proof-of-delivery dialog), and a fallback that answers from mock data when the
server cannot be reached. Token and user are also kept in `localStorage`, which all
tabs share and each tab reads only when it is loaded.
*Correct when* view and address agree once navigation has settled; what is
remembered is what is shown; a signature goes to the shipment it was given for, and
is not asked for again after the server has it; a log-out leaves nothing for the next
page, and token and user are of the same account.

**Not part of the running program**: `database/*.sql` (never executed, but the
constraints it states are what several findings compare the code with),
`test_server.py` (a stand-in in Python), build and deployment files,
`generate_docx.py`.

### Interactions

Browser -> HTTP -> `handle_http_client` -> `server_dispatch_api` -> handler ->
`db_*`. The dispatcher resolves the token to a caller; handlers ask
`auth_has_permission`. Store and accounts have tables of their own; what connects them
is the caller, looked up in the user table of that moment (`CrmServer`), and the
restart, which seeds both. The HTTP server shares nothing with either. Because one
thread does everything, a
handler is atomic with respect to other requests: that is why a handler is one
action in `ShipmentStore` and `Accounts`, however many `db_*` calls it makes. What
is *not* atomic is the connection: bytes, hang-ups, further connections and signals
arrive between any two system calls, and `HttpServer` has one action per call.

### What is hard here

- Appends that fail silently when a table is full, one by one, so the three tables
  can stop at different moments and in the middle of one request.
- Handlers made of several updates (dispatch: two audit entries; proof of delivery:
  data and status) whose order shows when a table fills in between.
- Data that outlives the state it refers to: tokens across restarts and edits.
- Truncation: fields, headers and token payloads have fixed sizes.
- Blocking reads on the only thread, partial reads, early hang-ups, signals.
- Clean-up by hand when parsing fails at any depth or memory runs out.
- In the client, state that changes between a call and its answer, answers in any
  order, a `hashchange` event queued by every navigation, and a storage that several
  tabs write without looking.
- Answers built without looking at a single allocation, and printed into a buffer
  that is asked for byte by byte.

`PROJECT.json` lists the hazards one by one, at the line where each bites, with the
properties that cover it.

## 2. The models

### ShipmentStore

State: `shipments`, `checkpoints`, `audit` (sequences for the arrays up to their
counters) and `reply` (what the last request was told). A shipment is named by its
slot; its 128-bit id is taken to be unique. The short tracking id is not: the code
draws it from the clock and 16 random bits and compares it with nothing, so the
model draws it from `GeneratedIds`. Of a record the model keeps what handlers branch
on or properties speak of: tracking id, sender, origin hub, agent, status, the two
proofs (absent, whole, cut to the field). Prices, names, coordinates and time stamps
are left out.

| Action | Code |
| --- | --- |
| `BookShipment`, `BulkBooking` (`StoreBookings`), `BookingGarbled` | `handle_shipment_create`, `handle_bulk_booking`, `db_create_shipment` |
| `Scan` (`ScanPlace`) | `handle_checkpoint_scan` |
| `ProofOfDelivery` (`StoredUpload`) | `handle_proof_of_delivery`, `db_update_shipment_pod` |
| `StatusOverride`, `AgentDispatch` | `handle_admin_status_override`, `handle_admin_agent_dispatch` |
| `UpdateStatus`, `AddCheckpoint`, `LogAudit` | `db_update_shipment_status`, `db_add_checkpoint`, `db_log_audit` |
| `Restart` | the process ends and starts again: `db_init` |

`Spec` has every handler; `ServerSpec` leaves out the two back-office handlers, which
`server.c` does not route. `ServerImplementsStore` (proved) says the second is a
restriction of the first, so what is shown of `Spec` covers both.

`ShipmentLedger` is the promise in the small: statuses, and a bounded sequence of
status events that is only ever appended to. `ImplementsLedger` maps the store to it
by forgetting everything else.

### Accounts

State: `users` (a sequence: the array), `tokens` (all tokens clients hold) and
`reply`. An address is a name with a form, so that two spellings that differ in letter
case, an address too long for its field, and what is left of it after truncation are
told apart, because the code compares them differently: lookups ignore case,
registration compares the sent address and then the cut one. A password hash is
the password, a signature the name of the secret it was made with. Two passwords
open every account, as in `crypto_verify_password`; an API key given as the password
is tried first. `TokenFor` records whether the token will fit the buffers of the
server that reads it back (511 bytes of header, 511 of payload).

Actions: `Login`, `Register`, `CreateUser`, `UpdateUser`, `UpdateGarbled` (a body that is
no JSON), `UpdatePicture`, `Expire`, `Restart`. Tokens survive a restart.

### CrmServer

An instance of `Accounts` and an instance of `ShipmentStore` side by side, as
`server_dispatch_api` puts them together. A step is a request to one of them while the
other rests, or a restart of both. A request to the store carries a token or none;
`CallerOf` resolves it against the users as they are now, and the store's handler sees
only the result. `Listed` is what `db_get_shipments_json` shows to a caller. The instances
are of the modules with the proofs, so that `CrmProofs` can cite their theorems.

### HttpServer

State: the flag, the station of the thread, the backlog, the client being served, the
variables of `handle_http_client` as one record, and the clients. Sizes are counted and
contents left out. Server actions follow the system calls: `Check` (the loop
condition), `Accept`, `TurnAway` (accept or malloc fails), `ReadHeader`, `ReadBody`, `NoHeader`,
`BodyEnds`, `Answer`. Clients `Connect`, `Deliver` any number of bytes and `HangUp`,
which may also take back what was not read (a reset). `Signal` clears the flag; it
interrupts neither `accept` nor `recv`, because `signal()` restarts them. `Answer` may
end the process when the client has hung up: nothing handles SIGPIPE.

The server does not read the length by the rules of HTTP. It searches the buffer, at the
moment the empty line has arrived, for the text `Content-Length: `, or else
`content-length: `, with one space, and hands what follows to `atol`. A message therefore
has two lengths: `announced` is what the client means by the rules of HTTP, `number` is
the number behind the text that the search comes upon, and `at` the byte by which that
has arrived. They differ when the client spells the header in another way (the search
finds nothing: number 0 at 0) or quotes the text in its body (found if that part has
arrived). `atol` of text that is no number is 0. The number then takes the way of the
code: `Atol` stops at the limits of `long`, `AsSize` is the cast to `size_t` and the sum of
`server.c:453`, both of which wrap around, `AsInt` the cast in the `recv` of
`server.c:467`; `LongLimit` and `IntLimit` stand for 2^63 and 2^31. With a length of 0 that
`recv` returns at once and the loop ends (`BodyEnds`); a negative length is an enormous
`size_t` again for the system, which may refuse it (`BodyEnds`) or read what there is
(`ReadBody`). No block is as large as half of the address space, so `realloc` refuses
those. Where bytes land behind the buffer, the process may end or go on (`ReadBody`); what
they overwrite is not modelled. A message has one empty line, after its headers, one
place where the search succeeds, and no byte 0 in front of them, at which `strstr` would
stop.

`RequestQueue` is the promise: connections leave the queue in order, one at a time, and
at most one after closing. The refinement maps flag and station to its phase: a thread
already in `accept` when the signal arrives is "closing" and will take one more.

### JsonParser

State: the text as a sequence of tokens (strings, scalars and white space are not looked
into), how far it is consumed, the depth counter, the C call stack as a sequence of
activations of `parse_array` and `parse_object`, and the heap: items with their pointers
`next`, `child`, `string`, `valuestring`, and the strings. `prev` is left out: nothing reads it.
Every allocation may fail.

| Action | Code |
| --- | --- |
| `Begin`, `Finish`, `Refuse` | `cJSON_ParseWithLength` |
| `Scalar`, `Text`, `NoValue` | `parse_value`, `parse_number`, `parse_string` |
| `Open`, `Element`, `Key`, `After` | `parse_array`, `parse_object`: entry, head of the loop, key and colon, end of the loop |
| `Unwind` | their `fail:` |
| `Release` | `cJSON_Delete` of the request body in `server_dispatch_api` |

`Delete` removes what `cJSON_Delete` visits: the least set closed under `next` and `child`.
`Printed` is the printer as a function of the tree, to compare it with the text;
`JsonAnswer` has the printer step by step. `Ends` is no model of code but the grammar the
parser is compared with: `inside` gives, for each place, kind of container and depth, the
places where a list of elements that starts there may end. Both are recursive functions
of one argument whose values are functions again (`inside[i][kind][d]`,
`print[n][inObject]`), a form that the provers can take apart.

### JsonAnswer

State: the containers the handler holds pointers to, the heap, the print buffer (its
size, its contents), what is left to print, and the history variable `meant`: what each
container would say, put together as the handler calls. Any allocation may fail at any
point, and no caller looks.

| Action | Code |
| --- | --- |
| `Create`, `AddMember`, `Attach` | `cJSON_Create..`, `cJSON_Add..`, as handlers call them |
| `Respond`, `EndPrint` | `cJSON_PrintUnformatted` |
| `Write` (`Ensure`), `Walk` | `print_value` and its parts, `ensure` |
| `DeleteTree`, `Send` | the end of `server_dispatch_api`, `handle_http_client` |

A character is plain or special (printed with a back-slash); a number is its digits.
The pieces that are printed are a queue of tasks, each with the room the code reserves
for it.

### CryptoUtils

`HashStream` cuts `sha256_update` at its copies and at the turns of its loop, and
`sha256_final` at its two calls of it. What `sha256_transform` computes is left out: its
result depends on the bytes it was given, and `hashed` lists them. The count is in bytes,
where the code has bits in steps of eight. The buffer starts with whatever was on the
stack. `Base64Url` does one turn of a loop per step; characters are their codes, and the
decoder's accumulator keeps its width: it has `Word` values, 2^32 in the code. Buffers have at
least one byte: with none the encoder for tokens would still write the zero
(`crypto_utils.c:235`), and no caller passes such a buffer. `CryptoUtils` runs one of the two at a time.

### TrackingPage

State of one browser page: the signed-in user (constant), the page (view, address,
number of queued `hashchange` events), the calls under way, `currentShipment`, the result
box of the staff page, the shipment on the public page, and the shipment whose button
opened the proof-of-delivery dialog.

A handler that awaits the server is cut in two at the await. `Lookup`, `LookupPublic`,
`SubmitPOD` and every navigation to a shipment send a call; `Serve` and `Lose` are the
server and the network; `LookupDone`, `PublicDone`, `PodDone` are what follows the await.
The server is any answer that some state of its tables explains, for a signature only if
the user may sign. A lost call is answered by `mockApiFallback` (`Received`).

| Action | Code |
| --- | --- |
| `Init`, `Reload` (`FirstPage`, `FirstCalls`) | `init` in `app.js` |
| `HashChange`, `Click`, `Track` (`Navigate`: `ShowPublic`, `ShowView`) | `navigate` and its callers |
| `EditUrl` | the address bar and the back button |
| `OpenPodModal`, `ClosePodModal`, `SubmitPOD`, `PodDone` | the dialog, `tracking.js` |
| `Lookup`, `LookupDone`, `LookupPublic`, `PublicDone` | `lookup`, `lookupPublic` and their renderers |

"dashboard" stands for every view that is neither log-in nor tracking: `navigate` treats
them alike up to the loading of tables that nothing here reads.

### WebSession

State: the stored token and user record, the two in the memory of each tab, what a tab
is doing between two calls of `localStorage` (`busy`), the calls under way. Tabs are
processes of their own and `localStorage` has no lock, so every `getItem` and `setItem` is a
step: a sign-in stores its token (`TakeOver`) and then its user (`StoreUser`), a page that
loads reads the token (`ReadToken`) and then the user (`ReadUser`), and clears a storage whose
user does not parse after that (`Clear`). Other tabs sign in, log out, load or write back
in between. Between two such calls a tab runs nothing else, because a script runs to its
end or to an await.

A token is named by the account it stands for; of a user record the model
keeps the id and the address, which `saveUserProfile` compares. `undefined` becomes the
text "undefined" when it is stored, and `JSON.parse` does not take that text for a record.
A registration or impersonation that was lost and answered by the mock is a success in
which nobody has signed in, and is not counted as a sign-in (`loggedOut`).
When a user has a picture of their own, the handlers write the record once more through
`setPfp`: `SetPicture`, which a tab may take at any time, stands for that too. The list of
pictures itself (`crmgmt_custom_pfps`) is left out, and so are a tab that dies between two
calls and a storage that is full.

| Action | Code |
| --- | --- |
| `LoadPublic`, `ReadToken`, `ReadUser` (`Restore`), `Clear` | `init` in `app.js` |
| `Submit`, `Refused` | the forms of `login.js`, `saveUserProfile`, `impersonateUser` up to and after the await |
| `SignedIn`, `MockSignIn`, `MockSuccess` (`TakeOver`), `StoreUser` | their success, by the server or by `mockApiFallback` |
| `ProfileSaved`, `SetPicture` (`Remember`) | `saveUserProfile`, `setPfp` |
| `LogOut` | the link in `index.html` |

## 3. What TLC checks

| Run | Instance | Result |
| --- | --- | --- |
| `store` | every handler; room for 2 more shipments, 3 checkpoints and 3 audit entries; a hub manager and a customer; batches of up to 2 | all properties hold |
| `courier` | accounts and store; one more account, two tokens, two addresses; room for 1 more shipment, 2 checkpoints, 1 audit entry | all properties hold |
| `accounts` | the seed and one more account under two ids, one token, addresses in three forms | all properties hold |
| `http` | 2 clients, 12 kinds of messages, buffer of 4 bytes, `int` of 4 bits, `long` of 6, backlog of 2 | all properties hold |
| `json_parser` | texts of up to 10 tokens, depth limit 2, any allocation may fail | all properties hold |
| `answers` | answers of up to 4 items, buffer of 4 bytes at first, any allocation may fail | all properties hold |
| `crypto_utils` | messages of up to 14 bytes in blocks of 6; texts of up to 5 bytes in buffers of 1 to 9 | all properties hold |
| `tracking_page` | 2 shipments, 2 calls under way, 2 queued events; an agent or a visitor | all properties hold |
| `web_session` | 2 tabs, 2 accounts, 2 addresses, 2 calls under way | all properties hold |
| `emails` | a profile update | `EmailsUnique` violated |
| `token_secret` | a secret from the environment | `IssuedTokenVerifies` violated |
| `pod_dialog` | the instance of `tracking_page` | `DialogSignsItsShipment` violated |

**Properties.** Of the store: `StatusIsLastEvent`, `HistoryOpensWithBooking`,
`ProofImpliesDelivery`, `TrailsAgree` (the k-th change in the audit log is the k-th change
in the history, whichever fills first), `DispatchIsLoggedWhole`, `RepliesAreTruthful` (the
count a bulk booking reports; refusals change nothing), `TrackingIdKeepsItsShipment` (ids
may be drawn twice, look-ups stay with the first), `ImplementsLedger`. Of the composition:
`UpdatesByCurrentStaff` (whoever changes a status is staff in the user table of that
moment), `ReferencesAreStored` (whoever the tables name is an account, also after a
restart), `ListingsOnlyGrow`. Of the accounts: `TokenKeepsItsAccount`, `SignInMatchesToken`,
`NewAddressIsNew`, `RefusalChangesNothing`. Of the HTTP server: `StaysInBuffer` (except for
the negative numbers that wrap around in `server.c:453`), `AnsweredWhole` (what a client
announces is read unless it hangs up, if the search finds its length in the headers and
an `int` holds it), `ImplementsQueue`, `EveryoneIsDealtWith`, `ShutdownCompletes`. Of the
parser: `TakesExactlyValues` (compared with the grammar), `TreeIsTheText` (printing the tree
gives the text back), `OneOwner` (of every block, at every moment), `NothingLeft`,
`Returns`. Of answers: `PrintsWithinBuffer`, `AnswerSaysWhatWasMeant`, `AnswerIsFreed`,
`Answered`. Of hashes and base64: `HashesThePadding` (compared with the padding of the
standard), `CopiesStayInside`, `DecodesWhatWasEncoded`, `UsesItsRoom` (no overrun, and no
refusal of a buffer that holds whole groups and a zero; the encoder for tokens does refuse
one that holds only the shorter text without padding). Of the page:
`QuietPageShowsAddress`, `CurrentIsOnAPage`, `RecordedProofClosesDialog`. Of the session:
`LogOutEndsSession` (no token of an account is found, though the text "undefined" may be),
`PagesStayWhole`, `TornOnlyByOthers`.

Each module has a type invariant. The store's is a property of its own, because it holds
the capacities of the tables; those of parser, answers and hashes are part of `OneOwner`,
`AnswerIsFreed` and `CopiesStayInside`. All of them are proved (section 4).

**Bounds.** What matters about a table is whether the next append fits, and which table
fills first; with two or three free entries per table every order of filling occurs, also
inside one request. One new account under one of two ids is enough for an account to
be lost in a restart and its slot taken by another; the properties of tokens speak of
one token at a time, so one is enough. In the buffer of four bytes there are headers
that just fit, headers that do not, a body that makes it grow, one shorter and one
longer than announced; lengths not found and found in a body; with an `int` of four bits
and a `long` of six, lengths that the casts make 0 or negative, that memory is refused
for, and that wrap around. Two clients can wait in either order, and connect again and
again. The backlog limit itself belongs to the operating system.
The texts are all beginnings of sentences of up to nine tokens, followed by any token:
after the first wrong token the parser reads nothing, so longer malformed texts add
nothing, and nine tokens hold lists of three, members, empty containers, and one
container more than the depth limit allows. Two calls under way can answer in either
order, and the properties relate at most two; a second queued event is the one a
navigation adds while the first is waiting. The two calls are symmetric, and the
instance says so. So are the two tabs. With two tabs and two accounts a tab can come
between the two halves of the other's sign-in or load, or write its user back to the
other's session, and each exception that the three properties make does occur; what a
third tab could add is covered by the proofs, which hold for any number. In `courier` one new account and the hub manager suffice to be promoted,
demoted, lost in a restart and replaced. An answer of four items holds an array in an
object, members before and after it, and a key; with four bytes at first the buffer
grows up to four times, at any piece. A block of six bytes with two for the length
leaves every kind of rest (empty, just room for the length, one byte short of it, one
short of a block), and pieces of up to thirteen bytes reach over two blocks. Five bytes
make a group and both kinds of rest, and 64 single bytes make every character; a word of
14 bits is the least that holds what the decoder reads back, so bits shifted out would
show if they were needed.

**Fairness.** `json_parser` and `answers` assume that a function that was called goes on
until it returns. Otherwise only `http` assumes any. The server thread is weakly fair: it runs
when it is not blocked. Every client is weakly fair in `Deliver` or `HangUp`: nobody
stays silent for ever. That is an assumption about the world, not about the code: the
code has no time-out, and without it one silent client stops the server for everybody,
although `main.c` calls the runtime non-blocking and multi-threaded.
`EveryoneIsDealtWith` and `ShutdownCompletes` must be read with it. Restart, requests
and the signal are never assumed to happen. The store and the accounts react to
requests and owe nothing in between, so they have no liveness property; nor do the
pages, where the user may stop at any time.
`http` does not check deadlock, because after the signal the process ends; nor do
`json_parser`, `answers` and `crypto_utils`, whose functions return.

**Disagreements found** (the violation runs; details and quotes in `PROJECT.json`):
e-mail addresses are declared unique in `schema.sql` and an update makes two alike; with
`JWT_SECRET` set, tokens are signed with one secret and verified with another, so no
sign-in works; a signature goes to the shipment looked up last, which need not be the
one whose button opened the dialog.

What the models show besides, without a run of its own: tracking ids are declared unique
in `schema.sql` and compared with nothing, and the model lets two shipments draw the same
one; with a full checkpoint table the status moves on without its history, which is why
the properties about history end there; a `Content-Length` in any spelling but two, or of 2^31 or more, may
leave a body unread although the client is there (`Understood`), and for a negative one that
wraps around the buffer is not enlarged (`WrapsAround`): the messages of `http` have them all,
and without any part of these two exceptions TLC finds `AnsweredWhole` and `StaysInBuffer` violated; a token too long for the buffers is issued and never
accepted (`readable`); the stored session of the web client can name
one account and hold the token of another, also when two sign-ins cross; saving somebody else's profile with the
address of one's own changes the record of one's own page (`IsOwn`).

## 4. What is proved

All proofs are for every value of the constants that satisfies the named assumptions
(`CapacityAssumption`, `InputAssumption`, `AccountAssumption`, `ServerAssumption`,
`ParserAssumption`, `AnswerAssumption`, `StreamAssumption`, `CodecAssumption`,
`PageAssumption`, `SessionAssumption`).

| Theorem | Statement |
| --- | --- |
| `TypeCorrect` | `Spec => []TypeOK` for the store, with capacities and references |
| `StatusFollowsHistory` | `Spec => []StatusIsLastEvent` |
| `HistoriesOpenWithBooking` | `Spec => []HistoryOpensWithBooking` |
| `ProofsFollowDelivery` | `Spec => []ProofImpliesDelivery` |
| `OnlyStaffUpdates` | `Spec => []UpdatesAreByStaff`: whoever the history names may make changes |
| `TruthfulReplies` | `Spec => RepliesAreTruthful` |
| `DispatchesLoggedWhole` | `Spec => []DispatchIsLoggedWhole` |
| `TrailsTellTheSame` | `Spec => []TrailsAgree` |
| `TrackingIdsKeepShipments` | `Spec => TrackingIdKeepsItsShipment` |
| `StoreImplementsLedger` | `Spec => ImplementsLedger` |
| `ServerImplementsStore` | `ServerSpec => Spec` |
| `AccountTypes` | `Spec => []TypeOK` for the accounts |
| `TokensKeepAccounts` | `Spec => TokenKeepsItsAccount` |
| `SignIns` | with the built-in secret, `Spec => SignInMatchesToken` |
| `NewAddresses` | `Spec => NewAddressIsNew` |
| `Refusals` | `Spec => RefusalChangesNothing` |
| `ServerRunsStore`, `ServerRunsAccounts` | `CrmServer` implements `ServerSpec` of the store and `Spec` of the accounts |
| `CurrentStaffUpdates` | `Spec => UpdatesByCurrentStaff` |
| `ReferencesStored` | `Spec => []ReferencesAreStored` |
| `ListingsGrow` | `Spec => ListingsOnlyGrow` |
| `ServerTypes`, `BufferSafety`, `WholeRequests` | the invariants of the HTTP server |
| `ServerImplementsQueue` | `Spec => ImplementsQueue` |
| `ParserMemory` | types, owners and shape of the parser's heap, its inductive invariant |
| `ParserOneOwner` | `Spec => []OneOwner` |
| `ParserNothingLeft` | `Spec => []NothingLeft` |
| `ParserReadsText` | how the state of the parser decides where the text ends by the grammar |
| `ParserTakesValues` | `Spec => []TakesExactlyValues` |
| `ParserHasSpans` | every item has a place in the text, those of linked items adjoin |
| `ParserTreeIsText` | `Spec => []TreeIsTheText` |
| `PrinterStaysInBuffer` | `Spec => []PrintsWithinBuffer` for answers |
| `TreeHangsTogether` | the items of an answer form a forest with its roots held |
| `AnswersAreFreed` | `Spec => []AnswerIsFreed` |
| `AnswersSayWhatWasMeant` | `Spec => []AnswerSaysWhatWasMeant` |
| `StreamsTogether` | what is compressed, held and left is what was handed over |
| `CopiesInside` | `UtilsSpec => []CopiesStayInside` |
| `HashesPadding` | `UtilsSpec => []HashesThePadding` |
| `CodecCorrect` | the inductive invariant of encoders and decoder |
| `DecodesBack` | `UtilsSpec => []DecodesWhatWasEncoded` |
| `RoomIsUsed` | `UtilsSpec => []UsesItsRoom` |
| `PageTypes` | `Spec => []TypeOK` for the page |
| `NavigationSettles` | `Spec => []QuietPageShowsAddress` |
| `RememberedIsRendered` | `Spec => []CurrentIsOnAPage` |
| `RecordedProofCloses` | `Spec => RecordedProofClosesDialog` |
| `SessionTypes` | `SessionSpec => []SessionTypeOK` |
| `LogOutEnds` | `SessionSpec => []LogOutEndsSession` |
| `PagesWhole` | `SessionSpec => PagesStayWhole` |
| `TornByOtherPages` | `SessionSpec => TornOnlyByOthers` |

**Store.** `StepCases` reduces a step to four cases: nothing changed, the tables were
seeded again, one `Update` (a status change with its appends, whichever handler made
it), or one `Booking`. `UpdateFacts` and `BookingFacts` say what these do to each table:
old entries stay, at most one entry is added, or one per stored item. Each invariant is
inductive relative to `TypeOK`, whose references (every checkpoint names a stored
shipment) are needed to know that a new shipment has no history yet. The properties
about history hold while there is room, and the proofs use that a table that has room
now had room before. The refinement maps an update to `Record`, a booking to `Book`, a
refusal to a stutter. For `TrailsAgree` a change is named by its rank, the number of
changes up to it: an update adds a mark at the end of a trail, which leaves the ranks of
the others alone (`LastMark`, `EarlierMark`), or finds that trail full. For the tracking
ids, `FirstPosition` shows that there is a first match whenever there is one, because
strict inclusion of finite sets is well founded; updates change no id and bookings go to
the end, so the first match stays.

**Composition.** `KnownCaller` says that what `CallerOf` returns is a caller the store is
specified for; a step of the server is then a step of each half or leaves it alone, and
the theorems of both halves hold of the server. `CurrentStaffUpdates` combines what a
request leaves in the tables (`RequestLeaves`) with what the user table says of its
caller; `ReferencesStored` needs that accounts never disappear without a restart.

**Accounts.** `TableStep` lists what a step may do to the table: nothing, append one
account whose address is new, replace one account by a version with the same id, or
seed again; `StepEffect` proves it of every action. Ids therefore stay where they are
until a restart. A token that stands for its own id was resolved by id (no id is the
empty string), and finds that id again. `NewAddresses` also needs that the table never gets
shorter than the seed, because otherwise seeding could count as adding.

**HTTP server.** The types alone do not bound the reads. `ConnInv` records what each loop
has established: `total = header + got`, the size of the headers is that of the message, a
length that is understood is the one announced, and in the body loop, unless the number
wraps around, the buffer has room for the rest and the zero. That the sum of `server.c:453` is the real sum in
all other cases is arithmetic: headers fit the first buffer, which is smaller than any
`int`, so only the last few of the negative numbers wrap (`SumFits`), and larger sums are
refused memory. What a `recv` may read is at most what is left, because the cast only
makes it smaller (`AtMostIs`). `QueueInv` says that a client is
in at most one place; it is needed to see that closing one connection disturbs no other.
`Inv = TypeOK /\ ConnInv /\ QueueInv` is inductive, one lemma per action.

**Parser's heap.** Who owns what is a function, `Pointer`, from the places that hold a
pointer to block numbers; `Owned` says that every live block is taken exactly once. A step
changes it in one of three ways, with a lemma each: a new block gets its one owner
(`OwnerGained`), a pointer moves (`OwnerMoved`), or what lies below a pointer is deleted
(`OwnersLost`). A deletion takes along exactly what only the deleted items own
(`BelowHangsTogether`). Where the parser links an element or closes a container, nothing
hangs yet (`Shape`), so no pointer is overwritten; links lead to blocks allocated later,
so no ring of items keeps itself alive, and when the roots are gone nothing is left
(`NobodyOwns`). `MemoryInv = TypeOK /\ Ownership /\ Shape` is inductive.

**What the parser takes.** First, the recursive function inside `Ends` exists: built from
the end of the text backwards, because an element ends behind where it starts
(`ContainersForward`), so that `Ends` is what any function that satisfies the equations of
the grammar (`Grammar`) says. `TextInv` gives for every activation a place where its
container starts and a place where the rest of its list starts, such that the container
ends where a list from there is closed and nowhere else (`Level`), and each container is
the value that the list around it waits for (`Nested`). Every step but a failing
allocation either moves these places along the text or shows that there is no value
(`Malformed`). When the last activation is gone, the one place where the value ends is
the place the parser has reached.

**The tree is the text.** `TreeInv` says that there is a function that gives each item
where its entry and its value start, where the value ends, and which container it belongs
to, such that linked items adjoin in the text: behind an item that has a successor stand a
comma and the successor's entry (`Followed`), a container ends behind its last element
(`Inside`), starts before its first, and what stands at both ends is its brackets
(`Whole`). What is still open is described by `OpenSpan` (the list so far) and `Located`
(where the parser is). For a finished tree, what is printed of an item with all that
follows it in its list is then the piece of the text from its entry to the end of the
list (`Says`), shown from the item with the greatest number down, because links lead to
items allocated later (`EntrySays`, `AllSay`); pieces that adjoin make one piece
(`PiecesJoin`).

**Print buffer.** `BufferInv` adds to the property the types of the items and of what is
left to print, with the size of each piece against what the code reserves for it, and
that what is left to print never leads to a freed item. Each step that writes then leaves
the last byte of the buffer free.

**Answers are freed.** `FreedInv` says of the items that every list ends (`Ended`), that an
item hangs on one link at most (`Sole`), that roots hang on none, and that everything is
reached from the roots (`Reached`) unless a container could not be allocated, which the
code loses. A new item is appended behind the last one of a list, whose existence is a
least-number argument (`LastExists`). Deleting the one root then empties the heap.

**Answers say what was meant.** `Describes(items, t, f)` holds of a function `f` that gives,
for each item, what its list prints. While an answer is built there is such an `f` that
agrees with `meant`, root by root, and every call that changes the tree changes `f` as it
changes `meant` (`BuildingSays`, `Replaced`). While it is printed, what is written followed
by what the pieces left to print say is what was meant (`PrintingSays`). The provers do not
take the recursive functions `Quoted`, `Said` and `Weight` on trust: that they exist and are
unique is proved by a least-number argument (`JoinedExists`, `JoinedUnique`), and
concatenation is reasoned about as the flattening of a sequence of pieces (`Flat`).

**Hash stream.** `StreamInv` says that what was handed over (`Sent`) is what was compressed,
then what the buffer holds, then what is left of the call, and that the buffer index is the
number of bytes held. The bounds of every copy and the padded message follow from it.

**Base64.** `Sextet(d, g, r)` is the r-th group of six bits of the g-th three bytes. An encoder
has written the sextets up to its place (`Encodes` when it is done). The decoder has, after
each character, the bytes that are decided so far, and the last six bits of its
accumulator are the last sextet: bits that were shifted out of the word are never asked
for (`Narrowed`). `CodecInv` is these three, with the sizes.

**Tracking page.** `PodDone` looks the remembered shipment up again, so its types need that
there is one. `SignsSomething` says that while a signature is under way some shipment is
remembered; `PageInv = TypeOK /\ SignsSomething` is inductive. The steps fall into families
(`Navigates`, `Sends`, `ServedOrLost`, the three continuations), with one lemma each, which
all four theorems cite. `RecordedProofCloses` also needs `RecordedIsAccepted`: a call the
server has carried out was answered "accepted", so its handler either sees that or the
success of the mock.

**Session.** Every step is one of seven kinds (`StepCases`): a page begins to load or reads
the user, a handler takes over a session that is whole or garbled and stores its token, a
tab stores its user, a page writes its user back, the storage is cleared, or neither
storage nor memory changes. `FindsNobody` strengthens `LogOutEndsSession` to be inductive: a
page that began to load after the log-out and waits to read the user has read no token of
an account either. `TornOnlyByOthers` is about sessions that are `Settled`: while tabs are in
the middle of a sign-in, what counts is the user each of them is going to store
(`SettledParts`). There is one lemma per kind of step: the second half of a sign-in never
tears (`StoreUserSettles`), the first half and a clearing only overtake somebody
(`TakeOverTears`, `ClearTears`), writing back tears only under the token of another account
(`WriteBackTears`).

**Only model-checked.** `EveryoneIsDealtWith`, `ShutdownCompletes`, `Returns` and
`Answered`, because liveness under fairness and ENABLED are out of the prover's reach, and
the three properties that are found violated. Every invariant and every other property
that a passing run checks is proved.

## 5. What is not modelled

Of the JSON library, what strings and numbers contain (the decoding of escapes,
`strtod`, the digits that are printed) and the test against `INT_MAX` in `ensure`. Of
`crypto_utils.c`, the compression function of SHA-256, the key block of the HMAC,
hexadecimal and the password hash: fixed arithmetic and formatting without state. Of the
web client, forms and tables that display one answer, the list of own pictures, a full
`localStorage`, and `dashboard.js`, which does not parse. Rates and analytics answer one
request from its arguments or from the tables and change nothing: the rates are formulas
in floating point, which TLA+ has no numbers for, the analytics are counts that nothing
depends on. E-mail templates, static files, the PostgreSQL connection (opened under a
build option and never queried), SQL scripts, the Python test server and build files
have no behaviour the properties could be about. `PROJECT.json` gives the reason for
each.

## 6. What is left

1. The session of the web client composed with `Accounts`, so that a token that expired
   or was lost in a restart is answered as the server answers it.
2. `TrackingPage` with the session of `WebSession` in place of a constant user.
