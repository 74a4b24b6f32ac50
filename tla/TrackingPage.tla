------------------------------ MODULE TrackingPage ------------------------------
(***************************************************************************)
(* One browser page of the web client: routing by the address bar (app.js) *)
(* and tracking with proof of delivery (tracking.js).                      *)
(*                                                                         *)
(* Handlers run one at a time, but a handler that calls the server stops   *)
(* at its await and continues when the answer comes; answers come in any   *)
(* order.  A call is therefore three actions: the handler up to the await, *)
(* the server, the rest of the handler (LookupDone, PublicDone, PodDone).  *)
(* The event that follows a change of the address is also queued.          *)
(*                                                                         *)
(* The session does not change here.  The server is taken by its answers:  *)
(* any of those that some state of its tables explains.  "dashboard"       *)
(* stands for every view of the application except "tracking".             *)
(***************************************************************************)
EXTENDS CrmData

CONSTANTS
    Shipments,
    NoShipment,
    DefaultShipment,   \* the example the public page opens with
    Slots,             \* calls under way at a time
    MaxEvents,         \* hashchange events queued at a time
    Addresses,         \* addresses the user may open
    Users              \* who is signed in: callers, or NoCaller

VARIABLES
    user,          \* CRMGMT.state.currentUser
    page,          \* current view, address, queued hashchange events
    calls,         \* what is awaited
    current,       \* TrackingModule.currentShipment
    panel,         \* result box of the staff page: shipment, POD button, visible
    publicShown,   \* the shipment rendered on the public page
    dialog         \* the shipment whose button opened the POD dialog

tracking == <<current, panel, publicShown, dialog>>
vars     == <<user, page, calls, tracking>>

(***************************************************************************)
(* Addresses.  Blank is an address without a fragment; a link may carry    *)
(* the id of a shipment, "#public_track?id=...".                           *)
(***************************************************************************)
Views    == {"login", "dashboard", "tracking", "public_track"}
Link(v)  == [view |-> v, shipment |-> NoShipment]
Blank    == Link("")
Links    == [view : Views, shipment : Shipments \cup {NoShipment}] \cup {Blank}

ASSUME PageAssumption ==
    /\ NoShipment \notin Shipments
    /\ DefaultShipment \in Shipments
    /\ MaxEvents \in Nat \ {0}
    /\ Addresses \subseteq Links
    /\ Users \subseteq [id : STRING, role : Roles, known : BOOLEAN]

\* hash.replace('#', '') || 'login'
HashView(hash) == IF hash = Blank THEN "login" ELSE hash.view

Found    == {"out", "waiting", "signed"}   \* out for delivery, any other status, has a POD
Answers  == Found \cup {"unknown", "accepted", "refused", "none"}

NewCall(kind, s) ==
    [kind |-> kind, shipment |-> s, state |-> "sent", answer |-> "none", done |-> FALSE]
Idle == NewCall("none", NoShipment)

Call == [kind : {"lookup", "public", "pod"}, shipment : Shipments,
         state : {"sent", "answered", "lost"}, answer : Answers, done : BOOLEAN]

TypeOK ==
    /\ user \in Users
    /\ page \in [view : Views, hash : Links, events : 0 .. MaxEvents]
    /\ calls \in [Slots -> Call \cup {Idle}]
    /\ current \in Shipments \cup {NoShipment}
    /\ panel \in [shipment : Shipments \cup {NoShipment}, button : BOOLEAN, open : BOOLEAN]
    /\ publicShown \in Shipments \cup {NoShipment}
    /\ dialog \in Shipments \cup {NoShipment}

Send(k, kind, s) ==
    /\ calls[k] = Idle
    /\ calls' = [calls EXCEPT ![k] = NewCall(kind, s)]

(***************************************************************************)
(* navigate(view, { trackingId: s }), with `pending` events in the queue.  *)
(* The public page leaves the address alone.                               *)
(***************************************************************************)
ShowPublic(k, pending, s) ==
    /\ page' = [page EXCEPT !.view = "public_track", !.events = pending]
    /\ Send(k, "public", IF s = NoShipment THEN DefaultShipment ELSE s)

ShowView(k, pending, v, s) ==
    /\ page' = [view |-> v, hash |-> Link(v),
                events |-> IF page.hash = Link(v) THEN pending ELSE pending + 1]
    /\ page'.events <= MaxEvents
    /\ IF v = "tracking" /\ s # NoShipment
       THEN Send(k, "lookup", s)
       ELSE UNCHANGED calls

\* The address is set only when no shipment is to be looked up.
FaultyNavigate(k, pending, v, s) ==
    IF s = NoShipment /\ v # "public_track"
    THEN ShowView(k, pending, v, s)
    ELSE /\ page' = [page EXCEPT !.view = v, !.events = pending]
         /\ Send(k, "lookup", IF s = NoShipment THEN DefaultShipment ELSE s)

Navigate(k, pending, v, s) ==
    IF v = "public_track" THEN ShowPublic(k, pending, s) ELSE ShowView(k, pending, v, s)

(***************************************************************************)
(* Loading the page.  Any address that starts with "track" or              *)
(* "public_track" opens the public page, "#tracking" too.                  *)
(***************************************************************************)
OpensPublic(hash) == hash.view \in {"tracking", "public_track"}

FirstPage(hash, u) ==
    LET home == IF u.known THEN "dashboard" ELSE "login"
    IN  IF OpensPublic(hash)
        THEN [view |-> "public_track", hash |-> hash, events |-> 0]
        ELSE [view |-> home, hash |-> Link(home),
              events |-> IF hash = Link(home) THEN 0 ELSE 1]

FirstCalls(k, hash) ==
    [j \in Slots |->
        IF j = k /\ OpensPublic(hash)
        THEN NewCall("public", IF hash.shipment = NoShipment
                               THEN DefaultShipment ELSE hash.shipment)
        ELSE Idle]

EmptyPanel == [shipment |-> NoShipment, button |-> FALSE, open |-> FALSE]

Init ==
    \E u \in Users, k \in Slots, hash \in Addresses :
        /\ user = u
        /\ page = FirstPage(hash, u)
        /\ calls = FirstCalls(k, hash)
        /\ current = NoShipment /\ publicShown = NoShipment /\ dialog = NoShipment
        /\ panel = EmptyPanel

\* What was awaited is forgotten; the server may or may not have handled it.
Reload(k) ==
    /\ page' = FirstPage(page.hash, user)
    /\ calls' = FirstCalls(k, page.hash)
    /\ current' = NoShipment /\ publicShown' = NoShipment /\ dialog' = NoShipment
    /\ panel' = EmptyPanel
    /\ user' = user

(***************************************************************************)
(* The user.  While the POD dialog is open it covers the page.             *)
(***************************************************************************)
Uncovered(views) == dialog = NoShipment /\ page.view \in views

\* The address bar, the back button, a link in an e-mail.
EditUrl(hash) ==
    /\ hash # page.hash /\ page.events < MaxEvents
    /\ page' = [page EXCEPT !.hash = hash, !.events = @ + 1]
    /\ UNCHANGED <<user, calls, tracking>>

HashChange(k) ==
    /\ page.events > 0
    /\ Navigate(k, page.events - 1, HashView(page.hash), page.hash.shipment)
    /\ UNCHANGED <<user, tracking>>

\* The sidebar, and "Sign In" on the public page.
Click(k, v) ==
    /\ \/ v \in {"dashboard", "tracking"} /\ Uncovered({"dashboard", "tracking"})
       \/ v = "login" /\ Uncovered({"public_track"})
    /\ Navigate(k, page.events, v, NoShipment)
    /\ UNCHANGED <<user, tracking>>

\* The search box of the header, the lists of shipments.
Track(k, s) ==
    /\ Uncovered({"dashboard", "tracking"})
    /\ Navigate(k, page.events, "tracking", s)
    /\ UNCHANGED <<user, tracking>>

\* lookup and lookupPublic, as far as the call.
Lookup(k, s) ==
    /\ Uncovered({"tracking"})
    /\ Send(k, "lookup", s)
    /\ UNCHANGED <<user, page, tracking>>

LookupPublic(k, s) ==
    /\ Uncovered({"public_track"})
    /\ Send(k, "public", s)
    /\ UNCHANGED <<user, page, tracking>>

\* The button was rendered with the id of its shipment and passes it on.
OpenPodModal ==
    /\ Uncovered({"tracking"}) /\ panel.open /\ panel.button
    /\ dialog' = panel.shipment
    /\ UNCHANGED <<user, page, calls, current, panel, publicShown>>

ClosePodModal ==
    /\ dialog # NoShipment
    /\ dialog' = NoShipment
    /\ UNCHANGED <<user, page, calls, current, panel, publicShown>>

\* Nothing disables the button: it may be pressed again before the answer.
SubmitPOD(k) ==
    /\ dialog # NoShipment /\ current # NoShipment
    /\ Send(k, "pod", current)
    /\ UNCHANGED <<user, page, tracking>>

(***************************************************************************)
(* The server and the network.                                             *)
(***************************************************************************)
Explained(call) ==
    CASE call.kind = "pod" ->
           {"refused"} \cup (IF HasPermission(user, DELIVERY_AGENT) THEN {"accepted"} ELSE {})
      [] call.kind = "lookup" -> Found \cup {"unknown"}
      [] OTHER -> {"waiting", "unknown"}   \* the public page has no button

Serve(k, answer) ==
    /\ calls[k] # Idle /\ calls[k].state = "sent"
    /\ answer \in Explained(calls[k])
    /\ calls' = [calls EXCEPT ![k].state = "answered", ![k].answer = answer,
                              ![k].done = (answer = "accepted")]
    /\ UNCHANGED <<user, page, tracking>>

\* The connection fails, before or after the server has done its work.
Lose(k) ==
    /\ calls[k] # Idle /\ calls[k].state # "lost"
    /\ calls' = [calls EXCEPT ![k].state = "lost"]
    /\ UNCHANGED <<user, page, tracking>>

(***************************************************************************)
(* After the await.  A failed fetch is answered by mockApiFallback, which  *)
(* reports success and has no shipment.                                    *)
(***************************************************************************)
\* A failed fetch is reported as a failure.
FaultyReceived(call) == IF call.state = "lost" THEN "refused" ELSE call.answer

Received(call) == IF call.state = "lost" THEN "mock" ELSE call.answer

Continues(k, kind) == calls[k].kind = kind /\ calls[k].state # "sent"

Finish(k) == calls' = [calls EXCEPT ![k] = Idle]

PodButton(answer) ==
    /\ answer # "signed"
    /\ \/ answer = "out"
       \/ user.known /\ user.role \in {DELIVERY_AGENT, SUPER_ADMIN}

\* The shipment is remembered before the answer is looked at.
FaultyLookupDone(k) ==
    LET answer == Received(calls[k])
    IN  /\ Continues(k, "lookup")
        /\ current' = calls[k].shipment
        /\ panel' = IF answer \in Found
                    THEN [shipment |-> calls[k].shipment,
                          button |-> PodButton(answer), open |-> TRUE]
                    ELSE [panel EXCEPT !.open = FALSE]
        /\ Finish(k)
        /\ UNCHANGED <<user, page, publicShown, dialog>>

LookupDone(k) ==
    LET answer == Received(calls[k])
    IN  /\ Continues(k, "lookup")
        /\ IF answer \in Found
           THEN /\ current' = calls[k].shipment
                /\ panel' = [shipment |-> calls[k].shipment,
                             button |-> PodButton(answer), open |-> TRUE]
           ELSE /\ panel' = [panel EXCEPT !.open = FALSE]
                /\ current' = current
        /\ Finish(k)
        /\ UNCHANGED <<user, page, publicShown, dialog>>

PublicDone(k) ==
    /\ Continues(k, "public")
    /\ IF Received(calls[k]) \in Found
       THEN current' = calls[k].shipment /\ publicShown' = calls[k].shipment
       ELSE UNCHANGED <<current, publicShown>>
    /\ Finish(k)
    /\ UNCHANGED <<user, page, panel, dialog>>

\* On success the dialog closes and the shipment is looked up again.
PodDone(k) ==
    /\ Continues(k, "pod")
    /\ IF Received(calls[k]) \in {"accepted", "mock"}
       THEN /\ dialog' = NoShipment
            /\ calls' = [calls EXCEPT ![k] = NewCall("lookup", current)]
       ELSE dialog' = dialog /\ Finish(k)
    /\ UNCHANGED <<user, page, current, panel, publicShown>>

Next ==
    \/ \E k \in Slots :
          \/ Reload(k)
          \/ HashChange(k)
          \/ \E v \in Views : Click(k, v)
          \/ \E s \in Shipments : Track(k, s) \/ Lookup(k, s) \/ LookupPublic(k, s)
          \/ SubmitPOD(k)
          \/ \E answer \in Answers : Serve(k, answer)
          \/ Lose(k)
          \/ LookupDone(k) \/ PublicDone(k) \/ PodDone(k)
    \/ \E hash \in Addresses : EditUrl(hash)
    \/ OpenPodModal \/ ClosePodModal

Spec == Init /\ [][Next]_vars

(***************************************************************************)
(* Properties.                                                             *)
(***************************************************************************)

\* When no event is queued, the view is the one the address names, or the
\* public page, which does not change the address: however clicks, the back
\* button and the events they cause interleave, navigation settles.
QuietPageShowsAddress ==
    page.events = 0 => page.view \in {HashView(page.hash), "public_track"}

\* The remembered shipment, which the dialog, the e-mail and the share forms
\* fall back on, is the last one rendered on the staff or on the public page,
\* however answers to the two lookups are ordered, lost or refused.
CurrentIsOnAPage ==
    current # NoShipment => current \in {panel.shipment, publicShown}

\* A proof of delivery that the server recorded never leaves its dialog open
\* for another try, whatever becomes of the answer.
RecordedProofClosesDialog ==
    [][\A k \in Slots :
          calls[k].kind = "pod" /\ calls[k].done /\ calls'[k].kind # "pod"
              => dialog' = NoShipment]_vars

\* The dialog signs the shipment whose button opened it: the button passes
\* the shipment's id to openPodModal.
DialogSignsItsShipment == dialog # NoShipment => current = dialog
===============================================================================
