------------------------------ MODULE ClientProofs ------------------------------
(***************************************************************************)
(* Proofs about the tracking page, for any number of shipments, calls      *)
(* under way, queued events and users.                                     *)
(*                                                                         *)
(* The steps fall into families: a load, a navigation, a change of the     *)
(* calls alone, the rest of a handler, a change of the dialog.  A lemma    *)
(* says what the steps of a family leave, and each theorem cites it.       *)
(***************************************************************************)
EXTENDS TrackingPage, WebSession, TLAPS

(***************************************************************************)
(* Addresses and calls.                                                    *)
(***************************************************************************)
LEMMA LinkTypes ==
    /\ \A v \in Views : Link(v) \in Links /\ Link(v) # Blank /\ HashView(Link(v)) = v
    /\ \A hash \in Links : HashView(hash) \in Views
    /\ \A hash \in Links : hash.shipment \in Shipments \cup {NoShipment}
<1>1. ASSUME NEW v \in Views
      PROVE  Link(v) \in Links /\ Link(v) # Blank /\ HashView(Link(v)) = v
  <2>1. Link(v).view = v /\ Blank.view = "" /\ v # ""
    BY DEF Link, Blank, Views
  <2>2. Link(v) # Blank
    BY <2>1
  <2>3. Link(v) \in Links
    BY DEF Link, Links
  <2> QED
    BY <2>1, <2>2, <2>3 DEF HashView
<1>2. ASSUME NEW hash \in Links
      PROVE  /\ HashView(hash) \in Views
             /\ hash.shipment \in Shipments \cup {NoShipment}
  <2>1. CASE hash = Blank
    <3>1. HashView(hash) = "login" /\ hash.shipment = NoShipment
      BY <2>1 DEF HashView, Blank, Link
    <3> QED
      BY <3>1 DEF Views
  <2>2. CASE hash # Blank
    BY <2>2 DEF HashView, Links
  <2> QED
    BY <2>1, <2>2
<1> QED
  BY <1>1, <1>2

\* A new call is a call of its kind that no server has handled.
LEMMA NewCallType ==
    ASSUME NEW kind \in {"lookup", "public", "pod"}, NEW s \in Shipments
    PROVE  /\ NewCall(kind, s) \in Call
           /\ NewCall(kind, s).kind = kind
           /\ NewCall(kind, s) # Idle
BY DEF NewCall, Call, Answers, Found, Idle

LEMMA IdleFacts == Idle.kind = "none" /\ Idle \notin Call
BY DEF Idle, NewCall, Call

\* What sending a call from an idle slot does.
LEMMA SendFacts ==
    ASSUME TypeOK, NEW k \in Slots, NEW kind \in {"lookup", "public", "pod"},
           NEW s \in Shipments, Send(k, kind, s)
    PROVE  /\ calls' \in [Slots -> Call \cup {Idle}]
           /\ \A j \in Slots : calls[j].kind = "pod" => calls'[j] = calls[j]
           /\ \A j \in Slots : calls'[j].kind = "pod" => calls[j].kind = "pod" \/ kind = "pod"
<1>1. NewCall(kind, s) \in Call /\ NewCall(kind, s).kind = kind
  BY NewCallType
<1>2. calls[k].kind = "none"
  BY IdleFacts DEF Send
<1> QED
  BY <1>1, <1>2 DEF Send, TypeOK

(***************************************************************************)
(* Navigating keeps the types, touches no proof of delivery under way, and *)
(* leaves the view at the address or on the public page.                   *)
(***************************************************************************)
LEMMA NavigateFacts ==
    ASSUME TypeOK, NEW k \in Slots, NEW pending \in 0 .. MaxEvents,
           NEW v \in Views, NEW s \in Shipments \cup {NoShipment},
           Navigate(k, pending, v, s)
    PROVE  /\ page' \in [view : Views, hash : Links, events : 0 .. MaxEvents]
           /\ calls' \in [Slots -> Call \cup {Idle}]
           /\ \A j \in Slots : calls[j].kind = "pod" => calls'[j] = calls[j]
           /\ \A j \in Slots : calls'[j].kind = "pod" => calls[j].kind = "pod"
           /\ page'.view \in {HashView(page'.hash), "public_track"}
<1> USE PageAssumption
<1>1. CASE v = "public_track"
  <2>1. ShowPublic(k, pending, s)
    BY <1>1 DEF Navigate
  <2>2. PICK t \in Shipments : Send(k, "public", t)
    BY <2>1 DEF ShowPublic
  <2>3. page' = [page EXCEPT !.view = "public_track", !.events = pending]
    BY <2>1 DEF ShowPublic
  <2>4. /\ page' \in [view : Views, hash : Links, events : 0 .. MaxEvents]
        /\ page'.view = "public_track"
    BY <2>3 DEF TypeOK, Views
  <2> QED
    BY <2>2, <2>4, SendFacts
<1>2. CASE v # "public_track"
  <2>1. ShowView(k, pending, v, s)
    BY <1>2 DEF Navigate
  <2>2. /\ page'.view = v /\ page'.hash = Link(v)
        /\ page' \in [view : Views, hash : Links, events : 0 .. MaxEvents]
    BY <2>1, LinkTypes DEF ShowView
  <2>3. HashView(page'.hash) = v
    BY <2>2, LinkTypes
  <2>4. CASE v = "tracking" /\ s # NoShipment
    <3>1. Send(k, "lookup", s)
      BY <2>1, <2>4 DEF ShowView
    <3> QED
      BY <3>1, <2>2, <2>3, <2>4, SendFacts
  <2>5. CASE ~(v = "tracking" /\ s # NoShipment)
    <3>1. UNCHANGED calls
      BY <2>1, <2>5 DEF ShowView
    <3> QED
      BY <3>1, <2>2, <2>3 DEF TypeOK
  <2> QED
    BY <2>4, <2>5
<1> QED
  BY <1>1, <1>2

(***************************************************************************)
(* Loading a page.                                                         *)
(***************************************************************************)
LEMMA LoadFacts ==
    ASSUME NEW u \in Users, NEW k \in Slots, NEW hash \in Links
    PROVE  /\ FirstPage(hash, u) \in [view : Views, hash : Links, events : 0 .. MaxEvents]
           /\ FirstPage(hash, u).events = 0 =>
                 FirstPage(hash, u).view \in {HashView(FirstPage(hash, u).hash), "public_track"}
           /\ FirstCalls(k, hash) \in [Slots -> Call \cup {Idle}]
           /\ EmptyPanel \in [shipment : Shipments \cup {NoShipment},
                              button : BOOLEAN, open : BOOLEAN]
<1> USE PageAssumption
<1> DEFINE home == IF u.known THEN "dashboard" ELSE "login"
           first == IF hash.shipment = NoShipment THEN DefaultShipment ELSE hash.shipment
<1>1. home \in Views /\ Link(home) \in Links /\ HashView(Link(home)) = home
  BY LinkTypes DEF Views
<1>2. first \in Shipments
  BY LinkTypes
<1>3. NewCall("public", first) \in Call
  BY <1>2, NewCallType
<1>4. FirstCalls(k, hash) \in [Slots -> Call \cup {Idle}]
  BY <1>3 DEF FirstCalls
<1>5. EmptyPanel \in [shipment : Shipments \cup {NoShipment}, button : BOOLEAN, open : BOOLEAN]
  BY DEF EmptyPanel
<1>6. CASE OpensPublic(hash)
  <2>1. FirstPage(hash, u) = [view |-> "public_track", hash |-> hash, events |-> 0]
    BY <1>6 DEF FirstPage
  <2> QED
    BY <2>1, <1>4, <1>5 DEF Views
<1>7. CASE ~OpensPublic(hash)
  <2> DEFINE n == IF hash = Link(home) THEN 0 ELSE 1
  <2>1. FirstPage(hash, u) = [view |-> home, hash |-> Link(home), events |-> n]
    BY <1>7 DEF FirstPage
  <2>2. n \in 0 .. MaxEvents
    OBVIOUS
  <2> HIDE DEF home, n
  <2> QED
    BY <2>1, <2>2, <1>1, <1>4, <1>5
<1> QED
  BY <1>6, <1>7

(***************************************************************************)
(* The steps that navigate: they change the page and the calls.            *)
(***************************************************************************)
Navigates(k) ==
    HashChange(k) \/ (\E v \in Views : Click(k, v)) \/ (\E s \in Shipments : Track(k, s))

LEMMA NavigationFacts ==
    ASSUME TypeOK, NEW k \in Slots, Navigates(k)
    PROVE  /\ page' \in [view : Views, hash : Links, events : 0 .. MaxEvents]
           /\ calls' \in [Slots -> Call \cup {Idle}]
           /\ \A j \in Slots : calls[j].kind = "pod" => calls'[j] = calls[j]
           /\ \A j \in Slots : calls'[j].kind = "pod" => calls[j].kind = "pod"
           /\ page'.view \in {HashView(page'.hash), "public_track"}
           /\ UNCHANGED <<user, tracking>>
<1> USE PageAssumption
<1>1. page.events \in 0 .. MaxEvents /\ "tracking" \in Views
  BY DEF TypeOK, Views
<1>2. CASE HashChange(k)
  <2>1. /\ page.events - 1 \in 0 .. MaxEvents
        /\ HashView(page.hash) \in Views
        /\ page.hash.shipment \in Shipments \cup {NoShipment}
    BY <1>2, LinkTypes DEF HashChange, TypeOK
  <2>2. Navigate(k, page.events - 1, HashView(page.hash), page.hash.shipment)
    BY <1>2 DEF HashChange
  <2>3. UNCHANGED <<user, tracking>>
    BY <1>2 DEF HashChange
  <2> QED
    BY <2>1, <2>2, <2>3, NavigateFacts
<1>3. CASE \E v \in Views : Click(k, v)
  <2>1. PICK v \in Views : Click(k, v)
    BY <1>3
  <2>2. Navigate(k, page.events, v, NoShipment) /\ UNCHANGED <<user, tracking>>
    BY <2>1 DEF Click
  <2> QED
    BY <2>2, <1>1, NavigateFacts
<1>4. CASE \E s \in Shipments : Track(k, s)
  <2>1. PICK s \in Shipments : Track(k, s)
    BY <1>4
  <2>2. Navigate(k, page.events, "tracking", s) /\ UNCHANGED <<user, tracking>>
    BY <2>1 DEF Track
  <2> QED
    BY <2>2, <1>1, NavigateFacts
<1> QED
  BY <1>2, <1>3, <1>4 DEF Navigates

(***************************************************************************)
(* The steps that change the calls alone.                                  *)
(***************************************************************************)
Sends(k) == (\E s \in Shipments : Lookup(k, s) \/ LookupPublic(k, s)) \/ SubmitPOD(k)

LEMMA SendingFacts ==
    ASSUME TypeOK, NEW k \in Slots, Sends(k)
    PROVE  /\ calls' \in [Slots -> Call \cup {Idle}]
           /\ \A j \in Slots : calls[j].kind = "pod" => calls'[j] = calls[j]
           /\ \A j \in Slots : calls'[j].kind = "pod" =>
                 calls[j].kind = "pod" \/ current # NoShipment
           /\ UNCHANGED <<user, page, tracking>>
<1>1. CASE \E s \in Shipments : Lookup(k, s) \/ LookupPublic(k, s)
  <2>1. PICK s \in Shipments, kind \in {"lookup", "public"} :
            Send(k, kind, s) /\ UNCHANGED <<user, page, tracking>>
    BY <1>1 DEF Lookup, LookupPublic
  <2> QED
    BY <2>1, SendFacts
<1>2. CASE SubmitPOD(k)
  <2>1. current \in Shipments /\ Send(k, "pod", current) /\ UNCHANGED <<user, page, tracking>>
    BY <1>2 DEF SubmitPOD, TypeOK
  <2>2. current # NoShipment
    BY <1>2 DEF SubmitPOD
  <2> QED
    BY <2>1, <2>2, SendFacts
<1> QED
  BY <1>1, <1>2 DEF Sends

ServedOrLost(k) == (\E answer \in Answers : Serve(k, answer)) \/ Lose(k)

LEMMA ServerFacts ==
    ASSUME TypeOK, NEW k \in Slots, ServedOrLost(k)
    PROVE  /\ calls' \in [Slots -> Call \cup {Idle}]
           /\ \A j \in Slots : calls'[j].kind = calls[j].kind
           /\ UNCHANGED <<user, page, tracking>>
<1>1. calls[k] \in Call
  BY DEF ServedOrLost, Serve, Lose, TypeOK
<1>2. CASE \E answer \in Answers : Serve(k, answer)
  <2>1. PICK answer \in Answers : Serve(k, answer)
    BY <1>2
  <2> DEFINE served == [calls[k] EXCEPT !.state = "answered", !.answer = answer,
                                        !.done = (answer = "accepted")]
  <2>2. served \in Call /\ served.kind = calls[k].kind
    BY <1>1 DEF Call
  <2>3. calls' = [calls EXCEPT ![k] = served] /\ UNCHANGED <<user, page, tracking>>
    BY <2>1 DEF Serve, TypeOK
  <2> HIDE DEF served
  <2> QED
    BY <2>2, <2>3 DEF TypeOK
<1>3. CASE Lose(k)
  <2>1. /\ [calls[k] EXCEPT !.state = "lost"] \in Call
        /\ [calls[k] EXCEPT !.state = "lost"].kind = calls[k].kind
    BY <1>1 DEF Call
  <2> QED
    BY <1>3, <2>1 DEF Lose, TypeOK
<1> QED
  BY <1>2, <1>3 DEF ServedOrLost

(***************************************************************************)
(* The rest of a handler whose call was answered.                          *)
(***************************************************************************)
LEMMA LookupDoneFacts ==
    ASSUME TypeOK, NEW k \in Slots, LookupDone(k)
    PROVE  /\ calls' = [calls EXCEPT ![k] = Idle] /\ calls[k].kind = "lookup"
           /\ UNCHANGED <<user, page, publicShown, dialog>>
           /\ panel' \in [shipment : Shipments \cup {NoShipment},
                          button : BOOLEAN, open : BOOLEAN]
           /\ \/ current' \in Shipments /\ panel'.shipment = current'
              \/ current' = current /\ panel'.shipment = panel.shipment
<1>1. calls[k].shipment \in Shipments
  BY IdleFacts DEF LookupDone, Continues, TypeOK, Call
<1>2. PICK b \in BOOLEAN : b = PodButton(Received(calls[k]))
  BY DEF PodButton
<1>3. \/ /\ current' = calls[k].shipment
         /\ panel' = [shipment |-> calls[k].shipment, button |-> b, open |-> TRUE]
      \/ panel' = [panel EXCEPT !.open = FALSE] /\ current' = current
  BY <1>2 DEF LookupDone
<1>4. /\ calls' = [calls EXCEPT ![k] = Idle] /\ calls[k].kind = "lookup"
      /\ UNCHANGED <<user, page, publicShown, dialog>>
  BY DEF LookupDone, Finish, Continues
<1>5. CASE /\ current' = calls[k].shipment
           /\ panel' = [shipment |-> calls[k].shipment, button |-> b, open |-> TRUE]
  BY <1>1, <1>4, <1>5
<1>6. CASE panel' = [panel EXCEPT !.open = FALSE] /\ current' = current
  BY <1>4, <1>6 DEF TypeOK
<1> QED
  BY <1>3, <1>5, <1>6

LEMMA PublicDoneFacts ==
    ASSUME TypeOK, NEW k \in Slots, PublicDone(k)
    PROVE  /\ calls' = [calls EXCEPT ![k] = Idle] /\ calls[k].kind = "public"
           /\ UNCHANGED <<user, page, panel, dialog>>
           /\ \/ current' \in Shipments /\ publicShown' = current'
              \/ UNCHANGED <<current, publicShown>>
<1>1. calls[k].shipment \in Shipments
  BY IdleFacts DEF PublicDone, Continues, TypeOK, Call
<1> QED
  BY <1>1 DEF PublicDone, Finish, Continues

(***************************************************************************)
(* The invariant.  A signature is sent only once some shipment has been    *)
(* rendered, and only a reload forgets that shipment, with the call: so    *)
(* the lookup that follows a recorded proof of delivery has a shipment.    *)
(***************************************************************************)
SignsSomething == \A k \in Slots : calls[k].kind = "pod" => current # NoShipment

PageInv == TypeOK /\ SignsSomething

\* The steps of Next, family by family.
LEMMA NextFamilies ==
    ASSUME Next
    PROVE  \/ \E k \in Slots :
                 \/ Reload(k) \/ Navigates(k) \/ Sends(k) \/ ServedOrLost(k)
                 \/ LookupDone(k) \/ PublicDone(k) \/ PodDone(k)
           \/ \E hash \in Addresses : EditUrl(hash)
           \/ OpenPodModal \/ ClosePodModal
BY DEF Next, Navigates, Sends, ServedOrLost

LEMMA PodDoneFacts ==
    ASSUME PageInv, NEW k \in Slots, PodDone(k)
    PROVE  /\ calls' \in [Slots -> Call \cup {Idle}]
           /\ \A j \in Slots : calls'[j].kind = "pod" => calls[j].kind = "pod"
           /\ \A j \in Slots \ {k} : calls'[j] = calls[j]
           /\ UNCHANGED <<user, page, current, panel, publicShown>>
           /\ dialog' \in {dialog, NoShipment}
           /\ Received(calls[k]) \in {"accepted", "mock"} => dialog' = NoShipment
<1>1. current \in Shipments
  BY DEF PageInv, TypeOK, SignsSomething, PodDone, Continues
<1>2. NewCall("lookup", current) \in Call /\ NewCall("lookup", current).kind = "lookup"
  BY <1>1, NewCallType
<1>3. \/ calls' = [calls EXCEPT ![k] = NewCall("lookup", current)] /\ dialog' = NoShipment
      \/ /\ calls' = [calls EXCEPT ![k] = Idle] /\ dialog' = dialog
         /\ Received(calls[k]) \notin {"accepted", "mock"}
  BY DEF PodDone, Finish
<1>4. UNCHANGED <<user, page, current, panel, publicShown>>
  BY DEF PodDone
<1> QED
  BY <1>2, <1>3, <1>4, IdleFacts DEF PageInv, TypeOK

\* A load leaves no signature under way.
LEMMA ReloadFacts ==
    ASSUME TypeOK, NEW k \in Slots, Reload(k)
    PROVE  TypeOK' /\ \A j \in Slots : calls'[j].kind # "pod"
<1>1. TypeOK'
  BY LoadFacts DEF Reload, TypeOK
<1>2. \A j \in Slots : FirstCalls(k, page.hash)[j].kind # "pod"
  BY DEF FirstCalls, NewCall, Idle
<1> QED
  BY <1>1, <1>2 DEF Reload

LEMMA PageInvInductive == PageInv /\ [Next]_vars => PageInv'
<1> USE PageAssumption
<1> SUFFICES ASSUME PageInv, [Next]_vars PROVE PageInv'
  OBVIOUS
<1>t. TypeOK /\ SignsSomething
  BY DEF PageInv
<1>1. ASSUME NEW k \in Slots, Reload(k) PROVE PageInv'
  BY <1>1, <1>t, ReloadFacts DEF PageInv, SignsSomething
<1>2. ASSUME NEW k \in Slots, Navigates(k) PROVE PageInv'
  BY <1>2, <1>t, NavigationFacts DEF PageInv, SignsSomething, TypeOK, tracking
<1>3. ASSUME NEW k \in Slots, Sends(k) PROVE PageInv'
  BY <1>3, <1>t, SendingFacts DEF PageInv, SignsSomething, TypeOK, tracking
<1>4. ASSUME NEW k \in Slots, ServedOrLost(k) PROVE PageInv'
  BY <1>4, <1>t, ServerFacts DEF PageInv, SignsSomething, TypeOK, tracking
<1>5. ASSUME NEW k \in Slots, LookupDone(k) PROVE PageInv'
  <2>1. TypeOK'
    BY <1>5, <1>t, LookupDoneFacts DEF TypeOK
  <2>2. SignsSomething'
    BY <1>5, <1>t, LookupDoneFacts, IdleFacts DEF SignsSomething, TypeOK
  <2> QED
    BY <2>1, <2>2 DEF PageInv
<1>6. ASSUME NEW k \in Slots, PublicDone(k) PROVE PageInv'
  <2>1. TypeOK'
    BY <1>6, <1>t, PublicDoneFacts DEF TypeOK
  <2>2. SignsSomething'
    BY <1>6, <1>t, PublicDoneFacts, IdleFacts DEF SignsSomething, TypeOK
  <2> QED
    BY <2>1, <2>2 DEF PageInv
<1>7. ASSUME NEW k \in Slots, PodDone(k) PROVE PageInv'
  BY <1>7, <1>t, PodDoneFacts DEF PageInv, SignsSomething, TypeOK
<1>8. ASSUME NEW hash \in Addresses, EditUrl(hash) PROVE PageInv'
  <2>1. page.events + 1 \in 0 .. MaxEvents /\ hash \in Links
    BY <1>8, <1>t DEF EditUrl, TypeOK
  <2>2. page' \in [view : Views, hash : Links, events : 0 .. MaxEvents]
    BY <1>8, <1>t, <2>1 DEF EditUrl, TypeOK
  <2> QED
    BY <1>8, <1>t, <2>2 DEF EditUrl, PageInv, SignsSomething, TypeOK, tracking
<1>9. ASSUME OpenPodModal \/ ClosePodModal PROVE PageInv'
  BY <1>9, <1>t DEF OpenPodModal, ClosePodModal, PageInv, SignsSomething, TypeOK
<1>10. CASE UNCHANGED vars
  BY <1>10, <1>t DEF vars, tracking, PageInv, SignsSomething, TypeOK
<1> QED
  BY <1>1, <1>2, <1>3, <1>4, <1>5, <1>6, <1>7, <1>8, <1>9, <1>10, NextFamilies

LEMMA InitialPage == Init => PageInv /\ QuietPageShowsAddress /\ CurrentIsOnAPage
<1> USE PageAssumption
<1> SUFFICES ASSUME Init PROVE PageInv /\ QuietPageShowsAddress /\ CurrentIsOnAPage
  OBVIOUS
<1>1. PICK u \in Users, k \in Slots, hash \in Addresses :
          /\ user = u
          /\ page = FirstPage(hash, u) /\ calls = FirstCalls(k, hash)
          /\ current = NoShipment /\ publicShown = NoShipment /\ dialog = NoShipment
          /\ panel = EmptyPanel
  BY DEF Init
<1>2. hash \in Links
  OBVIOUS
<1>3. TypeOK
  BY <1>1, <1>2, LoadFacts DEF TypeOK
<1>4. SignsSomething
  BY <1>1 DEF SignsSomething, FirstCalls, NewCall, Idle
<1>5. QuietPageShowsAddress
  BY <1>1, <1>2, LoadFacts DEF QuietPageShowsAddress
<1>6. CurrentIsOnAPage
  BY <1>1 DEF CurrentIsOnAPage
<1> QED
  BY <1>3, <1>4, <1>5, <1>6 DEF PageInv

LEMMA PageInvAlways == Spec => []PageInv
<1>1. Init => PageInv
  BY InitialPage
<1> QED
  BY <1>1, PageInvInductive, PTL DEF Spec

\* The page keeps its types: no call without a shipment, no more events queued
\* than there is room for, no view that does not exist.
THEOREM PageTypes == Spec => []TypeOK
<1>1. PageInv => TypeOK
  BY DEF PageInv
<1> QED
  BY <1>1, PageInvAlways, PTL

\* With no event queued, the view is the address's or the public page: a
\* navigation leaves them so, and a change of the address queues an event.
THEOREM NavigationSettles == Spec => []QuietPageShowsAddress
<1>1. Init => QuietPageShowsAddress
  BY InitialPage
<1>2. PageInv /\ QuietPageShowsAddress /\ [Next]_vars => QuietPageShowsAddress'
  <2> USE PageAssumption
  <2> SUFFICES ASSUME PageInv, QuietPageShowsAddress, [Next]_vars
               PROVE  QuietPageShowsAddress'
    OBVIOUS
  <2>t. TypeOK
    BY DEF PageInv
  <2>1. ASSUME NEW k \in Slots, Reload(k) PROVE QuietPageShowsAddress'
    <3>1. page' = FirstPage(page.hash, user) /\ user \in Users /\ page.hash \in Links
      BY <2>1, <2>t DEF Reload, TypeOK
    <3> QED
      BY <2>1, <3>1, LoadFacts DEF QuietPageShowsAddress
  <2>2. ASSUME NEW k \in Slots, Navigates(k) PROVE QuietPageShowsAddress'
    BY <2>2, <2>t, NavigationFacts DEF QuietPageShowsAddress
  <2>3. ASSUME UNCHANGED page PROVE QuietPageShowsAddress'
    BY <2>3 DEF QuietPageShowsAddress
  <2>4. ASSUME NEW k \in Slots,
               \/ Sends(k) \/ ServedOrLost(k)
               \/ LookupDone(k) \/ PublicDone(k) \/ PodDone(k)
        PROVE  UNCHANGED page
    BY <2>4, <2>t, SendingFacts, ServerFacts DEF LookupDone, PublicDone, PodDone
  <2>5. ASSUME NEW hash \in Addresses, EditUrl(hash) PROVE QuietPageShowsAddress'
    <3>1. page'.events = page.events + 1 /\ page.events \in Nat
      BY <2>5, <2>t DEF EditUrl, TypeOK
    <3> QED
      BY <3>1 DEF QuietPageShowsAddress
  <2>6. ASSUME OpenPodModal \/ ClosePodModal PROVE UNCHANGED page
    BY <2>6 DEF OpenPodModal, ClosePodModal
  <2>7. CASE UNCHANGED vars
    BY <2>3, <2>7 DEF vars
  <2> QED
    BY <2>1, <2>2, <2>3, <2>4, <2>5, <2>6, <2>7, NextFamilies
<1> QED
  BY <1>1, <1>2, PageInvAlways, PTL DEF Spec

\* The remembered shipment is on one of the two pages: a handler that remembers
\* one renders it in the same step, and the other page keeps its own.
THEOREM RememberedIsRendered == Spec => []CurrentIsOnAPage
<1>1. Init => CurrentIsOnAPage
  BY InitialPage
<1>2. PageInv /\ CurrentIsOnAPage /\ [Next]_vars => CurrentIsOnAPage'
  <2> USE PageAssumption
  <2> SUFFICES ASSUME PageInv, CurrentIsOnAPage, [Next]_vars PROVE CurrentIsOnAPage'
    OBVIOUS
  <2>t. TypeOK
    BY DEF PageInv
  <2>1. ASSUME NEW k \in Slots, Reload(k) PROVE CurrentIsOnAPage'
    BY <2>1 DEF Reload, CurrentIsOnAPage
  <2>2. ASSUME UNCHANGED <<current, panel, publicShown>> PROVE CurrentIsOnAPage'
    BY <2>2 DEF CurrentIsOnAPage
  <2>3. ASSUME NEW k \in Slots, Navigates(k) \/ Sends(k) \/ ServedOrLost(k) \/ PodDone(k)
        PROVE  UNCHANGED <<current, panel, publicShown>>
    BY <2>3, <2>t, NavigationFacts, SendingFacts, ServerFacts DEF PodDone, tracking
  <2>4. ASSUME NEW k \in Slots, LookupDone(k) PROVE CurrentIsOnAPage'
    BY <2>4, <2>t, LookupDoneFacts DEF CurrentIsOnAPage
  <2>5. ASSUME NEW k \in Slots, PublicDone(k) PROVE CurrentIsOnAPage'
    BY <2>5, <2>t, PublicDoneFacts DEF CurrentIsOnAPage
  <2>6. ASSUME (\E hash \in Addresses : EditUrl(hash)) \/ OpenPodModal \/ ClosePodModal
        PROVE  UNCHANGED <<current, panel, publicShown>>
    BY <2>6 DEF EditUrl, OpenPodModal, ClosePodModal, tracking
  <2>7. CASE UNCHANGED vars
    BY <2>2, <2>7 DEF vars, tracking
  <2> QED
    BY <2>1, <2>2, <2>3, <2>4, <2>5, <2>6, <2>7, NextFamilies
<1> QED
  BY <1>1, <1>2, PageInvAlways, PTL DEF Spec

(***************************************************************************)
(* What the server recorded.  A call it has handled with success was       *)
(* accepted; its answer then arrives or is lost, and the mock answers a    *)
(* lost one with success.                                                  *)
(***************************************************************************)
RecordedIsAccepted ==
    \A k \in Slots : calls[k].done => calls[k].answer = "accepted" /\ calls[k].state # "sent"

LEMMA RecordedStep == PageInv /\ RecordedIsAccepted /\ [Next]_vars => RecordedIsAccepted'
<1> USE PageAssumption
<1> SUFFICES ASSUME PageInv, RecordedIsAccepted, [Next]_vars PROVE RecordedIsAccepted'
  OBVIOUS
<1>t. TypeOK
  BY DEF PageInv
<1>1. ASSUME \A j \in Slots : calls'[j] = calls[j] \/ ~calls'[j].done
      PROVE  RecordedIsAccepted'
  BY <1>1 DEF RecordedIsAccepted
<1>2. \A kind, s : ~NewCall(kind, s).done
  BY DEF NewCall
<1>3. ~Idle.done
  BY DEF Idle, NewCall
<1>4. ASSUME NEW k \in Slots, Reload(k) PROVE RecordedIsAccepted'
  BY <1>1, <1>2, <1>3, <1>4 DEF Reload, FirstCalls
<1>5. ASSUME NEW k \in Slots, NEW kind, NEW s, Send(k, kind, s) PROVE RecordedIsAccepted'
  BY <1>1, <1>2, <1>5, <1>t DEF Send, TypeOK
<1>6. ASSUME UNCHANGED calls PROVE RecordedIsAccepted'
  BY <1>1, <1>6
<1>7. ASSUME NEW k \in Slots, NEW pending, NEW v, NEW s, Navigate(k, pending, v, s)
      PROVE  RecordedIsAccepted'
  BY <1>5, <1>6, <1>7 DEF Navigate, ShowPublic, ShowView
<1>8. ASSUME NEW k \in Slots, Navigates(k) \/ Sends(k) PROVE RecordedIsAccepted'
  BY <1>5, <1>7, <1>8 DEF Navigates, Sends, HashChange, Click, Track, Lookup, LookupPublic,
                          SubmitPOD
<1>9. ASSUME NEW k \in Slots, NEW answer \in Answers, Serve(k, answer)
      PROVE  RecordedIsAccepted'
  <2>1. calls[k] \in Call
    BY <1>9, <1>t DEF Serve, TypeOK
  <2>2. calls' = [calls EXCEPT ![k] = [calls[k] EXCEPT !.state = "answered",
                     !.answer = answer, !.done = (answer = "accepted")]]
    BY <1>9, <1>t DEF Serve, TypeOK
  <2>3. \A j \in Slots \ {k} : calls'[j] = calls[j]
    BY <2>2, <1>t DEF TypeOK
  <2>4. /\ calls'[k].state = "answered" /\ calls'[k].answer = answer
        /\ calls'[k].done = (answer = "accepted")
    BY <2>1, <2>2, <1>t DEF TypeOK, Call
  <2> QED
    BY <2>3, <2>4 DEF RecordedIsAccepted
<1>10. ASSUME NEW k \in Slots, Lose(k) PROVE RecordedIsAccepted'
  <2>1. calls[k] \in Call
    BY <1>10, <1>t DEF Lose, TypeOK
  <2>2. calls' = [calls EXCEPT ![k] = [calls[k] EXCEPT !.state = "lost"]]
    BY <1>10, <1>t DEF Lose, TypeOK
  <2>3. /\ calls'[k].state = "lost" /\ calls'[k].answer = calls[k].answer
        /\ calls'[k].done = calls[k].done
    BY <2>1, <2>2, <1>t DEF TypeOK, Call
  <2> QED
    BY <2>2, <2>3, <1>t DEF RecordedIsAccepted, TypeOK
<1>11. ASSUME NEW k \in Slots, LookupDone(k) \/ PublicDone(k) \/ PodDone(k)
       PROVE  RecordedIsAccepted'
  <2>1. PICK c : calls' = [calls EXCEPT ![k] = c] /\ ~c.done
    BY <1>2, <1>3, <1>11 DEF LookupDone, PublicDone, PodDone, Finish
  <2> QED
    BY <1>1, <2>1, <1>t DEF TypeOK
<1>12. ASSUME (\E hash \in Addresses : EditUrl(hash)) \/ OpenPodModal \/ ClosePodModal
       PROVE  UNCHANGED calls
  BY <1>12 DEF EditUrl, OpenPodModal, ClosePodModal
<1>13. CASE UNCHANGED vars
  BY <1>6, <1>13 DEF vars
<1> QED
  BY <1>4, <1>6, <1>8, <1>9, <1>10, <1>11, <1>12, <1>13, NextFamilies DEF ServedOrLost

\* A signature the server has recorded closes its dialog when its handler goes
\* on, whether the answer came or was lost; a reload closes it as well.
THEOREM RecordedProofCloses == Spec => RecordedProofClosesDialog
<1> DEFINE Closes == \A k \in Slots :
              calls[k].kind = "pod" /\ calls[k].done /\ calls'[k].kind # "pod"
                  => dialog' = NoShipment
<1>1. Init => RecordedIsAccepted
  BY DEF Init, FirstCalls, NewCall, Idle, RecordedIsAccepted
<1>2. PageInv /\ RecordedIsAccepted /\ [Next]_vars => [Closes]_vars
  <2> USE PageAssumption
  <2> SUFFICES ASSUME PageInv, RecordedIsAccepted, Next PROVE Closes
    OBVIOUS
  <2>t. TypeOK
    BY DEF PageInv
  <2>1. ASSUME NEW k \in Slots, Reload(k) PROVE Closes
    BY <2>1 DEF Reload
  <2>2. ASSUME \A j \in Slots : calls[j].kind = "pod" => calls'[j].kind = "pod" PROVE Closes
    BY <2>2
  <2>3. ASSUME NEW k \in Slots, Navigates(k) \/ Sends(k) \/ ServedOrLost(k) PROVE Closes
    BY <2>2, <2>3, <2>t, NavigationFacts, SendingFacts, ServerFacts
  <2>4. ASSUME NEW k \in Slots, LookupDone(k) \/ PublicDone(k) PROVE Closes
    BY <2>2, <2>4, <2>t, LookupDoneFacts, PublicDoneFacts DEF TypeOK
  <2>5. ASSUME NEW k \in Slots, PodDone(k) PROVE Closes
    <3>1. calls[k].done => Received(calls[k]) \in {"accepted", "mock"}
      BY DEF RecordedIsAccepted, Received
    <3>2. \A j \in Slots \ {k} : calls'[j] = calls[j]
      BY <2>5, PodDoneFacts
    <3>3. Received(calls[k]) \in {"accepted", "mock"} => dialog' = NoShipment
      BY <2>5, PodDoneFacts
    <3> QED
      BY <3>1, <3>2, <3>3
  <2>6. ASSUME (\E hash \in Addresses : EditUrl(hash)) \/ OpenPodModal \/ ClosePodModal
        PROVE  Closes
    BY <2>6 DEF EditUrl, OpenPodModal, ClosePodModal
  <2> QED
    BY <2>1, <2>3, <2>4, <2>5, <2>6, NextFamilies
<1>3. Spec => []RecordedIsAccepted
  BY <1>1, RecordedStep, PageInvAlways, PTL DEF Spec
<1> QED
  BY <1>2, <1>3, PageInvAlways, PTL DEF Spec, RecordedProofClosesDialog

-------------------------------------------------------------------------------
(***************************************************************************)
(* The session of the web client, for any number of tabs, accounts,        *)
(* addresses and calls under way.                                          *)
(*                                                                         *)
(* What a step writes is one of a few things (StepCases): a page begins to *)
(* load or reads the user, a handler takes over a session or the garbled   *)
(* one and writes its token, then its user, a page writes its user back to *)
(* the storage, or the storage is cleared; every other step leaves storage *)
(* and memory alone.  The three properties are read off these cases.       *)
(***************************************************************************)
USE SessionAssumption

-------------------------------------------------------------------------------
(***************************************************************************)
(* What a step may do to the storage and to the memory of the pages.       *)
(***************************************************************************)
Loads == \E t \in Tabs : LoadPublic(t) \/ ReadToken(t)
Reads == \E t \in Tabs : ReadUser(t)

Handed ==
    {Pair(u.id, u) : u \in UserRecords} \cup
    {Pair(Mock, User(MockAccount, e)) : e \in Emails}

TakesOver ==
    \E t \in Tabs :
        /\ busy[t] = NotBusy
        /\ \/ SignsIn /\ \E s \in Handed : TakeOver(t, s, s)
           \/ /\ TakeOver(t, NoSession, Pair(Garbled, GarbledUser))
              /\ UNCHANGED <<loggedOut, loaded>>

StoresUsers == \E t \in Tabs : StoreUser(t)

WritesBack ==
    \E t \in Tabs, u \in UserRecords :
        /\ session[t].user # NoUser /\ u.id = session[t].user.id
        /\ Remember(t, u)
        /\ UNCHANGED <<busy, loggedOut, loaded>>

Clears == \E t \in Tabs : Clear(t) \/ LogOut(t)
Keeps  == UNCHANGED <<stored, session, busy, loggedOut, loaded>>

LEMMA StepCases ==
    ASSUME SessionTypeOK, [SessionNext]_sessionVars
    PROVE  /\ \/ Loads \/ Reads \/ TakesOver \/ StoresUsers \/ WritesBack
              \/ Clears \/ Keeps
           /\ awaited' \subseteq SessionCall
  <1>1. ASSUME NEW t \in Tabs, LoadPublic(t) \/ ReadToken(t)
        PROVE  Loads /\ awaited' \subseteq SessionCall
    BY <1>1 DEF LoadPublic, ReadToken, Load, Loads, SessionTypeOK
  <1>2. ASSUME NEW t \in Tabs, ReadUser(t) \/ Clear(t)
        PROVE  (Reads \/ Clears) /\ awaited' \subseteq SessionCall
    BY <1>2 DEF ReadUser, Clear, Reads, Clears, SessionTypeOK
  <1>3. ASSUME NEW c \in SessionCall, Submit(c)
        PROVE  Keeps /\ awaited' \subseteq SessionCall
    BY <1>3 DEF Submit, Keeps, SessionTypeOK
  <1>4. ASSUME NEW c \in awaited, Refused(c)
        PROVE  Keeps /\ awaited' \subseteq SessionCall
    BY <1>4 DEF Refused, Done, Keeps, SessionTypeOK
  <1>5. ASSUME NEW c \in awaited, NEW u \in UserRecords, SignedIn(c, u)
        PROVE  TakesOver /\ awaited' \subseteq SessionCall
    <2>1. c \in SessionCall /\ c.tab \in Tabs
      BY DEF SessionTypeOK, SessionCall
    <2>2. Pair(u.id, u) \in Handed
      BY DEF Handed
    <2> QED
      BY <1>5, <2>1, <2>2 DEF SignedIn, Done, TakesOver, SessionTypeOK
  <1>6. ASSUME NEW c \in awaited, MockSignIn(c)
        PROVE  TakesOver /\ awaited' \subseteq SessionCall
    <2>1. c \in SessionCall /\ c.tab \in Tabs /\ c.email \in Emails
      BY DEF SessionTypeOK, SessionCall
    <2>2. Pair(Mock, User(MockAccount, c.email)) \in Handed
      BY <2>1 DEF Handed
    <2> QED
      BY <1>6, <2>1, <2>2 DEF MockSignIn, Done, TakesOver, SessionTypeOK
  <1>7. ASSUME NEW c \in awaited, MockSuccess(c)
        PROVE  TakesOver /\ awaited' \subseteq SessionCall
    <2>1. c \in SessionCall /\ c.tab \in Tabs
      BY DEF SessionTypeOK, SessionCall
    <2> QED
      BY <1>7, <2>1 DEF MockSuccess, Done, TakesOver, SessionTypeOK
  <1>8. ASSUME NEW t \in Tabs, StoreUser(t)
        PROVE  StoresUsers /\ awaited' \subseteq SessionCall
    BY <1>8 DEF StoreUser, StoresUsers, SessionTypeOK
  <1>9. ASSUME NEW c \in awaited, ProfileSaved(c)
        PROVE  (WritesBack \/ Keeps) /\ awaited' \subseteq SessionCall
    <2>1. c \in SessionCall /\ c.tab \in Tabs /\ c.email \in Emails
      BY DEF SessionTypeOK, SessionCall
    <2>2. CASE IsOwn(c, session[c.tab].user)
      <3>1. session[c.tab].user # NoUser
        BY <2>2 DEF IsOwn
      <3>2. session[c.tab].user \in UserRecords
        BY <2>1, <3>1 DEF SessionTypeOK
      <3> DEFINE u == User(session[c.tab].user.id, c.email)
      <3>3. u \in UserRecords /\ u.id = session[c.tab].user.id
        BY <2>1, <3>2 DEF User, UserRecords
      <3>4. Remember(c.tab, u) /\ UNCHANGED <<busy, loggedOut, loaded>>
        BY <1>9, <2>2 DEF ProfileSaved
      <3>5. WritesBack
        BY <2>1, <3>1, <3>3, <3>4 DEF WritesBack
      <3> QED
        BY <1>9, <3>5 DEF ProfileSaved, Done, SessionTypeOK
    <2>3. CASE ~ IsOwn(c, session[c.tab].user)
      BY <1>9, <2>3 DEF ProfileSaved, Done, Keeps, SessionTypeOK
    <2> QED
      BY <2>2, <2>3
  <1>10. ASSUME NEW t \in Tabs, SetPicture(t)
         PROVE  WritesBack /\ awaited' \subseteq SessionCall
    <2>1. session[t].user \in UserRecords
      BY <1>10 DEF SetPicture, SessionTypeOK
    <2> QED
      BY <1>10, <2>1 DEF SetPicture, WritesBack, SessionTypeOK
  <1>11. ASSUME NEW t \in Tabs, LogOut(t)
         PROVE  Clears /\ awaited' \subseteq SessionCall
    BY <1>11 DEF LogOut, Clears, SessionTypeOK
  <1>12. ASSUME UNCHANGED sessionVars
         PROVE  Keeps /\ awaited' \subseteq SessionCall
    BY <1>12 DEF sessionVars, Keeps, SessionTypeOK
  <1> QED
    BY <1>1, <1>2, <1>3, <1>4, <1>5, <1>6, <1>7, <1>8, <1>9, <1>10, <1>11, <1>12
       DEF SessionNext

\* What is handed over is a session: of its types, and of one account.
LEMMA HandedIsWhole ==
    ASSUME NEW s \in Handed
    PROVE  /\ s \in [token : Tokens, user : UserRecords]
           /\ Whole(s)
  <1>1. CASE \E u \in UserRecords : s = Pair(u.id, u)
    <2>1. PICK u \in UserRecords : s = Pair(u.id, u)
      BY <1>1
    <2>2. u.id \in Accounts /\ u.id # Mock
      BY DEF UserRecords
    <2> QED
      BY <2>1, <2>2 DEF Pair, Tokens, Whole, Holder
  <1>2. CASE \E e \in Emails : s = Pair(Mock, User(MockAccount, e))
    <2>1. PICK e \in Emails : s = Pair(Mock, User(MockAccount, e))
      BY <1>2
    <2> QED
      BY <2>1 DEF Pair, User, Tokens, UserRecords, Whole, Holder
  <1> QED
    BY <1>1, <1>2 DEF Handed

LEMMA EmptyIsWhole ==
    /\ NoSession \in [token : Tokens, user : {NoUser}]
    /\ Whole(NoSession)
    /\ Whole(Pair(Garbled, GarbledUser))
  BY DEF NoSession, Pair, NoUser, GarbledUser, User, Tokens, Whole, Holder

-------------------------------------------------------------------------------
(***************************************************************************)
(* Types.                                                                  *)
(***************************************************************************)
Stores == [token : Tokens, user : UserRecords \cup {NoUser, GarbledUser}]
Memory == [token : Tokens, user : UserRecords \cup {NoUser}]
Errands ==
    {NotBusy, Clearing} \cup {Loading(k) : k \in Tokens}
    \cup {Storing(u) : u \in UserRecords \cup {GarbledUser}}

\* What a tab does between two calls, told by its name.
LEMMA ErrandKinds ==
    ASSUME NEW b \in Errands
    PROVE  /\ b.doing = "loading" => b.token \in Tokens
           /\ b.doing = "storing" =>
                  b.user \in UserRecords \cup {GarbledUser} /\ b.user.id # Nothing
           /\ b = NotBusy \/ b = Clearing => b.doing \notin {"loading", "storing"}
  <1>1. CASE b = NotBusy \/ b = Clearing
    BY <1>1 DEF NotBusy, Clearing
  <1>2. CASE \E k \in Tokens : b = Loading(k)
    BY <1>2 DEF Loading, NotBusy, Clearing
  <1>3. CASE \E u \in UserRecords \cup {GarbledUser} : b = Storing(u)
    <2>1. PICK u \in UserRecords \cup {GarbledUser} : b = Storing(u)
      BY <1>3
    <2>2. u.id # Nothing
      BY DEF UserRecords, GarbledUser, User
    <2> QED
      BY <2>1, <2>2 DEF Storing, NotBusy, Clearing
  <1> QED
    BY <1>1, <1>2, <1>3 DEF Errands

LEMMA TypesStep ==
    ASSUME SessionTypeOK, [SessionNext]_sessionVars
    PROVE  SessionTypeOK'
  <1> DEFINE Types == /\ stored' \in Stores /\ session' \in [Tabs -> Memory]
                      /\ busy' \in [Tabs -> Errands]
                      /\ loggedOut' \in BOOLEAN /\ loaded' \subseteq Tabs
  <1>1. /\ stored \in Stores /\ session \in [Tabs -> Memory]
        /\ busy \in [Tabs -> Errands]
        /\ loggedOut \in BOOLEAN /\ loaded \subseteq Tabs
    BY DEF SessionTypeOK, Stores, Memory, Errands
  <1>2. NoSession \in Memory /\ NoSession \in Stores
    BY EmptyIsWhole DEF Memory, Stores
  <1>3. NotBusy \in Errands /\ Clearing \in Errands
    BY DEF Errands
  <1>4. ASSUME Loads
        PROVE  Types
    <2>1. PICK t \in Tabs : LoadPublic(t) \/ ReadToken(t)
      BY <1>4 DEF Loads
    <2>2. Loading(stored.token) \in Errands
      BY <1>1 DEF Stores, Errands
    <2> QED
      BY <1>1, <1>2, <2>1, <2>2 DEF LoadPublic, ReadToken, Load
  <1>5. ASSUME Reads
        PROVE  Types
    <2>1. PICK t \in Tabs : ReadUser(t)
      BY <1>5 DEF Reads
    <2>2. busy[t].token \in Tokens
      BY <1>1, <2>1, ErrandKinds DEF ReadUser
    <2>3. \A u \in UserRecords \cup {NoUser} : Pair(busy[t].token, u) \in Memory
      BY <2>2 DEF Pair, Memory
    <2> QED
      BY <1>1, <1>3, <2>1, <2>3 DEF ReadUser, Restore
  <1>6. ASSUME TakesOver
        PROVE  Types
    <2>1. PICK t \in Tabs, m \in Memory, k \in Tokens, u \in UserRecords \cup {GarbledUser} :
              /\ session' = [session EXCEPT ![t] = m]
              /\ stored' = [stored EXCEPT !.token = k]
              /\ busy' = [busy EXCEPT ![t] = Storing(u)]
              /\ SignsIn \/ UNCHANGED <<loggedOut, loaded>>
      <3>1. \A s \in Handed : s \in Memory /\ s.token \in Tokens /\ s.user \in UserRecords
        BY HandedIsWhole DEF Memory
      <3>2. /\ Pair(Garbled, GarbledUser).token \in Tokens
            /\ Pair(Garbled, GarbledUser).user = GarbledUser
        BY DEF Pair, Tokens
      <3> QED
        BY <1>2, <1>6, <3>1, <3>2 DEF TakesOver, TakeOver
    <2>2. Storing(u) \in Errands
      BY DEF Errands
    <2>3. [stored EXCEPT !.token = k] \in Stores
      BY <1>1 DEF Stores
    <2> QED
      BY <1>1, <2>1, <2>2, <2>3 DEF SignsIn
  <1>7. ASSUME StoresUsers
        PROVE  Types
    <2>1. PICK t \in Tabs : StoreUser(t)
      BY <1>7 DEF StoresUsers
    <2>2. busy[t].user \in UserRecords \cup {GarbledUser}
      BY <1>1, <2>1, ErrandKinds DEF StoreUser
    <2>3. [stored EXCEPT !.user = busy[t].user] \in Stores
      BY <1>1, <2>2 DEF Stores
    <2> QED
      BY <1>1, <1>3, <2>1, <2>3 DEF StoreUser
  <1>8. ASSUME WritesBack
        PROVE  Types
    <2>1. PICK t \in Tabs, u \in UserRecords :
              /\ Remember(t, u)
              /\ UNCHANGED <<busy, loggedOut, loaded>>
      BY <1>8 DEF WritesBack
    <2>2. [session[t] EXCEPT !.user = u] \in Memory
      BY <1>1 DEF Memory
    <2>3. [stored EXCEPT !.user = u] \in Stores
      BY <1>1 DEF Stores
    <2> QED
      BY <1>1, <2>1, <2>2, <2>3 DEF Remember
  <1>9. ASSUME Clears
        PROVE  Types
    BY <1>1, <1>2, <1>3, <1>9 DEF Clears, Clear, LogOut
  <1>10. ASSUME Keeps
         PROVE  Types
    BY <1>1, <1>10 DEF Keeps
  <1>11. Types /\ awaited' \subseteq SessionCall
    BY <1>4, <1>5, <1>6, <1>7, <1>8, <1>9, <1>10, StepCases
  <1> QED
    BY <1>11 DEF SessionTypeOK, Stores, Memory, Errands

(***************************************************************************)
(* Storage, pages and calls keep their types: a page never takes the text  *)
(* "undefined" for a user.                                                 *)
(***************************************************************************)
THEOREM SessionTypes == SessionSpec => []SessionTypeOK
  <1>1. SessionInit => SessionTypeOK
    BY EmptyIsWhole DEF SessionInit, SessionTypeOK
  <1>2. SessionTypeOK /\ [SessionNext]_sessionVars => SessionTypeOK'
    BY TypesStep
  <1> QED
    BY <1>1, <1>2, PTL DEF SessionSpec

-------------------------------------------------------------------------------
(***************************************************************************)
(* After a log-out no token that stands for anybody is found.  A page that *)
(* has begun to load since then and waits to read the user has read none   *)
(* either.                                                                 *)
(***************************************************************************)
Nobodys == {Nothing, Garbled}

FindsNobody ==
    loggedOut =>
        /\ stored.token \in Nobodys
        /\ \A t \in loaded : /\ session[t] = NoSession \/ session[t].token = Garbled
                             /\ busy[t].doing = "loading" => busy[t].token \in Nobodys

LEMMA FindsNobodyStep ==
    ASSUME SessionTypeOK, FindsNobody, [SessionNext]_sessionVars
    PROVE  FindsNobody'
  <1>1. NoSession.token = Nothing /\ NoSession.user = NoUser /\ Nothing \in Nobodys
    BY DEF NoSession, Pair, Nobodys
  <1>2. /\ stored \in Stores /\ session \in [Tabs -> Memory]
        /\ busy \in [Tabs -> Errands] /\ loaded \subseteq Tabs
    BY DEF SessionTypeOK, Stores, Memory, Errands
  <1>3. NotBusy.doing # "loading" /\ Clearing.doing # "loading"
    BY DEF NotBusy, Clearing
  <1>4. ASSUME loggedOut', Loads
        PROVE  FindsNobody'
    <2>1. PICK t \in Tabs : LoadPublic(t) \/ ReadToken(t)
      BY <1>4 DEF Loads
    <2>2. loggedOut /\ loaded' = loaded \cup {t} /\ stored' = stored
      BY <1>4, <2>1 DEF LoadPublic, ReadToken, Load
    <2>3. session' = [session EXCEPT ![t] = NoSession]
      BY <2>1 DEF LoadPublic, ReadToken, Load
    <2>4. \/ busy' = busy /\ busy[t] = NotBusy
          \/ busy' = [busy EXCEPT ![t] = Loading(stored.token)]
      BY <2>1 DEF LoadPublic, ReadToken, Load
    <2>5. busy'[t].doing = "loading" => busy'[t].token = stored.token
      BY <1>2, <1>3, <2>4 DEF Loading
    <2> QED
      BY <1>2, <2>2, <2>3, <2>4, <2>5 DEF FindsNobody
  <1>5. ASSUME loggedOut', Reads
        PROVE  FindsNobody'
    <2>1. PICK t \in Tabs : ReadUser(t)
      BY <1>5 DEF Reads
    <2>2. loggedOut /\ UNCHANGED <<stored, loggedOut, loaded>>
      BY <1>5, <2>1 DEF ReadUser
    <2>3. busy' = [busy EXCEPT ![t] = NotBusy] \/ busy' = [busy EXCEPT ![t] = Clearing]
      BY <2>1 DEF ReadUser, Restore
    <2>4. \/ session' = session
          \/ /\ busy[t].token # Nothing
             /\ \E u : session' = [session EXCEPT ![t] = Pair(busy[t].token, u)]
      BY <2>1 DEF ReadUser, Restore
    <2>5. t \in loaded => session'[t] = NoSession \/ session'[t].token = Garbled
      BY <1>2, <2>1, <2>2, <2>4 DEF FindsNobody, ReadUser, Nobodys, Pair
    <2> QED
      BY <1>2, <1>3, <2>2, <2>3, <2>4, <2>5 DEF FindsNobody
  <1>6. ASSUME loggedOut', TakesOver
        PROVE  FindsNobody'
    <2>1. PICK t \in Tabs : /\ TakeOver(t, NoSession, Pair(Garbled, GarbledUser))
                            /\ UNCHANGED <<loggedOut, loaded>>
      BY <1>6 DEF TakesOver, SignsIn
    <2>2. stored'.token = Garbled
      BY <1>2, <2>1 DEF TakeOver, Pair, Stores
    <2>3. Storing(Pair(Garbled, GarbledUser).user).doing # "loading"
      BY DEF Storing
    <2> QED
      BY <1>2, <1>6, <2>1, <2>2, <2>3 DEF TakeOver, FindsNobody, Nobodys
  <1>7. ASSUME loggedOut', StoresUsers
        PROVE  FindsNobody'
    <2>1. PICK t \in Tabs : StoreUser(t)
      BY <1>7 DEF StoresUsers
    <2>2. stored'.token = stored.token
      BY <1>2, <2>1 DEF StoreUser, Stores
    <2> QED
      BY <1>2, <1>3, <1>7, <2>1, <2>2 DEF StoreUser, FindsNobody
  <1>8. ASSUME loggedOut', WritesBack
        PROVE  FindsNobody'
    <2>1. PICK t \in Tabs, u \in UserRecords :
              /\ session[t].user # NoUser
              /\ Remember(t, u)
              /\ UNCHANGED <<busy, loggedOut, loaded>>
      BY <1>8 DEF WritesBack
    <2>2. stored'.token = stored.token /\ session'[t].token = session[t].token
      BY <1>2, <2>1 DEF Remember, Stores, Memory
    <2>3. t \in loaded => session'[t].token = Garbled
      BY <1>1, <1>8, <2>1, <2>2 DEF FindsNobody
    <2> QED
      BY <1>2, <1>8, <2>1, <2>2, <2>3 DEF Remember, FindsNobody
  <1>9. ASSUME loggedOut', Clears
        PROVE  FindsNobody'
    BY <1>1, <1>2, <1>3, <1>9 DEF Clears, Clear, LogOut, FindsNobody
  <1>10. ASSUME loggedOut', Keeps
         PROVE  FindsNobody'
    BY <1>10 DEF Keeps, FindsNobody
  <1>11. CASE ~ loggedOut'
    BY <1>11 DEF FindsNobody
  <1> QED
    BY <1>4, <1>5, <1>6, <1>7, <1>8, <1>9, <1>10, <1>11, StepCases

(***************************************************************************)
(* After a log-out no page that is loaded finds a token that stands for    *)
(* anybody, until somebody signs in, whatever pages that are still open    *)
(* write back.                                                             *)
(***************************************************************************)
THEOREM LogOutEnds == SessionSpec => []LogOutEndsSession
  <1>1. SessionInit => FindsNobody
    BY DEF SessionInit, FindsNobody
  <1>2. SessionTypeOK /\ FindsNobody /\ [SessionNext]_sessionVars => FindsNobody'
    BY FindsNobodyStep
  <1>3. FindsNobody => LogOutEndsSession
    BY DEF FindsNobody, Nobodys, LogOutEndsSession
  <1> QED
    BY <1>1, <1>2, <1>3, SessionTypes, PTL DEF SessionSpec

-------------------------------------------------------------------------------
StaysWhole ==
    \A t \in Tabs :
        Whole(session[t]) /\ ~ Whole(session'[t]) =>
            /\ busy[t].doing = "loading" /\ session'[t].token = busy[t].token
            /\ \/ stored.token # busy[t].token
               \/ ~ Whole(stored) \/ stored.user = GarbledUser

(***************************************************************************)
(* A page whose token and user belong together keeps it that way, except   *)
(* for loading a token that was replaced before the user was read, or what *)
(* was torn in the storage.                                                *)
(***************************************************************************)
THEOREM PagesWhole == SessionSpec => PagesStayWhole
  <1>1. ASSUME SessionTypeOK, [SessionNext]_sessionVars, NEW v \in Tabs,
               Whole(session[v]), ~ Whole(session'[v])
        PROVE  /\ busy[v].doing = "loading" /\ session'[v].token = busy[v].token
               /\ \/ stored.token # busy[v].token
                  \/ ~ Whole(stored) \/ stored.user = GarbledUser
    <2>1. stored \in Stores /\ session \in [Tabs -> Memory]
      BY <1>1 DEF SessionTypeOK, Stores, Memory
    <2>2. CASE Loads
      BY <1>1, <2>1, <2>2, EmptyIsWhole DEF Loads, LoadPublic, ReadToken, Load
    <2>3. CASE Reads
      <3>1. PICK t \in Tabs : ReadUser(t)
        BY <2>3 DEF Reads
      <3>2. t = v
        BY <1>1, <2>1, <3>1 DEF ReadUser, Restore
      <3>3. \/ /\ stored.user = GarbledUser
               /\ session'[v] = Pair(busy[v].token, NoUser)
            \/ session'[v] = Pair(busy[v].token, stored.user)
        BY <1>1, <2>1, <3>1, <3>2 DEF ReadUser, Restore
      <3> QED
        BY <1>1, <3>1, <3>2, <3>3 DEF ReadUser, Pair, Whole
    <2>4. CASE TakesOver
      BY <1>1, <2>1, <2>4, HandedIsWhole, EmptyIsWhole DEF TakesOver, TakeOver
    <2>5. CASE WritesBack
      <3>1. PICK t \in Tabs, u \in UserRecords :
                u.id = session[t].user.id /\ Remember(t, u)
        BY <2>5 DEF WritesBack
      <3>2. /\ session'[v].token = session[v].token
            /\ session'[v].user.id = session[v].user.id
        BY <2>1, <3>1 DEF Remember, Memory
      <3> QED
        BY <1>1, <3>2 DEF Whole
    <2>6. CASE StoresUsers \/ Clears \/ Keeps
      BY <1>1, <2>6 DEF StoresUsers, StoreUser, Clears, Clear, LogOut, Keeps
    <2> QED
      BY <2>2, <2>3, <2>4, <2>5, <2>6, StepCases, <1>1
  <1>2. SessionTypeOK /\ [SessionNext]_sessionVars => [StaysWhole]_sessionVars
    BY <1>1 DEF StaysWhole
  <1>3. SessionSpec => [][StaysWhole]_sessionVars
    BY <1>2, SessionTypes, PTL DEF SessionSpec
  <1> QED
    BY <1>3 DEF StaysWhole, PagesStayWhole

-------------------------------------------------------------------------------
(***************************************************************************)
(* What tears the stored session.  A step that stores a token or a user is *)
(* looked at with the tabs that are still to store theirs.                 *)
(***************************************************************************)
\* A session is whole when the id of its user is the holder of its token.
LEMMA WholeParts ==
    ASSUME NEW s \in Stores, NEW u
    PROVE  Whole([s EXCEPT !.user = u]) <=> u.id = Holder(s.token)
  BY DEF Whole, Stores

\* Nobody is in the middle of a sign-in, or all who are belong to the token.
LEMMA SettledParts ==
    ASSUME SessionTypeOK
    PROVE  Settled <=>
               /\ \A t \in Tabs : StoresUser(t) => busy[t].user.id = Holder(stored.token)
               /\ (\A t \in Tabs : ~ StoresUser(t)) => stored.user.id = Holder(stored.token)
  <1>1. stored \in Stores
    BY DEF SessionTypeOK, Stores
  <1> QED
    BY <1>1, WholeParts DEF Settled, Whole

LEMMA SettledPartsNext ==
    ASSUME SessionTypeOK'
    PROVE  Settled' <=>
               /\ \A t \in Tabs : StoresUser(t)' => busy'[t].user.id = Holder(stored'.token)
               /\ (\A t \in Tabs : ~ StoresUser(t)') => stored'.user.id = Holder(stored'.token)
  <1>1. stored' \in Stores
    BY DEF SessionTypeOK, Stores
  <1> QED
    BY <1>1, WholeParts DEF Settled, Whole, StoresUser

\* Whoever stores a token is the first to belong to it.
LEMMA TakeOverTears ==
    ASSUME SessionTypeOK, SessionTypeOK', Settled, ~ Settled', TakesOver
    PROVE  Overtaken
  <1>0. PICK t \in Tabs : \E s : /\ busy[t] = NotBusy
                                 /\ Whole(s)
                                 /\ stored' = [stored EXCEPT !.token = s.token]
                                 /\ busy' = [busy EXCEPT ![t] = Storing(s.user)]
    BY HandedIsWhole, EmptyIsWhole DEF TakesOver, TakeOver
  <1>1. PICK s : /\ busy[t] = NotBusy
                 /\ Whole(s)
                 /\ stored' = [stored EXCEPT !.token = s.token]
                 /\ busy' = [busy EXCEPT ![t] = Storing(s.user)]
    BY <1>0
  <1>2. stored \in Stores /\ busy \in [Tabs -> Errands]
    BY DEF SessionTypeOK, Stores, Errands
  <1>3. stored'.token = s.token /\ s.user.id = Holder(s.token)
    BY <1>1, <1>2 DEF Stores, Whole
  <1>4. StoresUser(t)' /\ busy'[t].user.id = Holder(stored'.token) /\ ~ StoresUser(t)
    BY <1>1, <1>2, <1>3 DEF StoresUser, Storing, NotBusy
  <1>5. \E v \in Tabs : StoresUser(v)' /\ busy'[v].user.id # Holder(stored'.token)
    BY <1>4, SettledPartsNext
  <1>6. PICK v \in Tabs : StoresUser(v)' /\ busy'[v].user.id # Holder(stored'.token)
    BY <1>5
  <1>7. v # t /\ busy'[v] = busy[v] /\ StoresUser(v)
    BY <1>1, <1>2, <1>4, <1>6 DEF StoresUser
  <1>8. busy[v].user.id = Holder(stored.token)
    BY <1>7, SettledParts
  <1> QED
    BY <1>6, <1>7, <1>8 DEF Overtaken

\* The second half of a sign-in never tears what was settled.
LEMMA StoreUserSettles ==
    ASSUME SessionTypeOK, SessionTypeOK', Settled, StoresUsers
    PROVE  Settled'
  <1>1. PICK t \in Tabs : StoreUser(t)
    BY DEF StoresUsers
  <1>2. stored \in Stores /\ busy \in [Tabs -> Errands]
    BY DEF SessionTypeOK, Stores, Errands
  <1>3. stored'.token = stored.token /\ stored'.user = busy[t].user
    BY <1>1, <1>2 DEF StoreUser, Stores
  <1>4. busy[t].user.id = Holder(stored.token)
    BY <1>1, SettledParts DEF StoreUser, StoresUser
  <1>5. \A v \in Tabs : StoresUser(v)' => StoresUser(v) /\ busy'[v] = busy[v]
    BY <1>1, <1>2 DEF StoreUser, StoresUser, NotBusy
  <1>6. \A v \in Tabs : StoresUser(v)' => busy'[v].user.id = Holder(stored'.token)
    BY <1>3, <1>5, SettledParts
  <1> QED
    BY <1>3, <1>4, <1>6, SettledPartsNext

\* A user written back tears the session only when nobody is to store one.
LEMMA WriteBackTears ==
    ASSUME SessionTypeOK, SessionTypeOK', Settled, ~ Settled', WritesBack
    PROVE  WrittenBack
  <1>1. PICK t \in Tabs, u \in UserRecords :
            /\ session[t].user # NoUser /\ u.id = session[t].user.id
            /\ Remember(t, u) /\ busy' = busy
    BY DEF WritesBack
  <1>2. stored \in Stores
    BY DEF SessionTypeOK, Stores
  <1>3. stored'.token = stored.token /\ stored'.user = u
    BY <1>1, <1>2 DEF Remember, Stores
  <1>4. \A v \in Tabs : StoresUser(v)' <=> StoresUser(v)
    BY <1>1 DEF StoresUser
  <1>5. \A v \in Tabs : StoresUser(v)' => busy'[v].user.id = Holder(stored'.token)
    BY <1>1, <1>3, <1>4, SettledParts
  <1>6. u.id # Holder(stored.token)
    BY <1>3, <1>5, SettledPartsNext
  <1> QED
    BY <1>1, <1>3, <1>6 DEF WrittenBack

\* An empty storage is whole, unless a user is still to come.
LEMMA ClearTears ==
    ASSUME SessionTypeOK, SessionTypeOK', Settled, ~ Settled', Clears
    PROVE  Overtaken
  <1>1. PICK t \in Tabs : Clear(t) \/ LogOut(t)
    BY DEF Clears
  <1>2. busy \in [Tabs -> Errands]
    BY DEF SessionTypeOK, Errands
  <1>3. /\ stored' = NoSession /\ stored'.token = Nothing
        /\ stored'.user.id = Holder(stored'.token)
    BY <1>1, EmptyIsWhole DEF Clear, LogOut, NoSession, Pair, Whole
  <1>4. \E v \in Tabs : StoresUser(v)'
    BY <1>3, SettledPartsNext
  <1>5. PICK v \in Tabs : StoresUser(v)'
    BY <1>4
  <1>6. StoresUser(v) /\ busy'[v] = busy[v]
    BY <1>1, <1>2, <1>5 DEF Clear, LogOut, StoresUser, NotBusy
  <1>7. busy[v].user.id # Nothing /\ busy[v].user.id = Holder(stored.token)
    BY <1>2, <1>6, ErrandKinds, SettledParts DEF StoresUser
  <1>8. stored.token # Nothing
    BY <1>7 DEF Holder
  <1> QED
    BY <1>3, <1>6, <1>8 DEF Overtaken

\* Every other step leaves storage and errands as they are, but for a page
\* that loads.
LEMMA OthersSettle ==
    ASSUME SessionTypeOK, SessionTypeOK', Settled, Loads \/ Reads \/ Keeps
    PROVE  Settled'
  <1>1. busy \in [Tabs -> Errands]
    BY DEF SessionTypeOK, Errands
  <1>2. stored' = stored
    BY DEF Loads, LoadPublic, ReadToken, Load, Reads, ReadUser, Keeps
  <1>3. \A v \in Tabs : /\ StoresUser(v)' <=> StoresUser(v)
                        /\ StoresUser(v) => busy'[v] = busy[v]
    <2>1. \/ busy' = busy
          \/ \E t \in Tabs : /\ ~ StoresUser(t)
                             /\ \E b : /\ busy' = [busy EXCEPT ![t] = b]
                                       /\ b.doing # "storing"
      <3>1. CASE Loads
        BY <3>1 DEF Loads, LoadPublic, ReadToken, Load, StoresUser, NotBusy, Loading
      <3>2. CASE Reads
        BY <3>2 DEF Reads, ReadUser, Restore, StoresUser, NotBusy, Clearing
      <3>3. CASE Keeps
        BY <3>3 DEF Keeps
      <3> QED
        BY <3>1, <3>2, <3>3
    <2> QED
      BY <1>1, <2>1 DEF StoresUser
  <1> QED
    BY <1>2, <1>3, SettledParts, SettledPartsNext

Torn == Settled /\ ~ Settled' => WrittenBack \/ Overtaken

(***************************************************************************)
(* The stored session is torn in two ways only: by a page that is signed   *)
(* in as somebody else than the stored token says and writes its user      *)
(* back, or by a token that comes or goes between the two halves of        *)
(* another page's sign-in.                                                 *)
(***************************************************************************)
THEOREM TornByOtherPages == SessionSpec => TornOnlyByOthers
  <1>1. SessionTypeOK /\ SessionTypeOK' /\ [SessionNext]_sessionVars => [Torn]_sessionVars
    BY StepCases, TakeOverTears, StoreUserSettles, WriteBackTears, ClearTears,
       OthersSettle DEF Torn
  <1>2. SessionSpec => [][Torn]_sessionVars
    BY <1>1, SessionTypes, PTL DEF SessionSpec
  <1> QED
    BY <1>2 DEF Torn, TornOnlyByOthers
================================================================================
