----------------------------- MODULE MCTrackingPage -----------------------------
(***************************************************************************)
(* Two shipments, two calls under way, a delivery agent and a visitor.     *)
(* The user may open the page without a fragment, the tracking view with a *)
(* shipment, and the link of an e-mail.                                    *)
(***************************************************************************)
EXTENDS TrackingPage, TLC

MCUsers == { [id |-> "u3", role |-> DELIVERY_AGENT, known |-> TRUE],
             NoCaller }

MCAddresses == { Blank,
                 [view |-> "tracking", shipment |-> "T2"],
                 [view |-> "public_track", shipment |-> "T2"] }

SlotSymmetry == Permutations(Slots)
===============================================================================
