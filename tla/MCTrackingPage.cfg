\* One page with two calls under way, answered in any order or lost.
SPECIFICATION Spec
CONSTANTS
    Shipments = {"T1", "T2"}
    NoShipment = "none"
    DefaultShipment = "T1"
    Slots = {k1, k2}
    MaxEvents = 2
    Addresses <- MCAddresses
    Users <- MCUsers
SYMMETRY SlotSymmetry
INVARIANTS
    QuietPageShowsAddress
    CurrentIsOnAPage
PROPERTIES
    RecordedProofClosesDialog
