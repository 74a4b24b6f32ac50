\* A signature is drawn for the shipment whose button opened the dialog.
SPECIFICATION Spec
CONSTANTS
    Shipments = {"T1", "T2"}
    NoShipment = "none"
    DefaultShipment = "T1"
    Slots = {k1, k2}
    MaxEvents = 2
    Addresses <- MCAddresses
    Users <- MCUsers
INVARIANT
    DialogSignsItsShipment
