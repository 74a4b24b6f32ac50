\* All handlers: bookings, bulk bookings, scans, proof of delivery, status
\* override and agent dispatch.
SPECIFICATION Spec
CONSTANTS
    MaxShipments = 6
    MaxCheckpoints = 8
    MaxAudits = 4
    MaxBatch = 2
    Callers <- MCManagers
    GeneratedIds = {"G1"}
    ScanIds = {"T3", "G1"}
    ScanHubs = {}
    LocationTags = {}
    StatusTexts = {"garbled"}
    Origins = {"H1"}
    Agents = {"u3"}
    TargetSlots = {0, 5}
    Signatures = {}
    Images = {"long"}
INVARIANTS
    TypeOK
    StatusIsLastEvent
    HistoryOpensWithBooking
    ProofImpliesDelivery
    TrailsAgree
    DispatchIsLoggedWhole
PROPERTIES
    RepliesAreTruthful
    TrackingIdKeepsItsShipment
    ImplementsLedger
