\* Accounts and store together: sign-in, registration, edits, expiry, bookings,
\* scans, proofs of delivery and restarts.
SPECIFICATION Spec
CONSTANTS
    MaxUsers = 8
    MaxTokens = 2
    NewIds = {"n1"}
    Emails <- MCEmails
    Secrets = {"User@123"}
    Names = {}
    RoleTexts = {"delivery_agent", "standard_customer"}
    Pictures = {}
    Targets = {"u2"}
    ServerSecret = "default"
    MaxShipments = 5
    MaxCheckpoints = 7
    MaxAudits = 2
    MaxBatch = 0
    GeneratedIds = {"G1"}
    ScanIds = {"G1"}
    ScanHubs = {}
    LocationTags = {}
    StatusTexts = {"IN_TRANSIT"}
    Origins = {"H1"}
    Agents = {}
    TargetSlots = {5}
    Signatures = {}
    Images = {}
INVARIANT
    ReferencesAreStored
PROPERTIES
    UpdatesByCurrentStaff
    ListingsOnlyGrow
