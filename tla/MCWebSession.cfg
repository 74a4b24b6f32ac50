\* Two tabs, two accounts, two addresses, two calls under way.
SPECIFICATION SessionSpec
CONSTANTS
    Tabs = {t1, t2}
    Accounts = {a1, a2}
    Emails = {e1, e2}
    MockAccount = a1
    Nothing = Nothing
    Garbled = Garbled
    Mock = Mock
    MaxCalls = 2
SYMMETRY TabSymmetry
INVARIANTS
    LogOutEndsSession
PROPERTIES
    PagesStayWhole
    TornOnlyByOthers
