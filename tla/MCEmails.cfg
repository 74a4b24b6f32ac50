\* The update endpoint gives two accounts the same address.
SPECIFICATION Spec
CONSTANTS
    MaxUsers = 8
    MaxTokens = 1
    NewIds = {"n1", "n2"}
    Emails <- MCEmails
    Secrets = {"pw", "k2"}
    Names = {"long"}
    RoleTexts = {}
    Pictures = {"large"}
    Targets = {"u1", "n1"}
    ServerSecret = "default"
INVARIANT
    EmailsUnique
