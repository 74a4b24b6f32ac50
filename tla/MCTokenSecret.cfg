\* A secret from the environment: issued tokens are never accepted.
SPECIFICATION Spec
CONSTANTS
    MaxUsers = 8
    MaxTokens = 1
    NewIds = {"n1", "n2"}
    Emails <- MCEmails
    Secrets = {"pw", "k2"}
    Names = {"long"}
    RoleTexts = {}
    Pictures = {"large"}
    Targets = {"u1", "n1"}
    ServerSecret = "environment"
INVARIANT
    IssuedTokenVerifies
