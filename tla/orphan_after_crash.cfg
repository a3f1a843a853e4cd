SPECIFICATION Spec
CONSTANTS
    c1 = c1
    c2 = c2
    s1 = s1
    Claims <- MCOneClaim
    Subusers <- MCSubusers
    Admin = admin
    Readonly = readonly
    SecretNames <- MCSecretNames
    SubuserSecret <- MCSubuserSecret
    SpecsOf <- MCSubuserSpecs
    NoKey = nokey
    NoSecret = nosecret
    Webhooks = TRUE
    LaggingQuotaCache = FALSE
    MaxCreates = 1
    MaxEdits = 0
    MaxDeletes = 2
    MaxStrips = 0
    MaxFails = 0
    MaxCrashes = 1
CHECK_DEADLOCK FALSE
INVARIANTS
    NoCephUserLeftBehind
