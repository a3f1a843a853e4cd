SPECIFICATION FairSpec
CONSTANTS
    c1 = c1
    c2 = c2
    s1 = s1
    Claims <- MCOneClaim
    Subusers <- MCSubusers
    Admin = admin
    Readonly = readonly
    SecretNames <- MCSecretNames
    SubuserSecret <- MCSubuserSecret
    SpecsOf <- MCRenamedSpecs
    NoKey = nokey
    NoSecret = nosecret
    Webhooks = FALSE
    LaggingQuotaCache = TRUE
    MaxCreates = 1
    MaxEdits = 1
    MaxDeletes = 2
    MaxStrips = 0
    MaxFails = 1
    MaxCrashes = 1
CHECK_DEADLOCK FALSE
INVARIANTS
    KeysInv
PROPERTIES
    Converges
    DeletionCompletes
    ImplementsLifecycle
